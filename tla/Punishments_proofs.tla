------------------------- MODULE Punishments_proofs -------------------------
(***************************************************************************)
(* Theorems about who is punished, how hard and how often.                 *)
(*                                                                         *)
(* Escalation: type correctness, that nobody is punished harder than       *)
(* earned and that levels are only forgotten, for any number of workers,   *)
(* counters and inner caches and any reset times.                          *)
(*                                                                         *)
(* Nuke: for any number of runs, definitions and stored messages.          *)
(***************************************************************************)
EXTENDS Escalation, Nuke, FiniteSetTheorems, TLAPS

-----------------------------------------------------------------------------
(* Escalation.                                                             *)

\* What the update of a counter may have read or stored is bounded by the
\* punishments that have been counted.
Bounded ==
    /\ \A i \in Inners, k \in Kinds :
          cells[i][k] # None => cells[i][k].val <= offences[k]
    /\ \A w \in Workers :
          pc[w] = "store" /\ current[w] # None => current[w] <= offences[kind[w]]

\* The inductive invariant: a punishment index is copied from a cell, a cell
\* is written from what an update has read, so all three are bounded at once.
Inv == TypeOK /\ Bounded /\ NeverHarsherThanEarned

\* The cell a worker looks at is a cell or None.
LEMMA CellType ==
    ASSUME TypeOK, NEW w \in Workers
    PROVE  CellOf(w) \in Cell \cup {None}
BY DEF TypeOK, CellOf

\* Writing a value makes a cell of that value.
LEMMA WrittenType ==
    ASSUME NEW c \in Cell \cup {None}, NEW v \in Nat
    PROVE  Written(c, v) \in Cell /\ Written(c, v).val = v
BY DEF Written, Cell

\* A tick keeps a cell's value or drops the cell.
LEMMA AgedType ==
    ASSUME NEW c \in Cell \cup {None}
    PROVE  /\ Aged(c) \in Cell \cup {None}
           /\ Aged(c) # None => c # None /\ Aged(c).val = c.val
<1>1. CASE c = None \/ c.ttl = 1
  BY <1>1 DEF Aged
<1>2. CASE ~ (c = None \/ c.ttl = 1)
  <2>1. /\ c.ttl \in (Nat \ {0}) \cup {Never}
        /\ c.age \in Nat /\ c.val \in Nat
    BY <1>2 DEF Cell
  <2>2. Sooner(c.ttl) \in (Nat \ {0}) \cup {Never}
    BY <1>2, <2>1 DEF Sooner
  <2>3. Aged(c) = [val |-> c.val, ttl |-> Sooner(c.ttl), age |-> c.age + 1]
    BY <1>2 DEF Aged
  <2>4. QED
    BY <1>2, <2>1, <2>2, <2>3 DEF Cell
<1>3. QED
  BY <1>1, <1>2

\* No counter, no worker under way.
LEMMA InitInv == Init => Inv
<1> SUFFICES ASSUME Init PROVE Inv
  OBVIOUS
<1>1. crowded \in BOOLEAN
  BY DEF Init
<1>2. QED
  BY <1>1, EscalationAssumption
     DEF Init, Inv, TypeOK, Bounded, NeverHarsherThanEarned, PCs

\* A cell written in the worker's inner cache keeps the table of cells typed,
\* and bounded if the cell is.
LEMMA SetCellKeeps ==
    ASSUME TypeOK, NEW w \in Workers, NEW c \in Cell \cup {None}, SetCell(w, c)
    PROVE  /\ cells' \in [Inners -> [Kinds -> Cell \cup {None}]]
           /\ \A i \in Inners, k \in Kinds :
                 cells'[i][k] = IF i = ref[w] /\ k = kind[w] THEN c ELSE cells[i][k]
BY DEF TypeOK, SetCell

\* Moving a worker on is a step of its program counter only.
LEMMA GotoKeeps ==
    ASSUME TypeOK, NEW w \in Workers, NEW from, NEW to \in PCs, Goto(w, from, to)
    PROVE  /\ pc' \in [Workers -> PCs]
           /\ pc[w] = from /\ pc'[w] = to
           /\ \A v \in Workers : v # w => pc'[v] = pc[v]
BY DEF TypeOK, Goto

\* A check that finds the user's store takes a reference to it.
LEMMA GetHitKeeps ==
    ASSUME Inv, NEW w \in Workers, NEW k \in Kinds, GetHit(w, k)
    PROVE  Inv'
<1> USE DEF Inv
<1>1. pc' \in [Workers -> PCs] /\ pc'[w] = "read"
      /\ \A v \in Workers : v # w => pc'[v] = pc[v]
  BY GotoKeeps DEF GetHit, PCs
<1>2. TypeOK'
  BY <1>1, EscalationAssumption DEF TypeOK, GetHit, LookupHit
<1>3. Bounded'
  BY <1>1 DEF TypeOK, Bounded, GetHit, LookupHit
<1>4. NeverHarsherThanEarned'
  BY <1>1 DEF TypeOK, NeverHarsherThanEarned, GetHit, LookupHit
<1>5. QED
  BY <1>2, <1>3, <1>4

\* A check that finds no store makes one first.
LEMMA GetMissKeeps ==
    ASSUME Inv, NEW w \in Workers, NEW k \in Kinds, GetMiss(w, k)
    PROVE  Inv'
<1> USE DEF Inv
<1>1. pc' \in [Workers -> PCs] /\ pc'[w] = "push"
      /\ \A v \in Workers : v # w => pc'[v] = pc[v]
  BY GotoKeeps DEF GetMiss, PCs
<1>2. TypeOK'
  BY <1>1 DEF TypeOK, GetMiss
<1>3. Bounded'
  BY <1>1 DEF TypeOK, Bounded, GetMiss
<1>4. NeverHarsherThanEarned'
  BY <1>1 DEF TypeOK, NeverHarsherThanEarned, GetMiss
<1>5. QED
  BY <1>2, <1>3, <1>4

\* The level a check acts on is the stored one, or 0.
LEMMA ReadKeeps ==
    ASSUME Inv, NEW w \in Workers, Read(w)
    PROVE  Inv'
<1> USE DEF Inv
<1>1. /\ pc[w] = "read" /\ pc' \in [Workers -> PCs]
      /\ pc'[w] \in {"push", "update"}
      /\ \A v \in Workers : v # w => pc'[v] = pc[v]
  BY GotoKeeps DEF Read, PCs
<1>2. CellOf(w) # None => CellOf(w).val \in Nat /\ CellOf(w).val <= offences[kind[w]]
  BY CellType DEF TypeOK, Bounded, CellOf, Cell
<1>3. /\ count' \in [Workers -> Nat]
      /\ count'[w] <= offences[kind[w]]
      /\ \A v \in Workers : v # w => count'[v] = count[v]
  BY <1>2 DEF TypeOK, Read
<1>4. TypeOK'
  BY <1>1, <1>3 DEF TypeOK, Read
<1>5. Bounded'
  BY <1>1 DEF TypeOK, Bounded, Read
<1>6. NeverHarsherThanEarned'
  BY <1>1, <1>3 DEF TypeOK, NeverHarsherThanEarned, Read
<1>7. QED
  BY <1>4, <1>5, <1>6

\* Looking up or making an inner cache, in Push (from "push" to "set") and in
\* Update (from "update" to "load"): no value changes, and the worker is past
\* its Get before and after.
LEMMA InnerKeeps ==
    ASSUME Inv, NEW w \in Workers,
           NEW from \in PCs \ {"idle", "read"}, NEW to \in PCs \ {"store"},
           \/ InnerHit(w, from, to) \/ InnerMiss(w, from, to)
           \/ \E i \in Inners : MakeInner(w, i, from, to)
    PROVE  Inv'
<1> USE DEF Inv
<1>1. /\ pc[w] = from /\ pc' \in [Workers -> PCs] /\ pc'[w] = to
      /\ \A v \in Workers : v # w => pc'[v] = pc[v]
  BY GotoKeeps DEF InnerHit, InnerMiss, MakeInner
<1>2. /\ cells' \in [Inners -> [Kinds -> Cell \cup {None}]]
      /\ \A i \in Inners, k \in Kinds :
            cells'[i][k] # None => cells'[i][k] = cells[i][k]
      /\ UNCHANGED <<kind, count, current, offences, crowded>>
  <2>1. CASE InnerHit(w, from, to) \/ InnerMiss(w, from, to)
    BY <2>1 DEF TypeOK, InnerHit, InnerMiss
  <2>2. ASSUME NEW i \in Inners, MakeInner(w, i, from, to)
        PROVE  <1>2!:
    <3>1. cells' = [cells EXCEPT ![i] = [k \in Kinds |-> None]]
      BY <2>2 DEF MakeInner
    <3>2. [k \in Kinds |-> None] \in [Kinds -> Cell \cup {None}]
      OBVIOUS
    <3>3. cells' \in [Inners -> [Kinds -> Cell \cup {None}]]
      BY <3>1, <3>2 DEF TypeOK
    <3>4. \A j \in Inners, k \in Kinds :
             cells'[j][k] # None => cells'[j][k] = cells[j][k]
      BY <3>1 DEF TypeOK
    <3>5. QED
      BY <2>2, <3>3, <3>4 DEF MakeInner
  <2>3. QED
    BY <2>1, <2>2
<1>3. /\ outer' \in Inners \cup {None} /\ idle' \in Nat
      /\ ref' \in [Workers -> Inners]
  BY EscalationAssumption DEF TypeOK, InnerHit, InnerMiss, MakeInner, LookupHit
<1>4. TypeOK'
  BY <1>1, <1>2, <1>3 DEF TypeOK
<1>5. Bounded'
  BY <1>1, <1>2 DEF TypeOK, Bounded
<1>6. NeverHarsherThanEarned'
  BY <1>1, <1>2 DEF TypeOK, NeverHarsherThanEarned
<1>7. QED
  BY <1>4, <1>5, <1>6

\* Storing a 0 raises no level.
LEMMA PushSetKeeps ==
    ASSUME Inv, NEW w \in Workers, PushSet(w)
    PROVE  Inv'
<1> USE DEF Inv
<1>1. /\ pc[w] = "set" /\ pc' \in [Workers -> PCs] /\ pc'[w] = "ttl"
      /\ \A v \in Workers : v # w => pc'[v] = pc[v]
  BY GotoKeeps DEF PushSet, PCs
<1> DEFINE c == Written(CellOf(w), 0)
<1>2. c \in Cell /\ c.val = 0
  BY CellType, WrittenType
<1>3. /\ cells' \in [Inners -> [Kinds -> Cell \cup {None}]]
      /\ \A i \in Inners, k \in Kinds :
            cells'[i][k] = IF i = ref[w] /\ k = kind[w] THEN c ELSE cells[i][k]
  <2>1. SetCell(w, c)
    BY DEF PushSet
  <2> HIDE DEF c
  <2>2. QED
    BY <1>2, <2>1, SetCellKeeps
<1> HIDE DEF c
<1>4. TypeOK'
  BY <1>1, <1>3 DEF TypeOK, PushSet
<1>5. Bounded'
  <2>1. offences' = offences /\ offences \in [Kinds -> Nat]
    BY DEF TypeOK, PushSet
  <2>2. ASSUME NEW i \in Inners, NEW k \in Kinds, cells'[i][k] # None
        PROVE  cells'[i][k].val <= offences'[k]
    <3>1. CASE i = ref[w] /\ k = kind[w]
      BY <3>1, <2>1, <1>2, <1>3
    <3>2. CASE ~ (i = ref[w] /\ k = kind[w])
      BY <3>2, <2>1, <2>2, <1>3 DEF Bounded
    <3>3. QED
      BY <3>1, <3>2
  <2>3. QED
    BY <1>1, <2>1, <2>2 DEF Bounded, PushSet
<1>6. NeverHarsherThanEarned'
  BY <1>1 DEF TypeOK, NeverHarsherThanEarned, PushSet
<1>7. QED
  BY <1>4, <1>5, <1>6

\* Giving an entry a deadline leaves its level alone.
LEMMA PushTTLKeeps ==
    ASSUME Inv, NEW w \in Workers, PushTTL(w)
    PROVE  Inv'
<1> USE DEF Inv
<1>1. /\ pc[w] = "ttl" /\ pc' \in [Workers -> PCs] /\ pc'[w] = "update"
      /\ \A v \in Workers : v # w => pc'[v] = pc[v]
  BY GotoKeeps DEF PushTTL, PCs
<1> DEFINE ttl == DurationReset[TTLSettings(kind[w])]
           c == IF ttl > 0 /\ CellOf(w) # None
                THEN [val |-> CellOf(w).val, ttl |-> ttl, age |-> CellOf(w).age]
                ELSE CellOf(w)
<1>2. ttl \in Nat
  BY EscalationAssumption DEF TTLSettings
<1>3. c \in Cell \cup {None} /\ (c # None => c.val = CellOf(w).val /\ CellOf(w) # None)
  <2> HIDE DEF ttl
  <2>1. QED
    BY <1>2, CellType DEF Cell
<1>4. /\ cells' \in [Inners -> [Kinds -> Cell \cup {None}]]
      /\ \A i \in Inners, k \in Kinds :
            cells'[i][k] = IF i = ref[w] /\ k = kind[w] THEN c ELSE cells[i][k]
  <2>1. CASE ttl > 0 /\ CellOf(w) # None
    <3>1. SetCell(w, c)
      BY <2>1 DEF PushTTL
    <3> HIDE DEF c
    <3>2. QED
      BY <1>3, <3>1, SetCellKeeps
  <2>2. CASE ~ (ttl > 0 /\ CellOf(w) # None)
    <3>1. cells' = cells /\ c = cells[ref[w]][kind[w]]
      BY <2>2 DEF PushTTL, CellOf
    <3> HIDE DEF c
    <3>2. QED
      BY <3>1 DEF TypeOK
  <2>3. QED
    BY <2>1, <2>2
<1> HIDE DEF c
<1>5. TypeOK'
  BY <1>1, <1>4 DEF TypeOK, PushTTL
<1>6. Bounded'
  BY <1>1, <1>3, <1>4 DEF TypeOK, Bounded, PushTTL, CellOf
<1>7. NeverHarsherThanEarned'
  BY <1>1 DEF TypeOK, NeverHarsherThanEarned, PushTTL
<1>8. QED
  BY <1>5, <1>6, <1>7

\* The read half of Update takes the stored level.
LEMMA UpdateReadKeeps ==
    ASSUME Inv, NEW w \in Workers, UpdateRead(w)
    PROVE  Inv'
<1> USE DEF Inv
<1>1. /\ pc[w] = "load" /\ pc' \in [Workers -> PCs] /\ pc'[w] = "store"
      /\ \A v \in Workers : v # w => pc'[v] = pc[v]
  BY GotoKeeps DEF UpdateRead, PCs
<1>2. CellOf(w) # None => CellOf(w).val \in Nat /\ CellOf(w).val <= offences[kind[w]]
  BY CellType DEF TypeOK, Bounded, CellOf, Cell
<1>3. /\ current' \in [Workers -> Nat \cup {None}]
      /\ current'[w] # None => current'[w] <= offences[kind[w]]
      /\ \A v \in Workers : v # w => current'[v] = current[v]
  BY <1>2 DEF TypeOK, UpdateRead
<1>4. TypeOK'
  BY <1>1, <1>3 DEF TypeOK, UpdateRead
<1>5. Bounded'
  BY <1>1, <1>3 DEF TypeOK, Bounded, UpdateRead
<1>6. NeverHarsherThanEarned'
  BY <1>1 DEF TypeOK, NeverHarsherThanEarned, UpdateRead
<1>7. QED
  BY <1>4, <1>5, <1>6

\* The one step that raises a value raises the number of punishments too.
LEMMA UpdateWriteKeeps ==
    ASSUME Inv, NEW w \in Workers, UpdateWrite(w)
    PROVE  Inv'
<1> USE DEF Inv
<1>1. /\ pc[w] = "store" /\ pc' \in [Workers -> PCs] /\ pc'[w] = "idle"
      /\ \A v \in Workers : v # w => pc'[v] = pc[v]
  BY GotoKeeps DEF UpdateWrite, PCs
<1> DEFINE v == IF current[w] = None THEN 1 ELSE current[w] + 1
           c == Written(CellOf(w), v)
<1>2. v \in Nat /\ v <= offences[kind[w]] + 1
  BY <1>1 DEF TypeOK, Bounded
<1>3. c \in Cell /\ c.val = v
  <2> HIDE DEF v
  <2>1. QED
    BY <1>2, CellType, WrittenType
<1>4. /\ cells' \in [Inners -> [Kinds -> Cell \cup {None}]]
      /\ \A i \in Inners, k \in Kinds :
            cells'[i][k] = IF i = ref[w] /\ k = kind[w] THEN c ELSE cells[i][k]
  <2>1. SetCell(w, c)
    BY DEF UpdateWrite
  <2> HIDE DEF c
  <2>2. QED
    BY <1>3, <2>1, SetCellKeeps
<1>5. /\ offences' \in [Kinds -> Nat]
      /\ offences'[kind[w]] = offences[kind[w]] + 1
      /\ \A k \in Kinds : offences[k] <= offences'[k]
  BY DEF TypeOK, UpdateWrite
<1> HIDE DEF c, v
<1>6. TypeOK'
  BY <1>1, <1>4, <1>5 DEF TypeOK, UpdateWrite
<1>7. Bounded'
  <2>1. ASSUME NEW i \in Inners, NEW k \in Kinds, cells'[i][k] # None
        PROVE  cells'[i][k].val <= offences'[k]
    <3>1. CASE i = ref[w] /\ k = kind[w]
      BY <3>1, <1>2, <1>3, <1>4, <1>5
    <3>2. CASE ~ (i = ref[w] /\ k = kind[w])
      <4>1. /\ cells'[i][k] = cells[i][k]
            /\ cells[i][k].val <= offences[k]
        BY <3>2, <2>1, <1>4 DEF Bounded
      <4>2. cells[i][k].val \in Nat /\ offences[k] \in Nat /\ offences'[k] \in Nat
        BY <4>1, <2>1, <1>5 DEF TypeOK, Cell
      <4>3. QED
        BY <4>1, <4>2, <1>5
    <3>3. QED
      BY <3>1, <3>2
  <2>2. ASSUME NEW u \in Workers, pc'[u] = "store", current'[u] # None
        PROVE  current'[u] <= offences'[kind'[u]]
    <3>1. /\ pc[u] = "store" /\ current'[u] = current[u] /\ kind'[u] = kind[u]
      BY <1>1, <2>2 DEF UpdateWrite
    <3>2. /\ current[u] \in Nat /\ kind[u] \in Kinds
          /\ current[u] <= offences[kind[u]]
      BY <2>2, <3>1 DEF TypeOK, Bounded
    <3>3. offences[kind[u]] \in Nat /\ offences'[kind[u]] \in Nat
      BY <3>2, <1>5 DEF TypeOK
    <3>4. QED
      BY <3>1, <3>2, <3>3, <1>5
  <2>3. QED
    BY <2>1, <2>2 DEF Bounded
<1>8. NeverHarsherThanEarned'
  <2>1. ASSUME NEW u \in Workers, pc'[u] \notin {"idle", "read"}
        PROVE  count'[u] <= offences'[kind'[u]]
    <3>1. /\ pc[u] \notin {"idle", "read"}
          /\ count'[u] = count[u] /\ kind'[u] = kind[u]
      BY <1>1, <2>1 DEF UpdateWrite
    <3>2. count[u] \in Nat /\ kind[u] \in Kinds /\ count[u] <= offences[kind[u]]
      BY <3>1 DEF TypeOK, NeverHarsherThanEarned
    <3>3. offences[kind[u]] \in Nat /\ offences'[kind[u]] \in Nat
      BY <3>2, <1>5 DEF TypeOK
    <3>4. QED
      BY <3>1, <3>2, <3>3, <1>5
  <2>2. QED
    BY <2>1 DEF NeverHarsherThanEarned
<1>9. QED
  BY <1>6, <1>7, <1>8

\* Time forgets entries and stores; it raises no level.
LEMMA TickKeeps ==
    ASSUME Inv, Tick
    PROVE  Inv'
<1> USE DEF Inv
<1>1. \A i \in Inners, k \in Kinds :
         /\ cells'[i][k] = Aged(cells[i][k])
         /\ cells[i][k] \in Cell \cup {None}
  BY DEF Tick, TypeOK
<1>2. \A i \in Inners, k \in Kinds :
         /\ cells'[i][k] \in Cell \cup {None}
         /\ cells'[i][k] # None => cells[i][k] # None /\ cells'[i][k].val = cells[i][k].val
  BY <1>1, AgedType
<1>3. cells' \in [Inners -> [Kinds -> Cell \cup {None}]]
  BY <1>2 DEF Tick
<1>4. outer' \in Inners \cup {None} /\ idle' \in Nat
  BY DEF Tick, TypeOK
<1>5. TypeOK'
  BY <1>3, <1>4 DEF TypeOK, Tick
<1>6. Bounded'
  BY <1>2 DEF Bounded, Tick
<1>7. NeverHarsherThanEarned'
  BY DEF NeverHarsherThanEarned, Tick
<1>8. QED
  BY <1>5, <1>6, <1>7

\* Every step keeps the invariant.
LEMMA NextInv == Inv /\ [Next]_vars => Inv'
<1> SUFFICES ASSUME Inv, [Next]_vars PROVE Inv'
  OBVIOUS
<1>1. ASSUME NEW w \in Workers, NEW k \in Kinds, GetHit(w, k) \/ GetMiss(w, k)
      PROVE  Inv'
  BY <1>1, GetHitKeeps, GetMissKeeps
<1>2. ASSUME NEW w \in Workers, Read(w)
      PROVE  Inv'
  BY <1>2, ReadKeeps
<1>3. ASSUME NEW w \in Workers, Push(w)
      PROVE  Inv'
  <2>1. CASE \/ InnerHit(w, "push", "set") \/ InnerMiss(w, "push", "make for push")
             \/ \E i \in Inners : MakeInner(w, i, "make for push", "set")
    <3>1. /\ {"push", "make for push"} \subseteq PCs \ {"idle", "read"}
          /\ {"set", "make for push"} \subseteq PCs \ {"store"}
      BY DEF PCs
    <3>2. QED
      BY <2>1, <3>1, InnerKeeps
  <2>2. CASE PushSet(w) \/ PushTTL(w)
    BY <2>2, PushSetKeeps, PushTTLKeeps
  <2>3. QED
    BY <1>3, <2>1, <2>2 DEF Push
<1>4. ASSUME NEW w \in Workers, Update(w)
      PROVE  Inv'
  <2>1. CASE \/ InnerHit(w, "update", "load") \/ InnerMiss(w, "update", "make for update")
             \/ \E i \in Inners : MakeInner(w, i, "make for update", "load")
    <3>1. /\ {"update", "make for update"} \subseteq PCs \ {"idle", "read"}
          /\ {"load", "make for update"} \subseteq PCs \ {"store"}
      BY DEF PCs
    <3>2. QED
      BY <2>1, <3>1, InnerKeeps
  <2>2. CASE UpdateRead(w) \/ UpdateWrite(w)
    BY <2>2, UpdateReadKeeps, UpdateWriteKeeps
  <2>3. QED
    BY <1>4, <2>1, <2>2 DEF Update
<1>5. CASE Tick
  BY <1>5, TickKeeps
<1>6. CASE UNCHANGED vars
  BY <1>6 DEF Inv, TypeOK, Bounded, NeverHarsherThanEarned, vars
<1>7. QED
  BY <1>1, <1>2, <1>3, <1>4, <1>5, <1>6 DEF Next

\* Type correctness, for every number of workers, counters and caches.
THEOREM TypeCorrect == Spec => []TypeOK
<1>1. Inv => TypeOK
  BY DEF Inv
<1>2. QED
  BY <1>1, InitInv, NextInv, PTL DEF Spec

\* Nobody is ever punished harder than earned, whatever updates are lost,
\* inner caches are replaced and counters are forgotten on the way.
THEOREM NeverHarsher == Spec => []NeverHarsherThanEarned
<1>1. Inv => NeverHarsherThanEarned
  BY DEF Inv
<1>2. QED
  BY <1>1, InitInv, NextInv, PTL DEF Spec

-----------------------------------------------------------------------------
(***************************************************************************)
(* A counter only falls by being forgotten, as long as messages of one     *)
(* user do not overlap.                                                    *)
(***************************************************************************)

Alone == \A v, w \in Workers : pc[v] # "idle" /\ pc[w] # "idle" => v = w

\* What a worker has seen is still so, but for what time has made be forgotten.
SeenStillHolds(w) ==
    /\ pc[w] = "read" => outer \in {None, ref[w]}
    /\ pc[w] = "push" => outer = None \/ cells[outer][kind[w]] = None
    /\ pc[w] = "set" => CellOf(w) = None
    /\ pc[w] = "store" => CellOf(w) = None \/ current[w] = CellOf(w).val

CalmInv == ~ crowded => Alone /\ \A w \in Workers : SeenStillHolds(w)

LevelKept ==
    \A k \in Kinds : Level(k)' < Level(k) => outer' = None \/ cells'[outer'][k] = None

\* With one worker busy nobody else moves.
LEMMA OneMoves ==
    ASSUME TypeOK, Alone, NEW w \in Workers, NEW from \in PCs \ {"idle"}, NEW to \in PCs,
           Goto(w, from, to)
    PROVE  /\ pc[w] = from /\ pc'[w] = to /\ Alone'
           /\ \A v \in Workers : v # w => pc'[v] = "idle"
<1>1. /\ pc' \in [Workers -> PCs] /\ pc[w] = from /\ pc'[w] = to
      /\ \A v \in Workers : v # w => pc'[v] = pc[v]
  BY GotoKeeps
<1>2. \A v \in Workers : v # w => pc[v] = "idle"
  BY <1>1 DEF Alone
<1>3. QED
  BY <1>1, <1>2 DEF Alone

\* Then all that is to be seen of the new state is what that worker sees.
LEMMA OneSees ==
    ASSUME NEW w \in Workers, Alone', SeenStillHolds(w)',
           \A v \in Workers : v # w => pc'[v] = "idle"
    PROVE  CalmInv'
<1>1. \A v \in Workers : SeenStillHolds(v)'
  BY DEF SeenStillHolds
<1>2. QED
  BY <1>1 DEF CalmInv

\* Without a write every level is as it was.
LEMMA LevelSame ==
    ASSUME Inv, outer' = outer, cells' = cells
    PROVE  LevelKept
<1>1. \A c \in Kinds : Level(c)' = Level(c) /\ (Level(c) = 0 \/ Level(c) \in Nat)
  BY DEF Level, Inv, TypeOK, Cell
<1>2. QED
  BY <1>1 DEF LevelKept

\* A message begins: alone, or the time of overlaps begins with it.
LEMMA GetCalm ==
    ASSUME Inv, CalmInv, NEW w \in Workers, NEW k \in Kinds, GetHit(w, k) \/ GetMiss(w, k)
    PROVE  CalmInv' /\ LevelKept
<1>1. outer' = outer /\ cells' = cells
  BY DEF GetHit, GetMiss, LookupHit
<1>2. LevelKept
  BY <1>1, LevelSame
<1>3. ASSUME ~ crowded'
      PROVE  CalmInv'
  <2>1. ~ crowded /\ Others(w) = {}
    BY <1>3, Zenon DEF GetHit, GetMiss
  <2>2. /\ pc' \in [Workers -> PCs] /\ pc[w] = "idle" /\ pc'[w] \in {"read", "push"}
        /\ \A v \in Workers : v # w => pc'[v] = pc[v]
    BY GotoKeeps DEF GetHit, GetMiss, PCs, Inv
  <2>3. \A v \in Workers : v # w => pc'[v] = "idle"
    BY <2>1, <2>2 DEF Others
  <2>4. Alone'
    BY <2>3 DEF Alone
  <2>5. SeenStillHolds(w)'
    <3>1. CASE GetHit(w, k)
      BY <2>2, <3>1 DEF GetHit, Goto, LookupHit, SeenStillHolds, Inv, TypeOK
    <3>2. CASE GetMiss(w, k)
      BY <2>2, <3>2 DEF GetMiss, Goto, SeenStillHolds, Inv, TypeOK
    <3>3. QED
      BY <3>1, <3>2
  <2>6. QED
    BY <2>3, <2>4, <2>5, OneSees
<1>4. ASSUME crowded'
      PROVE  CalmInv'
  BY <1>4, Zenon DEF CalmInv
<1>5. QED
  BY <1>2, <1>3, <1>4

\* The steps of a message under way, when no other is.
CalmStep(w) == Read(w) \/ Push(w) \/ Update(w)

\* A lone check reads the user's cell.
LEMMA ReadCalm ==
    ASSUME Inv, Alone, NEW w \in Workers, SeenStillHolds(w), Read(w)
    PROVE  CalmInv' /\ LevelKept
<1>1. /\ UNCHANGED <<outer, cells, kind, ref>> /\ CellOf(w)' = CellOf(w)
  BY DEF Read, CellOf
<1>2. /\ pc[w] = "read" /\ Alone' /\ \A v \in Workers : v # w => pc'[v] = "idle"
      /\ pc'[w] = IF CellOf(w) = None THEN "push" ELSE "update"
  BY OneMoves DEF Read, PCs, Inv
<1>3. SeenStillHolds(w)'
  BY <1>1, <1>2 DEF SeenStillHolds, CellOf
<1>4. CalmInv'
  BY <1>2, <1>3, OneSees
<1>5. LevelKept
  BY <1>1, LevelSame
<1>6. QED
  BY <1>4, <1>5

\* It makes the user's cache anew, when there is none.
LEMMA InnerCalm ==
    ASSUME Inv, Alone, NEW w \in Workers, SeenStillHolds(w),
           \/ /\ \/ InnerHit(w, "push", "set") \/ InnerMiss(w, "push", "make for push")
                 \/ \E i \in Inners : MakeInner(w, i, "make for push", "set")
           \/ /\ \/ InnerHit(w, "update", "load") \/ InnerMiss(w, "update", "make for update")
                 \/ \E i \in Inners : MakeInner(w, i, "make for update", "load")
    PROVE  CalmInv' /\ LevelKept
<1>0. {"push", "set", "make for push", "update", "load", "make for update"} \subseteq PCs
  BY DEF PCs
<1>1. /\ Alone' /\ \A v \in Workers : v # w => pc'[v] = "idle"
      /\ pc'[w] \in {"set", "load", "make for push", "make for update"}
      /\ pc[w] = "push" \/ pc[w] = "update" \/ pc[w] = "make for push" \/ pc[w] = "make for update"
      /\ InnerHit(w, "push", "set") => pc[w] = "push"
      /\ pc'[w] = "set" => pc[w] \in {"push", "make for push"}
  <2>1. PICK from \in {"push", "make for push", "update", "make for update"},
             to \in {"set", "load", "make for push", "make for update"} :
          /\ Goto(w, from, to)
          /\ to = "set" => from \in {"push", "make for push"}
    BY DEF InnerHit, InnerMiss, MakeInner
  <2>2. from \in PCs \ {"idle"} /\ to \in PCs
    BY <1>0, <2>1
  <2>3. QED
    BY <2>1, <2>2, OneMoves DEF Inv, InnerHit, Goto
<1>2. CASE UNCHANGED <<cells, kind, outer>>
  <2>1. pc'[w] = "set" => CellOf(w)' = None
    <3>1. SUFFICES ASSUME pc'[w] = "set" PROVE CellOf(w)' = None
      OBVIOUS
    <3>2. outer # None /\ ref'[w] = outer /\ pc[w] = "push"
      BY <1>1, <1>2, <3>1 DEF InnerHit, InnerMiss, MakeInner, LookupHit, Goto, Inv, TypeOK, Fresh
    <3>3. QED
      BY <1>2, <3>2 DEF CellOf, SeenStillHolds
  <2>2. SeenStillHolds(w)'
    BY <1>1, <2>1 DEF SeenStillHolds
  <2>3. LevelKept
    BY <1>2, LevelSame
  <2>4. QED
    BY <1>1, <2>2, <2>3, OneSees
<1>3. ASSUME NEW i \in Inners, outer' = i, ref' = [ref EXCEPT ![w] = i], kind' = kind,
             cells' = [cells EXCEPT ![i] = [k \in Kinds |-> None]]
      PROVE  CalmInv' /\ LevelKept
  <2>1. \A k \in Kinds : cells'[i][k] = None
    BY <1>3 DEF Inv, TypeOK
  <2>2. ref'[w] = i /\ kind'[w] \in Kinds
    BY <1>3 DEF Inv, TypeOK
  <2>3. SeenStillHolds(w)'
    BY <1>1, <2>1, <2>2 DEF SeenStillHolds, CellOf
  <2>4. LevelKept
    BY <1>3, <2>1 DEF LevelKept
  <2>5. QED
    BY <1>1, <2>3, <2>4, OneSees
<1>4. QED
  BY <1>2, <1>3 DEF InnerHit, InnerMiss, MakeInner, LookupHit

\* A value that is not lower in the cell a worker writes lowers no level.
LEMMA WriteCalm ==
    ASSUME Inv, NEW w \in Workers, NEW c \in Cell, SetCell(w, c), outer' = outer,
           CellOf(w) # None => CellOf(w).val <= c.val
    PROVE  LevelKept
<1>1. \A i \in Inners, k \in Kinds :
         cells'[i][k] = IF i = ref[w] /\ k = kind[w] THEN c ELSE cells[i][k]
  BY SetCellKeeps DEF Inv
<1>2. \A i \in Inners, k \in Kinds : cells[i][k] # None => cells[i][k].val \in Nat
  BY DEF Inv, TypeOK, Cell
<1>3. c.val \in Nat /\ outer \in Inners \cup {None}
  BY DEF Cell, Inv, TypeOK
<1> SUFFICES ASSUME NEW k \in Kinds, outer # None, cells'[outer][k] # None
             PROVE  ~ (Level(k)' < Level(k))
  BY DEF LevelKept
<1>4. CASE outer = ref[w] /\ k = kind[w]
  <2>1. Level(k)' = c.val
    BY <1>1, <1>3, <1>4 DEF Level
  <2>2. Level(k) = IF CellOf(w) = None THEN 0 ELSE CellOf(w).val
    BY <1>4 DEF Level, CellOf
  <2>3. CellOf(w) # None => CellOf(w).val \in Nat
    BY <1>2, <1>3, <1>4 DEF CellOf
  <2>4. QED
    BY <1>3, <2>1, <2>2, <2>3
<1>5. CASE ~ (outer = ref[w] /\ k = kind[w])
  <2>1. Level(k)' = Level(k) /\ (Level(k) = 0 \/ Level(k) \in Nat)
    BY <1>1, <1>2, <1>3, <1>5 DEF Level
  <2>2. QED
    BY <2>1
<1>6. QED
  BY <1>4, <1>5

\* It pushes a first level, where there was none.
LEMMA PushSetCalm ==
    ASSUME Inv, Alone, NEW w \in Workers, SeenStillHolds(w), PushSet(w)
    PROVE  CalmInv' /\ LevelKept
<1>1. /\ pc[w] = "set" /\ pc'[w] = "ttl" /\ Alone' /\ \A v \in Workers : v # w => pc'[v] = "idle"
  BY OneMoves DEF PushSet, PCs, Inv
<1>2. CellOf(w) = None
  BY <1>1 DEF SeenStillHolds
<1>3. Written(CellOf(w), 0) \in Cell
  BY CellType, WrittenType DEF Inv
<1>4. LevelKept
  BY <1>2, <1>3, WriteCalm DEF PushSet
<1>5. SeenStillHolds(w)'
  BY <1>1 DEF SeenStillHolds
<1>6. QED
  BY <1>1, <1>4, <1>5, OneSees

\* The time to live changes no level.
LEMMA PushTTLCalm ==
    ASSUME Inv, Alone, NEW w \in Workers, SeenStillHolds(w), PushTTL(w)
    PROVE  CalmInv' /\ LevelKept
<1>1. /\ pc[w] = "ttl" /\ pc'[w] = "update" /\ Alone' /\ \A v \in Workers : v # w => pc'[v] = "idle"
  BY OneMoves DEF PushTTL, PCs, Inv
<1>2. outer' = outer
  BY DEF PushTTL
<1>3. ASSUME cells' = cells
      PROVE  LevelKept
  BY <1>2, <1>3, LevelSame
<1>4. ASSUME cells' # cells
      PROVE  LevelKept
  <2> DEFINE ttl == DurationReset[TTLSettings(kind[w])]
             c   == [val |-> CellOf(w).val, ttl |-> ttl, age |-> CellOf(w).age]
  <2>1. ttl > 0 /\ CellOf(w) # None /\ SetCell(w, c)
    BY <1>4 DEF PushTTL
  <2>2. ttl \in Nat
    BY EscalationAssumption DEF TTLSettings
  <2> HIDE DEF ttl
  <2>3. CellOf(w) \in Cell
    BY <2>1, CellType DEF Inv
  <2>4. c \in Cell /\ CellOf(w).val <= c.val
    BY <2>1, <2>2, <2>3 DEF Cell
  <2> HIDE DEF c
  <2>5. QED
    BY <1>2, <2>1, <2>4, WriteCalm
<1>5. SeenStillHolds(w)'
  BY <1>1 DEF SeenStillHolds
<1>6. QED
  BY <1>1, <1>3, <1>4, <1>5, OneSees

\* It reads the level it is about to raise.
LEMMA UpdateReadCalm ==
    ASSUME Inv, Alone, NEW w \in Workers, SeenStillHolds(w), UpdateRead(w)
    PROVE  CalmInv' /\ LevelKept
<1>1. /\ pc[w] = "load" /\ pc'[w] = "store" /\ Alone' /\ \A v \in Workers : v # w => pc'[v] = "idle"
  BY OneMoves DEF UpdateRead, PCs, Inv
<1>2. /\ outer' = outer /\ cells' = cells /\ CellOf(w)' = CellOf(w)
      /\ current'[w] = IF CellOf(w) = None THEN None ELSE CellOf(w).val
  BY DEF UpdateRead, CellOf, Inv, TypeOK
<1>3. SeenStillHolds(w)'
  BY <1>1, <1>2 DEF SeenStillHolds
<1>4. LevelKept
  BY <1>2, LevelSame
<1>5. QED
  BY <1>1, <1>3, <1>4, OneSees

\* It writes back that level, and one more.
LEMMA UpdateWriteCalm ==
    ASSUME Inv, Alone, NEW w \in Workers, SeenStillHolds(w), UpdateWrite(w)
    PROVE  CalmInv' /\ LevelKept
<1>1. /\ pc[w] = "store" /\ pc'[w] = "idle" /\ Alone' /\ \A v \in Workers : v # w => pc'[v] = "idle"
  BY OneMoves DEF UpdateWrite, PCs, Inv
<1> DEFINE v == IF current[w] = None THEN 1 ELSE current[w] + 1
           c == Written(CellOf(w), v)
<1>2. /\ v \in Nat
      /\ CellOf(w) # None => CellOf(w).val \in Nat /\ CellOf(w).val <= v
  <2>1. CellOf(w) # None => CellOf(w).val \in Nat
    BY CellType DEF Cell, Inv
  <2>2. current[w] \in Nat \cup {None}
    BY DEF Inv, TypeOK
  <2>3. CellOf(w) # None => current[w] = CellOf(w).val
    BY <1>1 DEF SeenStillHolds
  <2>4. QED
    BY <2>1, <2>2, <2>3, EscalationAssumption
<1> HIDE DEF v
<1>3. c \in Cell /\ c.val = v
  BY <1>2, CellType, WrittenType DEF Inv
<1>4. SetCell(w, c) /\ outer' = outer
  BY DEF UpdateWrite, v
<1> HIDE DEF c
<1>5. LevelKept
  BY <1>2, <1>3, <1>4, WriteCalm
<1>6. SeenStillHolds(w)'
  BY <1>1 DEF SeenStillHolds
<1>7. QED
  BY <1>1, <1>5, <1>6, OneSees

\* Time only forgets.
LEMMA TickCalm ==
    ASSUME Inv, CalmInv, Tick
    PROVE  CalmInv' /\ LevelKept
<1>1. \A i \in Inners, k \in Kinds :
         cells'[i][k] # None => cells[i][k] # None /\ cells'[i][k].val = cells[i][k].val
  <2>1. \A i \in Inners, k \in Kinds :
           cells'[i][k] = Aged(cells[i][k]) /\ cells[i][k] \in Cell \cup {None}
    BY DEF Tick, Inv, TypeOK
  <2>2. QED
    BY <2>1, AgedType
<1>2. outer' \in {None, outer} /\ UNCHANGED <<pc, kind, ref, current, crowded>>
  BY DEF Tick
<1>3. outer \in Inners \cup {None} /\ ref \in [Workers -> Inners] /\ kind \in [Workers -> Kinds]
  BY DEF Inv, TypeOK
<1>4. LevelKept
  <2>1. ASSUME NEW k \in Kinds, outer' # None, cells'[outer'][k] # None
        PROVE  ~ (Level(k)' < Level(k))
    <3>1. outer' = outer /\ Level(k)' = Level(k) /\ Level(k) \in Nat
      BY <1>1, <1>2, <1>3, <2>1 DEF Level, Inv, TypeOK, Cell
    <3>2. QED
      BY <3>1
  <2>2. QED
    BY <2>1 DEF LevelKept
<1>5. ASSUME NEW w \in Workers, SeenStillHolds(w)
      PROVE  SeenStillHolds(w)'
  BY <1>1, <1>2, <1>3, <1>5 DEF SeenStillHolds, CellOf
<1>6. Alone => Alone'
  BY <1>2 DEF Alone
<1>7. CalmInv'
  BY <1>2, <1>5, <1>6, Zenon DEF CalmInv
<1>8. QED
  BY <1>4, <1>7

\* Overlaps end only when the last worker is done.
LEMMA CrowdedEnds ==
    ASSUME Inv, NEW w \in Workers, CalmStep(w), crowded
    PROVE  CalmInv'
<1>1. CASE UpdateWrite(w)
  <2>1. SUFFICES ASSUME ~ crowded' PROVE CalmInv'
    BY Zenon DEF CalmInv
  <2>2. Others(w) = {}
    BY <1>1, <2>1, Zenon DEF UpdateWrite
  <2>3. /\ pc' \in [Workers -> PCs] /\ pc'[w] = "idle"
        /\ \A v \in Workers : v # w => pc'[v] = pc[v]
    BY <1>1, GotoKeeps DEF UpdateWrite, PCs, Inv
  <2>4. \A v \in Workers : pc'[v] = "idle"
    BY <2>2, <2>3 DEF Others
  <2>5. QED
    BY <2>4 DEF CalmInv, Alone, SeenStillHolds
<1>2. CASE crowded' = crowded
  BY <1>2, Zenon DEF CalmInv
<1>3. QED
  BY <1>1, <1>2
  DEF CalmStep, Read, Push, Update, InnerHit, InnerMiss, MakeInner, PushSet, PushTTL, UpdateRead

\* As long as one message of the user is handled at a time, no update is lost:
\* what a worker saw in its Get is still so in its Push and its Update, unless
\* time has made it be forgotten, so what it writes is never less.
THEOREM LevelIsOnlyForgotten == Spec => LevelOnlyForgotten
<1>1. Init => CalmInv
  BY DEF Init, CalmInv, Alone, SeenStillHolds
<1>2. ASSUME Inv, CalmInv, [Next]_vars
      PROVE  CalmInv' /\ (~ crowded => LevelKept \/ UNCHANGED vars)
  <2>1. ASSUME NEW w \in Workers, NEW k \in Kinds, GetHit(w, k) \/ GetMiss(w, k)
        PROVE  CalmInv' /\ LevelKept
    BY <1>2, <2>1, GetCalm
  <2>2. ASSUME NEW w \in Workers, CalmStep(w), ~ crowded
        PROVE  CalmInv' /\ LevelKept
    <3>1. Alone /\ SeenStillHolds(w)
      BY <1>2, <2>2 DEF CalmInv
    <3>2. QED
      BY <1>2, <2>2, <3>1, ReadCalm, InnerCalm, PushSetCalm, PushTTLCalm, UpdateReadCalm,
         UpdateWriteCalm
         DEF CalmStep, Push, Update
  <2>3. ASSUME NEW w \in Workers, CalmStep(w), crowded
        PROVE  CalmInv'
    BY <1>2, <2>3, CrowdedEnds
  <2>4. CASE Tick
    BY <1>2, <2>4, TickCalm
  <2>5. CASE UNCHANGED vars
    BY <1>2, <2>5 DEF vars, CalmInv, Alone, SeenStillHolds, CellOf
  <2>6. QED
    BY <1>2, <2>1, <2>2, <2>3, <2>4, <2>5 DEF Next, CalmStep
<1>3. Inv /\ CalmInv /\ [Next]_vars =>
        [~ crowded => \A k \in Kinds : Level(k)' < Level(k) =>
            outer' = None \/ cells'[outer'][k] = None]_vars
  BY <1>2 DEF LevelKept
<1>4. QED
  BY <1>1, <1>2, <1>3, InitInv, NextInv, PTL DEF Spec, LevelOnlyForgotten

-----------------------------------------------------------------------------
(* Nuke.                                                                   *)

\* A run that has not been started does nothing, and the current nuke is a
\* run that has.
StartedFirst ==
    /\ nuke # Nil => Started(nuke)
    /\ \A r \in Runs : ~ Started(r) =>
          /\ scan[r].stage = "none"
          /\ \A m \in Msgs : <<r, m>> \notin tasks
          /\ \A m \in Msgs, c \in BOOLEAN : <<r, m, c>> \notin acted

\* What is about to be punished, or has been, is marked as visited.
MarkedFirst ==
    /\ \A r \in Runs : scan[r].stage = "apply" =>
          scan[r].at \in ignored /\ scan[r].at \in scan[r].fresh
    /\ \A r \in Runs, m \in Msgs : <<r, m>> \in tasks => m \in ignored
    /\ \A r \in Runs, m \in Msgs, c \in BOOLEAN : <<r, m, c>> \in acted => m \in ignored

\* Run q is not going to punish message m.
Passes(q, m) ==
    /\ scan[q].stage \in {"none", "begin"} \/ m \notin scan[q].fresh
    /\ <<q, m>> \notin tasks

\* What another run has punished in its time, the current one passes.
PassedByNext ==
    \A r, q \in Runs, m \in Msgs :
        <<r, m, TRUE>> \in acted /\ q = nuke /\ q # r => Passes(q, m)

ByOneRun ==
    \A r, q \in Runs, m \in Msgs :
        <<r, m, TRUE>> \in acted /\ <<q, m, TRUE>> \in acted => r = q

\* A run that is over was ended by a command, which cancels its context, or
\* by a timer.
EndedSomehow ==
    \A r \in Runs :
        Started(r) /\ r # nuke /\ r \notin cancelled => timers[r] = "done" \/ r \in faded

NukeInv ==
    /\ NukeTypeOK /\ StartedFirst /\ MarkedFirst
    /\ PassedByNext /\ ByOneRun /\ EndedSomehow

\* Nothing has been started.
LEMMA NukeInitInv == NukeInit => NukeInv
<1> SUFFICES ASSUME NukeInit PROVE NukeInv
  OBVIOUS
<1>1. (CHOOSE d \in Defs : TRUE) \in Defs
  BY NukeAssumption
<1>2. NoScan \in Scan /\ NoScan.stage = "none"
  BY DEF NoScan, Scan
<1>3. reCommand \in BOOLEAN /\ crashed \in BOOLEAN
  BY DEF NukeInit
<1>4. NukeTypeOK
  BY <1>1, <1>2, <1>3 DEF NukeInit, NukeTypeOK
<1>5. QED
  BY <1>2, <1>4 DEF NukeInit, NukeInv, StartedFirst, MarkedFirst, PassedByNext, ByOneRun,
                    EndedSomehow, Started

\* A timer that is stopped was started, and one that is done is not touched.
LEMMA StoppedTimers ==
    ASSUME NukeTypeOK
    PROVE  /\ Stopped(timers) \in [Runs -> {"none", "running", "stopped", "firing", "done"}]
           /\ \A r \in Runs :
                 /\ Stopped(timers)[r] = "none" <=> timers[r] = "none"
                 /\ timers[r] = "done" => Stopped(timers)[r] = "done"
BY DEF NukeTypeOK, Stopped

\* The scrollback of one run moves on.
LEMMA ScanMoves ==
    ASSUME NukeTypeOK, NEW r \in Runs, NEW s \in Scan,
           scan' = [scan EXCEPT ![r] = s]
    PROVE  /\ scan' \in [Runs -> Scan]
           /\ scan'[r] = s
           /\ \A q \in Runs \ {r} : scan'[q] = scan[q]
BY DEF NukeTypeOK

\* A run is started once: what there is of it begins here.
LEMMA StartKeeps ==
    ASSUME NukeInv, NEW r \in Runs, NEW d \in Defs, StartRun(r, d), reCommand' \in BOOLEAN
    PROVE  NukeInv'
<1>0. NukeTypeOK /\ StartedFirst
  BY DEF NukeInv
<1>1. /\ timers[r] = "none" /\ nuke' = r /\ timer' = r
      /\ def' = [def EXCEPT ![r] = d]
      /\ timers' = [Stopped(timers) EXCEPT ![r] = "running"]
      /\ cancelled' = cancelled \cup ({nuke} \ {Nil})
      /\ UNCHANGED <<oldNuke, ignored, crashed, faded, stopped, tasks, acted>>
  BY DEF StartRun, Started, CancelledByStart, history, effects
<1>2. /\ scan' \in [Runs -> Scan]
      /\ scan'[r].stage = "begin"
      /\ \A q \in Runs \ {r} : scan'[q] = scan[q]
  <2>1. scan[r] \in Scan
    BY <1>0 DEF NukeTypeOK
  <2>2. scan' = [scan EXCEPT ![r] = [scan[r] EXCEPT !.stage = "begin"]]
    BY DEF StartRun
  <2>3. [scan[r] EXCEPT !.stage = "begin"] \in Scan
        /\ [scan[r] EXCEPT !.stage = "begin"].stage = "begin"
    BY <2>1 DEF Scan
  <2>4. QED
    BY <1>0, <2>2, <2>3, ScanMoves
<1>3. /\ timers' \in [Runs -> {"none", "running", "stopped", "firing", "done"}]
      /\ timers'[r] = "running"
      /\ \A q \in Runs \ {r} :
            /\ timers'[q] = "none" <=> timers[q] = "none"
            /\ timers[q] = "done" => timers'[q] = "done"
  <2>1. PICK ts : ts = Stopped(timers)
    OBVIOUS
  <2>2. /\ ts \in [Runs -> {"none", "running", "stopped", "firing", "done"}]
        /\ \A q \in Runs :
              /\ ts[q] = "none" <=> timers[q] = "none"
              /\ timers[q] = "done" => ts[q] = "done"
    BY <1>0, <2>1, StoppedTimers
  <2>3. timers' = [ts EXCEPT ![r] = "running"]
    BY <1>1, <2>1
  <2>4. timers' \in [Runs -> {"none", "running", "stopped", "firing", "done"}]
    BY <2>2, <2>3
  <2>5. timers'[r] = "running" /\ \A q \in Runs \ {r} : timers'[q] = ts[q]
    BY <2>2, <2>3
  <2>6. QED
    BY <2>2, <2>4, <2>5
<1>4. NukeTypeOK'
  <2>1. reCommand' \in BOOLEAN
    OBVIOUS
  <2>2. crashed' \in BOOLEAN
    BY <1>0, <1>1 DEF NukeTypeOK
  <2>3. def' \in [Runs -> Defs]
    BY <1>0, <1>1 DEF NukeTypeOK
  <2>4. {nuke', oldNuke', timer'} \subseteq Runs \cup {Nil} /\ cancelled' \subseteq Runs
    BY <1>0, <1>1 DEF NukeTypeOK
  <2>5. QED
    BY <1>0, <1>1, <1>2, <1>3, <2>1, <2>2, <2>3, <2>4 DEF NukeTypeOK
<1>5. StartedFirst'
  BY <1>0, <1>1, <1>2, <1>3 DEF StartedFirst, Started
<1>6. MarkedFirst'
  BY <1>0, <1>1, <1>2 DEF NukeInv, MarkedFirst
<1>7. PassedByNext'
  BY <1>0, <1>1, <1>2 DEF PassedByNext, Passes, StartedFirst, Started
<1>8. ByOneRun' /\ EndedSomehow'
  BY <1>0, <1>1, <1>3, NukeAssumption DEF NukeInv, ByOneRun, EndedSomehow, Started
<1>9. QED
  BY <1>4, <1>5, <1>6, <1>7, <1>8 DEF NukeInv

\* "nuke re" looks at the old nuke; a command that dereferences nil ends the
\* process.
LEMMA LookKeeps ==
    ASSUME NukeInv, reCommand' \in BOOLEAN, crashed' \in BOOLEAN,
           UNCHANGED <<fields, starts, ignored, scan, history, effects>>
    PROVE  NukeInv'
BY DEF NukeInv, NukeTypeOK, StartedFirst, MarkedFirst, PassedByNext, Passes, ByOneRun,
       EndedSomehow, Started, fields, starts, history, effects

\* "nuke stop" cancels the current run.
LEMMA CancelKeeps ==
    ASSUME NukeInv, Cancel \/ CancelNothing
    PROVE  NukeInv'
<1>0. NukeTypeOK /\ StartedFirst
  BY DEF NukeInv
<1>1. UNCHANGED <<def, reCommand, ignored, scan, crashed, faded, tasks, acted>>
  BY DEF Cancel, CancelNothing, effects, fields, starts
<1>2. stopped' \subseteq Runs
  BY DEF Cancel, CancelNothing
<1>3. CASE Cancel
  <2>1. /\ nuke # Nil /\ timers' = Stopped(timers) /\ timer' = Nil
        /\ cancelled' = cancelled \cup {nuke} /\ oldNuke' = nuke /\ nuke' = Nil
    BY <1>3 DEF Cancel
  <2>2. /\ timers' \in [Runs -> {"none", "running", "stopped", "firing", "done"}]
        /\ \A q \in Runs :
              /\ timers'[q] = "none" <=> timers[q] = "none"
              /\ timers[q] = "done" => timers'[q] = "done"
    BY <1>0, <2>1, StoppedTimers
  <2>3. {nuke', oldNuke', timer'} \subseteq Runs \cup {Nil} /\ cancelled' \subseteq Runs
    BY <1>0, <2>1 DEF NukeTypeOK
  <2>4. NukeTypeOK'
    BY <1>0, <1>1, <1>2, <2>2, <2>3 DEF NukeTypeOK
  <2>5. StartedFirst'
    BY <1>0, <1>1, <2>1, <2>2 DEF StartedFirst, Started
  <2>6. MarkedFirst' /\ ByOneRun'
    BY <1>1 DEF NukeInv, MarkedFirst, ByOneRun
  <2>7. PassedByNext'
    BY <2>1, NukeAssumption DEF PassedByNext
  <2>8. EndedSomehow'
    BY <1>1, <2>1, <2>2 DEF NukeInv, EndedSomehow, Started
  <2>9. QED
    BY <2>4, <2>5, <2>6, <2>7, <2>8 DEF NukeInv
<1>4. CASE CancelNothing
  <2>1. UNCHANGED <<nuke, oldNuke, timer, timers, cancelled>>
    BY <1>4 DEF CancelNothing, fields, starts
  <2>2. QED
    BY <1>1, <1>2, <2>1
       DEF NukeInv, NukeTypeOK, StartedFirst, MarkedFirst, PassedByNext, Passes, ByOneRun,
           EndedSomehow, Started
<1>5. QED
  BY <1>3, <1>4

\* A timer expires; later its callback ends whatever is current.
LEMMA TimerKeeps ==
    ASSUME NukeInv, NEW r \in Runs, Expire(r) \/ Callback(r)
    PROVE  NukeInv'
<1>0. NukeTypeOK /\ StartedFirst
  BY DEF NukeInv
<1>1. UNCHANGED <<def, reCommand, ignored, scan, crashed, cancelled, stopped, tasks, acted>>
  BY DEF Expire, Callback, effects, history
<1>2. /\ timers' \in [Runs -> {"none", "running", "stopped", "firing", "done"}]
      /\ \A q \in Runs :
            /\ timers'[q] = "none" <=> timers[q] = "none"
            /\ timers[q] = "done" => timers'[q] = "done"
  BY <1>0 DEF Expire, Callback, NukeTypeOK
<1>3. MarkedFirst' /\ ByOneRun'
  BY <1>1 DEF NukeInv, MarkedFirst, ByOneRun
<1>4. CASE Expire(r)
  <2>1. UNCHANGED <<nuke, oldNuke, timer, faded>>
    BY <1>4 DEF Expire, fields, history
  <2>2. NukeTypeOK'
    BY <1>0, <1>1, <1>2, <2>1 DEF NukeTypeOK
  <2>3. StartedFirst'
    <3>1. nuke # Nil => nuke \in Runs
      BY <1>0 DEF NukeTypeOK
    <3>2. QED
      BY <1>0, <1>1, <1>2, <2>1, <3>1 DEF StartedFirst, Started
  <2>4. PassedByNext'
    BY <1>1, <2>1 DEF NukeInv, PassedByNext, Passes
  <2>5. EndedSomehow'
    BY <1>1, <1>2, <2>1 DEF NukeInv, EndedSomehow, Started
  <2>6. QED
    BY <1>3, <2>2, <2>3, <2>4, <2>5 DEF NukeInv
<1>5. CASE Callback(r)
  <2>1. /\ oldNuke' = nuke /\ nuke' = Nil /\ timer' = Nil
        /\ faded' = faded \cup ({nuke} \ {r, Nil})
        /\ timers'[r] = "done"
    BY <1>0, <1>5 DEF Callback, NukeTypeOK
  <2>2. NukeTypeOK'
    BY <1>0, <1>1, <1>2, <2>1 DEF NukeTypeOK
  <2>3. StartedFirst'
    BY <1>0, <1>1, <1>2, <2>1 DEF StartedFirst, Started
  <2>4. PassedByNext'
    BY <2>1, NukeAssumption DEF PassedByNext
  <2>5. EndedSomehow'
    <3>1. ASSUME NEW q \in Runs, q = nuke
          PROVE  timers'[q] = "done" \/ q \in faded'
      BY <2>1, <3>1, NukeAssumption
    <3>2. QED
      BY <1>1, <1>2, <2>1, <3>1 DEF NukeInv, EndedSomehow, Started
  <2>6. QED
    BY <1>3, <2>2, <2>3, <2>4, <2>5 DEF NukeInv
<1>6. QED
  BY <1>4, <1>5

\* The scrollback: what it copies is without what has been punished before,
\* and what it goes on to punish is from the copy.
LEMMA ScanKeeps ==
    ASSUME NukeInv, NEW r \in Runs,
           \/ ScanBegin(r) \/ ScanCutOff(r) \/ ScanComplete(r)
           \/ \E m \in Msgs : ScanVisit(r, m)
    PROVE  NukeInv'
<1>0. NukeTypeOK /\ StartedFirst /\ scan[r] \in Scan
  BY DEF NukeInv, NukeTypeOK
<1>1. /\ UNCHANGED <<nuke, oldNuke, timer, def, timers, cancelled, reCommand, crashed>>
      /\ UNCHANGED <<faded, stopped, tasks, acted>>
      /\ scan[r].stage \in {"begin", "loop"}
  BY DEF ScanBegin, ScanCutOff, ScanComplete, ScanVisit, At, fields, starts, history, effects
<1>2. ignored' \subseteq Msgs /\ ignored \subseteq ignored'
  BY <1>0 DEF ScanBegin, ScanCutOff, ScanComplete, ScanVisit, Marked, NukeTypeOK
<1>3. PICK s \in Scan :
         /\ scan' = [scan EXCEPT ![r] = s]
         /\ s.stage # "none"
         /\ s.stage = "apply" => s.at \in ignored' /\ s.at \in s.fresh
         /\ \/ s.fresh = Msgs \ ignored
            \/ scan[r].stage = "loop" /\ s.fresh = scan[r].fresh
  <2>1. CASE ScanBegin(r)
    <3> DEFINE s == [stage |-> "loop", todo |-> Msgs, fresh |-> Msgs \ ignored, at |-> Nil]
    <3>1. s \in Scan /\ s.stage = "loop" /\ s.fresh = Msgs \ ignored
      BY DEF Scan
    <3>2. scan' = [scan EXCEPT ![r] = s]
      BY <2>1 DEF ScanBegin
    <3> HIDE DEF s
    <3>3. QED
      BY <3>1, <3>2
  <2>2. ASSUME NEW stage \in {"cut off", "complete"}, scan[r].stage = "loop",
               scan' = [scan EXCEPT ![r].stage = stage]
        PROVE  \E s \in Scan :
                  /\ scan' = [scan EXCEPT ![r] = s]
                  /\ s.stage = stage /\ s.fresh = scan[r].fresh
    <3> DEFINE s == [scan[r] EXCEPT !.stage = stage]
    <3>1. s \in Scan /\ s.stage = stage /\ s.fresh = scan[r].fresh
      BY <1>0 DEF Scan
    <3>2. scan' = [scan EXCEPT ![r] = s]
      BY <2>2
    <3> HIDE DEF s
    <3>3. QED
      BY <3>1, <3>2
  <2>3. ASSUME NEW m \in Msgs, ScanVisit(r, m)
        PROVE  \E s \in Scan :
                  /\ scan' = [scan EXCEPT ![r] = s]
                  /\ s.stage \in {"loop", "apply"} /\ s.fresh = scan[r].fresh
                  /\ s.stage = "apply" => m \in scan[r].fresh
                  /\ s.at = m /\ m \in ignored'
    <3> DEFINE stage == IF nuke # Nil /\ m \in scan[r].fresh THEN "apply" ELSE "loop"
               s == [scan[r] EXCEPT !.todo = @ \ {m}, !.at = m, !.stage = stage]
    <3>1. scan' = [scan EXCEPT ![r] = s]
      BY <2>3 DEF ScanVisit
    <3>2. /\ stage \in {"loop", "apply"} /\ (stage = "apply" => m \in scan[r].fresh)
          /\ m \in ignored'
      BY <2>3 DEF ScanVisit, Marked
    <3> HIDE DEF stage
    <3>3. s \in Scan /\ s.stage = stage /\ s.fresh = scan[r].fresh /\ s.at = m
      <4>1. stage \in {"none", "begin", "loop", "apply", "cut off", "complete"}
        BY <3>2
      <4>2. QED
        BY <1>0, <4>1 DEF Scan
    <3> HIDE DEF s
    <3>4. QED
      BY <3>1, <3>2, <3>3
  <2>4. CASE ScanCutOff(r) \/ ScanComplete(r)
    <3>1. PICK stage \in {"cut off", "complete"} :
             scan[r].stage = "loop" /\ scan' = [scan EXCEPT ![r].stage = stage]
      BY <2>4 DEF ScanCutOff, ScanComplete, At
    <3>2. QED
      BY <2>2, <3>1
  <2>5. ASSUME NEW m \in Msgs, ScanVisit(r, m) PROVE scan[r].stage = "loop"
    BY <2>5 DEF ScanVisit, At
  <2>6. QED
    BY <2>1, <2>3, <2>4, <2>5
<1>4. /\ scan' \in [Runs -> Scan] /\ scan'[r] = s
      /\ \A q \in Runs \ {r} : scan'[q] = scan[q]
  BY <1>0, <1>3, ScanMoves
<1>5. NukeTypeOK'
  BY <1>0, <1>1, <1>2, <1>4 DEF NukeTypeOK
<1>6. StartedFirst'
  BY <1>0, <1>1, <1>3, <1>4 DEF StartedFirst, Started
<1>7. MarkedFirst'
  BY <1>1, <1>2, <1>3, <1>4 DEF NukeInv, MarkedFirst
<1>8. PassedByNext'
  BY <1>1, <1>3, <1>4 DEF NukeInv, PassedByNext, Passes, MarkedFirst
<1>9. ByOneRun' /\ EndedSomehow'
  BY <1>1 DEF NukeInv, ByOneRun, EndedSomehow, Started
<1>10. QED
  BY <1>5, <1>6, <1>7, <1>8, <1>9 DEF NukeInv

\* A task is submitted for a message the copy did not have as punished.
LEMMA ApplyKeeps ==
    ASSUME NukeInv, NEW r \in Runs, ScanApply(r)
    PROVE  NukeInv'
<1>0. NukeTypeOK /\ StartedFirst /\ scan[r] \in Scan
  BY DEF NukeInv, NukeTypeOK
<1> DEFINE m == scan[r].at
<1>1. /\ UNCHANGED <<nuke, oldNuke, timer, def, timers, cancelled, reCommand, crashed>>
      /\ UNCHANGED <<faded, stopped, ignored, acted>>
      /\ scan[r].stage = "apply" /\ nuke # Nil
      /\ tasks' = tasks \/ (tasks' = tasks \cup {<<r, m>>} /\ m \in Hits[def[nuke]])
  BY DEF ScanApply, At, fields, starts, history
<1>2. m \in ignored /\ m \in scan[r].fresh /\ m \in Msgs
  BY <1>0, <1>1 DEF NukeInv, MarkedFirst, NukeTypeOK
<1>3. /\ scan' \in [Runs -> Scan] /\ scan'[r].stage = "loop"
      /\ scan'[r].fresh = scan[r].fresh
      /\ \A q \in Runs \ {r} : scan'[q] = scan[q]
  <2> DEFINE s == [scan[r] EXCEPT !.stage = "loop"]
  <2>1. s \in Scan /\ s.stage = "loop" /\ s.fresh = scan[r].fresh
    BY <1>0 DEF Scan
  <2>2. scan' = [scan EXCEPT ![r] = s]
    BY DEF ScanApply
  <2> HIDE DEF s
  <2>3. QED
    BY <1>0, <2>1, <2>2, ScanMoves
<1> HIDE DEF m
<1>4. NukeTypeOK'
  BY <1>0, <1>1, <1>2, <1>3 DEF NukeTypeOK
<1>5. StartedFirst'
  BY <1>0, <1>1, <1>3 DEF StartedFirst, Started
<1>6. MarkedFirst'
  BY <1>1, <1>2, <1>3 DEF NukeInv, MarkedFirst
<1>7. PassedByNext'
  <2> SUFFICES ASSUME NEW p \in Runs, NEW q \in Runs, NEW k \in Msgs,
                      <<p, k, TRUE>> \in acted', q = nuke', q # p
               PROVE  Passes(q, k)'
    BY DEF PassedByNext
  <2>1. Passes(q, k)
    BY <1>1 DEF NukeInv, PassedByNext
  <2>2. CASE q = r
    <3>1. k \notin scan[r].fresh /\ k # m
      BY <1>1, <1>2, <2>1, <2>2 DEF Passes
    <3>2. <<q, k>> \notin tasks'
      BY <1>1, <2>1, <3>1 DEF Passes
    <3>3. QED
      BY <1>3, <2>2, <3>1, <3>2 DEF Passes
  <2>3. CASE q # r
    <3>1. <<q, k>> \notin tasks'
      BY <1>1, <2>1, <2>3 DEF Passes
    <3>2. QED
      BY <1>3, <2>1, <2>3, <3>1 DEF Passes
  <2>4. QED
    BY <2>2, <2>3
<1>8. ByOneRun' /\ EndedSomehow'
  BY <1>1 DEF NukeInv, ByOneRun, EndedSomehow, Started
<1>9. QED
  BY <1>4, <1>5, <1>6, <1>7, <1>8 DEF NukeInv

\* A task punishes for a run that is current only what no other such run has.
LEMMA RunTaskKeeps ==
    ASSUME NukeInv, NEW r \in Runs, NEW m \in Msgs, RunTask(r, m)
    PROVE  NukeInv'
<1>0. NukeTypeOK /\ StartedFirst
  BY DEF NukeInv
<1>1. /\ UNCHANGED <<nuke, oldNuke, timer, def, timers, cancelled, reCommand, crashed>>
      /\ UNCHANGED <<faded, stopped, ignored, scan>>
      /\ <<r, m>> \in tasks /\ tasks' = tasks \ {<<r, m>>}
  BY DEF RunTask, fields, starts, history
<1>2. PICK c \in BOOLEAN : /\ c = (r = nuke)
                           /\ acted' \subseteq acted \cup {<<r, m, c>>}
                           /\ acted \subseteq acted'
  BY DEF RunTask
<1>3. m \in ignored /\ Started(r)
  BY <1>0, <1>1 DEF NukeInv, MarkedFirst, StartedFirst
<1>4. NukeTypeOK'
  <2>1. acted' \subseteq Runs \X Msgs \X BOOLEAN
    <3>1. <<r, m, c>> \in Runs \X Msgs \X BOOLEAN
      OBVIOUS
    <3>2. QED
      BY <1>0, <1>2, <3>1 DEF NukeTypeOK
  <2>2. tasks' \subseteq Runs \X Msgs
    BY <1>0, <1>1 DEF NukeTypeOK
  <2>3. QED
    BY <1>0, <1>1, <2>1, <2>2 DEF NukeTypeOK
<1>5. StartedFirst'
  BY <1>0, <1>1, <1>2, <1>3 DEF StartedFirst, Started
<1>6. MarkedFirst'
  BY <1>1, <1>2, <1>3 DEF NukeInv, MarkedFirst
<1>7. ASSUME NEW q \in Runs, NEW k \in Msgs, <<q, k, TRUE>> \in acted'
      PROVE  <<q, k, TRUE>> \in acted \/ (q = r /\ k = m /\ r = nuke)
  BY <1>2, <1>7
<1>8. PassedByNext'
  BY <1>1, <1>7 DEF NukeInv, PassedByNext, Passes
<1>9. ByOneRun'
  BY <1>1, <1>7 DEF NukeInv, ByOneRun, PassedByNext, Passes
<1>10. EndedSomehow'
  BY <1>1 DEF NukeInv, EndedSomehow, Started
<1>11. QED
  BY <1>4, <1>5, <1>6, <1>8, <1>9, <1>10 DEF NukeInv

\* Every step keeps the invariant.
LEMMA NukeNextInv == NukeInv /\ [NukeNext]_nukeVars => NukeInv'
<1> SUFFICES ASSUME NukeInv, [NukeNext]_nukeVars PROVE NukeInv'
  OBVIOUS
<1>0. NukeTypeOK
  BY DEF NukeInv
<1>1. ASSUME NEW r \in Runs, NEW d \in Defs, Start(r, d)
      PROVE  NukeInv'
  BY <1>0, <1>1, StartKeeps DEF Start, NukeTypeOK
<1>2. ASSUME NEW r \in Runs, RestartNuke(r)
      PROVE  NukeInv'
  <2>1. def[oldNuke] \in Defs /\ StartRun(r, def[oldNuke])
    BY <1>0, <1>2 DEF RestartNuke, NukeTypeOK
  <2>2. reCommand' \in BOOLEAN
    BY <1>2 DEF RestartNuke
  <2>3. QED
    BY <2>1, <2>2, StartKeeps
<1>3. ASSUME ReCheck \/ RestartPanics \/ \E r \in Runs : ScanPanics(r)
      PROVE  NukeInv'
  <2>1. UNCHANGED <<fields, starts, ignored, scan, history, effects>>
    BY <1>3 DEF ReCheck, RestartPanics, ScanPanics
  <2>2. reCommand' \in BOOLEAN
    BY <1>0, <1>3 DEF ReCheck, RestartPanics, ScanPanics, NukeTypeOK
  <2>3. crashed' \in BOOLEAN
    BY <1>0, <1>3 DEF ReCheck, RestartPanics, ScanPanics, NukeTypeOK
  <2>4. QED
    BY <2>1, <2>2, <2>3, LookKeeps
<1>4. CASE Cancel \/ CancelNothing
  BY <1>4, CancelKeeps
<1>5. ASSUME NEW r \in Runs, Expire(r) \/ Callback(r)
      PROVE  NukeInv'
  BY <1>5, TimerKeeps
<1>6. ASSUME NEW r \in Runs,
             \/ ScanBegin(r) \/ ScanCutOff(r) \/ ScanComplete(r)
             \/ \E m \in Msgs : ScanVisit(r, m)
      PROVE  NukeInv'
  BY <1>6, ScanKeeps
<1>7. ASSUME NEW r \in Runs, ScanApply(r)
      PROVE  NukeInv'
  BY <1>7, ApplyKeeps
<1>8. ASSUME NEW r \in Runs, NEW m \in Msgs, RunTask(r, m)
      PROVE  NukeInv'
  BY <1>8, RunTaskKeeps
<1>9. CASE UNCHANGED nukeVars
  BY <1>0, <1>9, LookKeeps DEF nukeVars, fields, starts, history, effects, NukeTypeOK
<1>10. QED
  BY <1>1, <1>2, <1>3, <1>4, <1>5, <1>6, <1>7, <1>8, <1>9 DEF NukeNext

\* What is proved of each step, for all behaviours.
LEMMA NukeInvariant == NukeSpec => []NukeInv
  BY NukeInitInv, NukeNextInv, PTL DEF NukeSpec

\* The scrollbacks of the runs that follow one another punish a message once,
\* however many nukes there are, and every variable has its type.
THEOREM AlwaysPunishedOnce == NukeSpec => []PunishedOnce
<1>1. ASSUME NukeInv, NEW m \in Msgs
      PROVE  Cardinality({r \in Runs : <<r, m, TRUE>> \in acted}) <= 1
  <2> DEFINE S == {r \in Runs : <<r, m, TRUE>> \in acted}
  <2>1. \A r, q \in S : r = q
    BY <1>1 DEF NukeInv, ByOneRun
  <2>2. ASSUME S = {}
        PROVE  Cardinality(S) <= 1
    <3>1. Cardinality(S) = 0
      BY <2>2, FS_EmptySet
    <3>2. QED
      BY <3>1
  <2>3. ASSUME NEW r \in S
        PROVE  Cardinality(S) <= 1
    <3>1. S = {r}
      BY <2>1
    <3> HIDE DEF S
    <3>2. Cardinality(S) = 1
      BY <3>1, FS_Singleton
    <3>3. QED
      BY <3>2
  <2>4. QED
    BY <2>2, <2>3
<1>2. NukeInv => PunishedOnce
  BY <1>1 DEF PunishedOnce, NukeInv
<1>3. QED
  BY <1>2, NukeInvariant, PTL

\* A run that a command has ended punishes nobody from then on.
THEOREM CommandsAlwaysEndScrollback == NukeSpec => CommandsEndScrollback
<1>1. ASSUME NukeInv, [NukeNext]_nukeVars, NEW r \in Runs, NEW m \in Msgs,
             <<r, m, FALSE>> \in acted' \ acted
      PROVE  timers[r] = "done" \/ r \in faded
  <2>1. PICK q \in Runs, k \in Msgs : RunTask(q, k)
    BY <1>1 DEF NukeNext, nukeVars, Start, StartRun, ReCheck, RestartPanics, Cancel, CancelNothing,
                RestartNuke, Expire, Callback, ScanBegin, ScanCutOff, ScanComplete, ScanVisit,
                ScanApply, ScanPanics, effects
  <2>2. /\ <<q, k>> \in tasks
        /\ acted' = IF q \in cancelled THEN acted ELSE acted \cup {<<q, k, q = nuke>>}
    BY <2>1 DEF RunTask
  <2>3. q = r /\ r \notin cancelled /\ r # nuke
    BY <1>1, <2>2
  <2>4. Started(r)
    BY <1>1, <2>2, <2>3 DEF NukeInv, StartedFirst
  <2>5. QED
    BY <1>1, <2>3, <2>4 DEF NukeInv, EndedSomehow
<1>2. NukeInv /\ [NukeNext]_nukeVars =>
        [\A r \in Runs, m \in Msgs :
            <<r, m, FALSE>> \in acted' \ acted => timers[r] = "done" \/ r \in faded]_nukeVars
  BY <1>1
<1>3. QED
  BY <1>2, NukeInvariant, PTL DEF NukeSpec, CommandsEndScrollback
=============================================================================
