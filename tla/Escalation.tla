----------------------------- MODULE Escalation -----------------------------
(***************************************************************************)
(* The punishment counters of one user: the checker's protocol             *)
(*     timeouts.Get; timeouts.Push(0) if absent; Punishment.Get;           *)
(*     timeouts.Update(+1)                                                 *)
(* (adapters/message/checker/checker.go, five places) over the two-level   *)
(* cache of infrastructure/storage/store.go, run by several workers at     *)
(* once: nothing orders two messages of one user.                          *)
(*                                                                         *)
(* Each call of the external cache (otter) is one step.  The outer cache   *)
(* maps the user to an inner cache and forgets it IdleLimit ticks after    *)
(* the last access; an inner cache maps a counter's name to its value and  *)
(* forgets it when its deadline passes, if it has one.  An inner cache     *)
(* that has left the outer one lives on in the workers that hold it.       *)
(***************************************************************************)
EXTENDS Naturals

CONSTANTS
    Workers,        \* EventSub workers that may handle this user's messages
    Kinds,          \* names of counters: "mword", "spam_default", ...
    DurationReset,  \* DurationResetPunishments of each group of settings
    Inners,         \* identities of inner caches
    IdleLimit,      \* 5 minutes, in ticks
    None, Never,
    MaxOffences,    \* model bound on the punishments given per kind
    MaxAge          \* model bound on the age of a counter

ASSUME EscalationAssumption ==
    /\ DurationReset \in [{"default", "vip", "emotes"} -> Nat]
    /\ None \notin Nat \cup Inners
    /\ Never \notin Nat
    /\ IdleLimit \in Nat \ {0}

VARIABLES
    outer,     \* the user's inner cache, or None
    idle,      \* ticks until the outer cache forgets it
    cells,     \* inner cache -> counter name -> its cell, or None
    pc,        \* where each worker is
    kind,      \* the counter it works on
    ref,       \* the inner cache it has looked up
    count,     \* what its Get returned: the index of the punishment
    current,   \* what its Update has read
    offences,  \* punishments of each kind that have been counted
    crowded    \* two workers have been busy since last none was

vars == <<outer, idle, cells, pc, kind, ref, count, current, offences,
          crowded>>

Cell == [val : Nat, ttl : (Nat \ {0}) \cup {Never}, age : Nat]

\* The settings the code takes a counter's time to live from, and those the
\* "!am as info" text shows as its reset time.
TTLSettings(k)   == IF k = "spam_vip" THEN "vip" ELSE "default"
ShownSettings(k) == CASE k = "spam_vip" -> "vip"
                      [] k \in {"spam_emote", "except_emote"} -> "emotes"
                      [] OTHER -> "default"

Init ==
    /\ outer = None
    /\ idle = 0
    /\ cells = [i \in Inners |-> [k \in Kinds |-> None]]
    /\ pc = [w \in Workers |-> "idle"]
    /\ kind \in [Workers -> Kinds]
    /\ ref \in [Workers -> Inners]
    /\ count = [w \in Workers |-> 0]
    /\ current = [w \in Workers |-> None]
    /\ offences = [k \in Kinds |-> 0]
    /\ crowded = FALSE

\* The other workers busy with this user.
Others(w) == {v \in Workers \ {w} : pc[v] # "idle"}

Goto(w, from, to) == pc[w] = from /\ pc' = [pc EXCEPT ![w] = to]

\* outer.GetIfPresent: a hit is an access and gives the entry a new lease.
LookupHit(w) ==
    /\ outer # None
    /\ ref' = [ref EXCEPT ![w] = outer]
    /\ idle' = IdleLimit
    /\ UNCHANGED outer

CellOf(w) == cells[ref[w]][kind[w]]
SetCell(w, c) == cells' = [cells EXCEPT ![ref[w]][kind[w]] = c]

-----------------------------------------------------------------------------
(* timeouts.Get                                                            *)

GetHit(w, k) ==
    /\ Goto(w, "idle", "read")
    /\ offences[k] < MaxOffences
    /\ kind' = [kind EXCEPT ![w] = k]
    /\ LookupHit(w)
    /\ crowded' = (crowded \/ Others(w) # {})
    /\ UNCHANGED <<cells, count, current, offences>>

GetMiss(w, k) ==
    /\ Goto(w, "idle", "push")
    /\ offences[k] < MaxOffences
    /\ outer = None
    /\ kind' = [kind EXCEPT ![w] = k]
    /\ count' = [count EXCEPT ![w] = 0]
    /\ crowded' = (crowded \/ Others(w) # {})
    /\ UNCHANGED <<outer, idle, cells, ref, current, offences>>

\* Mutant: the counter is pushed whether it is there or not.
ReadAlwaysPushes(w) ==
    /\ Goto(w, "read", "push")
    /\ count' = [count EXCEPT ![w] = IF CellOf(w) = None THEN 0 ELSE CellOf(w).val]
    /\ UNCHANGED <<outer, idle, cells, kind, ref, current, offences, crowded>>

Read(w) ==
    /\ Goto(w, "read", IF CellOf(w) = None THEN "push" ELSE "update")
    /\ count' = [count EXCEPT ![w] = IF CellOf(w) = None THEN 0 ELSE CellOf(w).val]
    /\ UNCHANGED <<outer, idle, cells, kind, ref, current, offences, crowded>>

-----------------------------------------------------------------------------
(* getInner, in Push and in Update: a miss makes a new inner cache, which  *)
(* replaces the one another worker may have put there since.               *)

InnerHit(w, from, to) ==
    /\ Goto(w, from, to)
    /\ LookupHit(w)
    /\ UNCHANGED <<cells, kind, count, current, offences, crowded>>

InnerMiss(w, from, to) ==
    /\ Goto(w, from, to)
    /\ outer = None
    /\ UNCHANGED <<outer, idle, cells, kind, ref, count, current, offences, crowded>>

Fresh(i) == i # outer /\ \A w \in Workers : pc[w] # "idle" => ref[w] # i

MakeInner(w, i, from, to) ==
    /\ Goto(w, from, to)
    /\ Fresh(i)
    /\ outer' = i
    /\ idle' = IdleLimit
    /\ ref' = [ref EXCEPT ![w] = i]
    /\ cells' = [cells EXCEPT ![i] = [k \in Kinds |-> None]]
    /\ UNCHANGED <<kind, count, current, offences, crowded>>

\* A new entry has no deadline (the store's ttl is 0); writing an entry
\* that is there leaves its deadline alone.
Written(c, v) == IF c = None THEN [val |-> v, ttl |-> Never, age |-> 0]
                             ELSE [val |-> v, ttl |-> c.ttl, age |-> c.age]

\* Mutant: a new counter starts at 1.
PushSetOne(w) ==
    /\ Goto(w, "set", "ttl")
    /\ SetCell(w, Written(CellOf(w), 1))
    /\ UNCHANGED <<outer, idle, kind, ref, count, current, offences, crowded>>

PushSet(w) ==
    /\ Goto(w, "set", "ttl")
    /\ SetCell(w, Written(CellOf(w), 0))
    /\ UNCHANGED <<outer, idle, kind, ref, count, current, offences, crowded>>

\* SetExpiresAfter, for a time to live that is not 0; an entry that is not
\* there stays away.
PushTTL(w) ==
    /\ Goto(w, "ttl", "update")
    /\ LET ttl == DurationReset[TTLSettings(kind[w])]
       IN  IF ttl > 0 /\ CellOf(w) # None
           THEN SetCell(w, [val |-> CellOf(w).val, ttl |-> ttl, age |-> CellOf(w).age])
           ELSE UNCHANGED cells
    /\ UNCHANGED <<outer, idle, kind, ref, count, current, offences, crowded>>

UpdateRead(w) ==
    /\ Goto(w, "load", "store")
    /\ current' = [current EXCEPT ![w] =
                      IF CellOf(w) = None THEN None ELSE CellOf(w).val]
    /\ UNCHANGED <<outer, idle, cells, kind, ref, count, offences, crowded>>

UpdateWrite(w) ==
    /\ Goto(w, "store", "idle")
    /\ SetCell(w, Written(CellOf(w),
                          IF current[w] = None THEN 1 ELSE current[w] + 1))
    /\ offences' = [offences EXCEPT ![kind[w]] = @ + 1]
    /\ crowded' = (crowded /\ Others(w) # {})
    /\ UNCHANGED <<outer, idle, kind, ref, count, current>>

-----------------------------------------------------------------------------
(* Time.                                                                   *)

Sooner(ttl) == IF ttl = Never THEN Never ELSE ttl - 1

\* Mutant: a deadline that has passed is not noticed.
AgedPastDeadline(c) ==
    IF c = None THEN None
    ELSE [val |-> c.val, ttl |-> Sooner(c.ttl), age |-> c.age + 1]

Aged(c) ==
    IF c = None \/ c.ttl = 1 THEN None
    ELSE [val |-> c.val, ttl |-> Sooner(c.ttl), age |-> c.age + 1]

Tick ==
    /\ \A i \in Inners, k \in Kinds : cells[i][k] # None => cells[i][k].age < MaxAge
    /\ cells' = [i \in Inners |-> [k \in Kinds |-> Aged(cells[i][k])]]
    /\ idle' = IF idle = 0 THEN 0 ELSE idle - 1
    /\ outer' = IF idle <= 1 THEN None ELSE outer
    /\ UNCHANGED <<pc, kind, ref, count, current, offences, crowded>>

Push(w) ==
    \/ InnerHit(w, "push", "set")
    \/ InnerMiss(w, "push", "make for push")
    \/ \E i \in Inners : MakeInner(w, i, "make for push", "set")
    \/ PushSet(w)
    \/ PushTTL(w)

Update(w) ==
    \/ InnerHit(w, "update", "load")
    \/ InnerMiss(w, "update", "make for update")
    \/ \E i \in Inners : MakeInner(w, i, "make for update", "load")
    \/ UpdateRead(w)
    \/ UpdateWrite(w)

Next ==
    \/ \E w \in Workers, k \in Kinds : GetHit(w, k) \/ GetMiss(w, k)
    \/ \E w \in Workers : Read(w) \/ Push(w) \/ Update(w)
    \/ Tick

Spec == Init /\ [][Next]_vars

-----------------------------------------------------------------------------
(* Properties.                                                             *)

PCs == {"idle", "read", "push", "make for push", "set", "ttl",
        "update", "make for update", "load", "store"}

TypeOK ==
    /\ outer \in Inners \cup {None}
    /\ idle \in Nat
    /\ cells \in [Inners -> [Kinds -> Cell \cup {None}]]
    /\ pc \in [Workers -> PCs]
    /\ kind \in [Workers -> Kinds]
    /\ ref \in [Workers -> Inners]
    /\ count \in [Workers -> Nat]
    /\ current \in [Workers -> Nat \cup {None}]
    /\ offences \in [Kinds -> Nat]
    /\ crowded \in BOOLEAN

\* Nobody is punished harder than earned: the index a punishment is chosen
\* by never exceeds the number of punishments of its kind given before,
\* whatever updates are lost, caches replaced and counters forgotten.
NeverHarsherThanEarned ==
    \A w \in Workers : pc[w] \notin {"idle", "read"} => count[w] <= offences[kind[w]]

\* The value the user's next punishment of kind k will be chosen by.
Level(k) == IF outer = None \/ cells[outer][k] = None THEN 0 ELSE cells[outer][k].val

\* As long as one message of the user is handled at a time, a counter only
\* falls by being forgotten: no Push, no Update and no cache made anew puts
\* a lower value in its place.
LevelOnlyForgotten ==
    [][~ crowded => \A k \in Kinds : Level(k)' < Level(k) =>
          outer' = None \/ cells'[outer'][k] = None]_vars

\* "Reset time of the punishment counter: N": a counter is not kept longer
\* than the reset time shown for it.  The code breaks it for emotes, whose
\* counters take the default settings' time, and for a counter that expires
\* between Push and Update, which Update creates anew without a deadline.
ForgottenInTime ==
    outer # None =>
      \A k \in Kinds : cells[outer][k] # None =>
         cells[outer][k].age <= DurationReset[ShownSettings(k)]

\* "Reset time of the punishment counter: N": a counter is not forgotten
\* earlier.  The code breaks it: the outer cache forgets a user, counters
\* and all, after five minutes without a lookup.
RememberedLongEnough ==
    [][outer # None =>
        \A k \in Kinds : LET c == cells[outer][k] IN
           c # None /\ (outer' = None \/ cells'[outer][k] = None)
             => c.age + 1 >= DurationReset[ShownSettings(k)]]_vars
=============================================================================
