------------------------- MODULE CommandTable_proofs -------------------------
(* Theorems about CommandTable: how often a command's limiter can be        *)
(* outrun, whatever calls race and whatever moderators do meanwhile; how an *)
(* alias may come to stand for itself; that the trie follows the tables; that what  *)
(* rewriting makes of a message is a message.                               *)
EXTENDS CommandTable, FiniteSetTheorems, NaturalsInduction, TLAPS

-----------------------------------------------------------------------------
(* The limits on commands.                                                  *)

\* The handlers that will make a bucket of the present limiter of command c
\* although it may have one: they have found theirs without.
Installing(c) ==
    {h \in Handlers : /\ handler[h] # Idle /\ Called(h) = c
                      /\ \/ handler[h].at = "install"
                         \/ handler[h].at = "read" /\ handler[h].held = "oldUnset"}

\* The tokens in the command's bucket.
Left(c) == IF limit[c] \in 0 .. Requests THEN limit[c] ELSE 0

\* Each handler brings at most one further bucket, and those still to bring
\* theirs have not: none has while the limiter has no bucket at all.
Allowance(S) == Requests * (1 + Cardinality(Handlers) - Cardinality(S))
Budget(c)    == Allowance(Installing(c))

\* What a handler holds: the command's limiter only if it has one, and a handler
\* that is past the making of the bucket has one made.
HeldInv ==
    \A h \in Handlers : handler[h] # Idle /\ Current(h) =>
        /\ Limited(Called(h))
        /\ handler[h].at = "allow" => limit[Called(h)] # Unset

LimitInv ==
    /\ LimitTypeOK
    /\ HeldInv
    /\ \A c \in Commands : limit[c] = Unset => answers[c] = 0
    /\ \A c \in Commands : answers[c] + Left(c) <= Budget(c)

\* The numbers among the constants.
LEMMA Numbers ==
    /\ Requests \in Nat \ {0} /\ UserRequests \in Nat \ {0}
    /\ Cardinality(Handlers) \in Nat /\ IsFiniteSet(Handlers)
  BY LimitsAssumption, FS_CardinalityType

\* What stands for no limiter and for a deleted one is no bucket.
LEMMA Markers ==
    /\ Gone # NoLimit /\ Unset # Gone /\ Unset # NoLimit
    /\ Gone \notin Bucket /\ NoLimit \notin Bucket
    /\ Unset \in Bucket /\ Unset \notin 0 .. Requests
  BY LimitsAssumption DEF Bucket

\* What is not at rest is a call.
LEMMA CallsOrIdle ==
    ASSUME handler \in [Handlers -> Call \cup {Idle}], NEW h \in Handlers
    PROVE  /\ handler[h] = Idle <=> handler[h].at = "idle"
           /\ handler[h] # Idle => handler[h] \in Call
  BY DEF Call, Idle

\* Sets of handlers are finite and no larger than all of them.
LEMMA Sizes ==
    ASSUME NEW S \in SUBSET Handlers, NEW T \in SUBSET S
    PROVE  /\ Cardinality(S) \in Nat /\ Cardinality(T) \in Nat
           /\ Cardinality(T) <= Cardinality(S)
           /\ Cardinality(S) <= Cardinality(Handlers)
<1>1. IsFiniteSet(S) /\ IsFiniteSet(T)
  BY Numbers, FS_Subset
<1>2. QED
  BY <1>1, Numbers, FS_Subset, FS_CardinalityType

\* Buckets add up.
LEMMA Multiples ==
    ASSUME NEW m \in Int, NEW n \in Int, m <= n
    PROVE  /\ Requests * m \in Int
           /\ Requests * m <= Requests * n
           /\ Requests * (m + 1) = Requests * m + Requests
  BY Numbers, SMTT(60)

\* Fewer handlers that may install leave no smaller allowance, one fewer leaves a
\* bucket more, and there is one bucket at least.
LEMMA AllowanceGrows ==
    ASSUME NEW T \in SUBSET Handlers, NEW S \in SUBSET T
    PROVE  /\ Allowance(S) \in Int /\ Allowance(T) \in Int
           /\ Requests <= Allowance(T)
           /\ Allowance(T) <= Allowance(S)
           /\ Allowance(S) <= Requests * (1 + Cardinality(Handlers))
           /\ S # T => Allowance(T) + Requests <= Allowance(S)
<1> DEFINE Size(U) == 1 + Cardinality(Handlers) - Cardinality(U)
<1>1. /\ Size(S) \in Int /\ Size(T) \in Int
      /\ 1 <= Size(T) /\ Size(T) <= Size(S) /\ Size(S) <= 1 + Cardinality(Handlers)
  BY Sizes, Numbers
<1>2. S # T => Size(T) + 1 <= Size(S)
  BY Sizes, Numbers, FS_Subset
<1>3. Requests * 1 = Requests
  BY Numbers
<1>4. QED
  <2> HIDE DEF Size
  <2>1. Allowance(S) = Requests * Size(S) /\ Allowance(T) = Requests * Size(T)
    BY DEF Size, Allowance
  <2>2. Requests * 1 <= Requests * Size(T) /\ Requests * Size(T) <= Requests * Size(S)
    BY <1>1, Multiples
  <2>3. Requests * Size(S) <= Requests * (1 + Cardinality(Handlers))
    BY <1>1, Multiples, Numbers
  <2>4. S # T => Requests * (Size(T) + 1) <= Requests * Size(S)
    BY <1>1, <1>2, Multiples
  <2>5. Requests * (Size(T) + 1) = Requests * Size(T) + Requests
    BY <1>1, Multiples
  <2>6. Requests * Size(S) \in Int /\ Requests * Size(T) \in Int
    BY <1>1, Multiples
  <2>7. QED
    BY <1>3, <2>1, <2>2, <2>3, <2>4, <2>5, <2>6

\* At the start nothing has been answered.
LEMMA LimitInitInv == LimitInit => LimitInv
<1> SUFFICES ASSUME LimitInit PROVE LimitInv
  OBVIOUS
<1>1. LimitTypeOK
  BY Markers DEF LimitInit, LimitTypeOK
<1>2. HeldInv
  BY DEF LimitInit, HeldInv
<1>3. ASSUME NEW c \in Commands
      PROVE  answers[c] = 0 /\ Left(c) = 0 /\ 0 <= Budget(c)
  <2>1. Installing(c) \in SUBSET Handlers
    BY DEF Installing
  <2>2. Budget(c) \in Int /\ Requests <= Budget(c)
    BY <2>1, AllowanceGrows DEF Budget
  <2>3. limit[c] \notin 0 .. Requests
    BY <1>3, Markers DEF LimitInit, Bucket
  <2>4. QED
    BY <1>3, <2>2, <2>3, Numbers DEF LimitInit, Left
<1>4. QED
  BY <1>1, <1>2, <1>3 DEF LimitInv

\* A command, and its limiter, made, replaced or removed: the count begins anew,
\* and whoever has the old limiter goes on with it.
LEMMA ReplacedKeeps ==
    ASSUME LimitInv, NEW c \in Commands, NEW new \in {Gone, NoLimit, Requests},
           Replaced(c, new)
    PROVE  LimitInv'
<1> USE DEF LimitInv, LimitTypeOK
<1>1. limit' \in [Commands -> Bucket \cup {Gone, NoLimit}] /\ answers' \in [Commands -> Nat]
  BY Numbers DEF Replaced, Bucket
<1>2. handler' \in [Handlers -> Call \cup {Idle}]
  BY CallsOrIdle DEF Replaced, Call
<1>3. ASSUME NEW h \in Handlers, handler'[h] # Idle
      PROVE  /\ handler[h] # Idle /\ Called(h)' = Called(h) /\ handler'[h].at = handler[h].at
             /\ Called(h) = c => ~ Current(h)'
             /\ Called(h) # c => handler'[h] = handler[h]
  BY <1>3, CallsOrIdle DEF Replaced, Call, Called, Current
<1>4. HeldInv'
  BY <1>1, <1>2, <1>3, CallsOrIdle DEF HeldInv, Replaced, Limited, Call, Called, Current
<1>5. ASSUME NEW d \in Commands
      PROVE  /\ limit'[d] = Unset => answers'[d] = 0
             /\ (answers[d] + Left(d) <= Budget(d))'
  <2>1. /\ Installing(d) \in SUBSET Handlers /\ Installing(d)' \in SUBSET Handlers
        /\ Budget(d)' \in Int /\ Requests <= Budget(d)'
    BY AllowanceGrows DEF Installing, Budget
  <2>2. CASE d = c
    BY <2>1, <2>2, Numbers DEF Replaced, Left
  <2>3. CASE d # c
    <3>1. Installing(d)' = Installing(d)
      BY <1>2, <1>3, <2>3 DEF Installing, Replaced, Called, Current
    <3>2. limit'[d] = limit[d] /\ answers'[d] = answers[d]
      BY <2>3 DEF Replaced
    <3>3. QED
      BY <3>1, <3>2 DEF Left, Budget
  <2>4. QED
    BY <2>2, <2>3
<1>6. QED
  BY <1>1, <1>2, <1>4, <1>5 DEF Replaced

\* Allowances are whole numbers, of one bucket at least.
LEMMA Budgets ==
    ASSUME NEW c \in Commands
    PROVE  /\ Installing(c) \in SUBSET Handlers
           /\ Budget(c) \in Int /\ Requests <= Budget(c)
           /\ Budget(c) <= Requests * (1 + Cardinality(Handlers))
<1>1. Installing(c) \in SUBSET Handlers
  BY DEF Installing
<1>2. QED
  BY <1>1, AllowanceGrows DEF Budget

\* Who may install is told by what each handler is doing.
LEMMA OthersInstall ==
    ASSUME NEW h \in Handlers, NEW c \in Commands,
           \A k \in Handlers \ {h} : handler'[k] = handler[k]
    PROVE  Installing(c)' \ {h} = Installing(c) \ {h}
  BY DEF Installing, Called

\* A message is heard: its handler holds what it has read of the limiter.
LEMMA HearKeeps ==
    ASSUME LimitInv, NEW h \in Handlers, NEW c \in Commands, Hear(h, c)
    PROVE  LimitInv'
<1> USE DEF LimitInv, LimitTypeOK
<1>1. user' \in (0 .. UserRequests) \cup {Unset}
  BY Numbers DEF Hear, Ensured
<1>2. handler' \in [Handlers -> Call \cup {Idle}]
  BY DEF Hear, Call
<1>3. \A k \in Handlers \ {h} : handler'[k] = handler[k]
  BY DEF Hear
<1>4. HeldInv'
  <2>1. ASSUME NEW k \in Handlers, handler'[k] # Idle, Current(k)'
        PROVE  /\ Limited(Called(k))'
               /\ handler'[k].at = "allow" => limit'[Called(k)'] # Unset
    <3>1. CASE handler'[k] = handler[k]
      BY <2>1, <3>1 DEF HeldInv, Hear, Called, Current, Limited
    <3>2. CASE handler'[k] # handler[k]
      BY <2>1, <3>2 DEF Hear, Called, Current, Limited
    <3>3. QED
      BY <3>1, <3>2
  <2>2. QED
    BY <2>1 DEF HeldInv
<1>5. ASSUME NEW d \in Commands
      PROVE  Installing(d)' = Installing(d)
  <2>1. h \notin Installing(d)
    BY DEF Installing, Hear
  <2>2. h \notin Installing(d)'
    BY DEF Installing, Hear, Idle
  <2>3. QED
    BY <1>3, <2>1, <2>2, OthersInstall
<1>6. limit' = limit /\ answers' = answers
  BY DEF Hear
<1>7. QED
  BY <1>1, <1>2, <1>4, <1>5, <1>6 DEF Left, Budget

\* A handler that finds no bucket may bring one: the limiter has given nothing.
LEMMA ReadRateKeeps ==
    ASSUME LimitInv, NEW h \in Handlers, ReadRate(h)
    PROVE  LimitInv'
<1> USE DEF LimitInv, LimitTypeOK
<1>0. handler[h] # Idle /\ handler[h] \in Call
  BY CallsOrIdle DEF ReadRate, Idle
<1>1. /\ handler' \in [Handlers -> Call \cup {Idle}]
      /\ handler'[h] = [handler[h] EXCEPT !.at = IF HeldUnset(h) THEN "install" ELSE "allow"]
      /\ handler'[h] # Idle
      /\ Called(h)' = Called(h) /\ Called(h) \in Commands /\ Current(h)' = Current(h)
  BY <1>0, CallsOrIdle DEF ReadRate, Goes, Call, Called, Current, Idle
<1>2. \A k \in Handlers \ {h} : handler'[k] = handler[k]
  BY DEF ReadRate, Goes
<1>3. limit' = limit /\ answers' = answers /\ user' = user
  BY DEF ReadRate
<1>4. HeldInv'
  <2>1. ASSUME NEW k \in Handlers, handler'[k] # Idle, Current(k)'
        PROVE  /\ Limited(Called(k))'
               /\ handler'[k].at = "allow" => limit'[Called(k)'] # Unset
    <3>1. CASE k # h
      BY <1>2, <1>3, <2>1, <3>1 DEF HeldInv, Called, Current, Limited
    <3>2. CASE k = h
      BY <1>0, <1>1, <1>3, <2>1, <3>2 DEF HeldInv, HeldUnset, Limited, Call
    <3>3. QED
      BY <3>1, <3>2
  <2>2. QED
    BY <2>1 DEF HeldInv
<1>5. ASSUME NEW d \in Commands
      PROVE  (answers[d] + Left(d) <= Budget(d))'
  <2>1. Installing(d)' \ {h} = Installing(d) \ {h}
    BY <1>2, OthersInstall
  <2>2. Left(d)' = Left(d) /\ answers'[d] = answers[d]
    BY <1>3 DEF Left
  <2>3. CASE limit[d] = Unset
    <3>1. answers[d] = 0 /\ Left(d) = 0
      BY <2>3, Markers DEF Left
    <3>2. Installing(d)' \in SUBSET Handlers
      BY DEF Installing
    <3>3. Budget(d)' \in Int /\ Requests <= Budget(d)'
      <4>1. Budget(d)' = Allowance(Installing(d)')
        BY DEF Budget, Allowance
      <4>2. QED
        BY <3>2, <4>1, AllowanceGrows
    <3>4. QED
      BY <2>2, <3>1, <3>3, Numbers
  <2>4. CASE limit[d] # Unset
    <3>1. h \in Installing(d)' => h \in Installing(d)
      BY <1>0, <1>1, <2>4 DEF Installing, HeldUnset, ReadRate, Call
    <3>2. Installing(d)' \in SUBSET Installing(d) /\ Installing(d) \in SUBSET Handlers
      BY <2>1, <3>1 DEF Installing
    <3>3. Allowance(Installing(d)) <= Allowance(Installing(d)')
      BY <3>2, AllowanceGrows
    <3>4. Budget(d)' = Allowance(Installing(d)') /\ Budget(d)' \in Int
      <4>1. Budget(d)' = Allowance(Installing(d)')
        BY DEF Budget, Allowance
      <4>2. QED
        BY <3>2, <4>1, AllowanceGrows
    <3>5. answers[d] \in Int /\ Left(d) \in Int
      BY DEF Left
    <3>6. QED
      BY <2>2, <3>3, <3>4, <3>5, Budgets DEF Budget
  <2>5. QED
    BY <2>3, <2>4
<1>6. QED
  BY <1>1, <1>3, <1>4, <1>5

\* The handler that makes a bucket has brought it: it will make no other.
LEMMA InstallRateKeeps ==
    ASSUME LimitInv, NEW h \in Handlers, InstallRate(h)
    PROVE  LimitInv'
<1> USE DEF LimitInv, LimitTypeOK
<1>0. handler[h] # Idle /\ handler[h] \in Call
  BY CallsOrIdle DEF InstallRate, Idle
<1> DEFINE c == Called(h)
<1>1. /\ handler' \in [Handlers -> Call \cup {Idle}]
      /\ handler'[h] = [handler[h] EXCEPT !.at = "allow"]
      /\ Called(h)' = c /\ c \in Commands
  BY <1>0 DEF InstallRate, Goes, Call, Called
<1>2. \A k \in Handlers \ {h} : handler'[k] = handler[k]
  BY DEF InstallRate, Goes
<1>3. /\ limit' = [limit EXCEPT ![c] = Requests] /\ answers' = answers /\ user' = user
      /\ Requests \in 0 .. Requests /\ Requests # Unset
  BY Numbers, Markers DEF InstallRate
<1> HIDE DEF c
<1>4. HeldInv'
  <2>1. ASSUME NEW k \in Handlers, handler'[k] # Idle, Current(k)'
        PROVE  /\ Limited(Called(k))'
               /\ handler'[k].at = "allow" => limit'[Called(k)'] # Unset
    <3>1. CASE Called(k)' = c
      BY <1>1, <1>3, <3>1 DEF Limited, Bucket
    <3>2. CASE Called(k)' # c
      <4>1. k # h /\ handler'[k] = handler[k]
        BY <1>1, <1>2, <3>2
      <4>2. Called(k)' = Called(k) /\ handler[k] # Idle /\ Current(k)
        BY <2>1, <4>1 DEF Called, Current
      <4>3. Called(k) \in Commands
        BY <4>2, CallsOrIdle DEF Called, Call
      <4>4. limit'[Called(k)'] = limit[Called(k)]
        BY <1>3, <3>2, <4>2, <4>3
      <4>5. QED
        BY <4>1, <4>2, <4>4 DEF HeldInv, Limited
    <3>3. QED
      BY <3>1, <3>2
  <2>2. QED
    BY <2>1 DEF HeldInv
<1>5. ASSUME NEW d \in Commands
      PROVE  /\ limit'[d] = Unset => answers'[d] = 0
             /\ (answers[d] + Left(d) <= Budget(d))'
  <2>1. Installing(d)' = Installing(d) \ {h}
    <3>1. Installing(d)' \ {h} = Installing(d) \ {h}
      BY <1>2, OthersInstall
    <3>2. h \notin Installing(d)'
      BY <1>0, <1>1 DEF Installing, Call
    <3>3. QED
      BY <3>1, <3>2
  <2>2. Installing(d) \in SUBSET Handlers /\ Installing(d)' \in SUBSET Installing(d)
    BY <2>1, Budgets
  <2>3. Budget(d)' = Allowance(Installing(d)') /\ Budget(d) = Allowance(Installing(d))
    BY DEF Budget, Allowance
  <2>4. /\ Budget(d)' \in Int /\ Budget(d) \in Int /\ Budget(d) <= Budget(d)'
        /\ Installing(d)' # Installing(d) => Budget(d) + Requests <= Budget(d)'
    BY <2>2, <2>3, AllowanceGrows
  <2>5. answers[d] \in Nat /\ Left(d) \in Nat /\ answers[d] + Left(d) <= Budget(d)
    BY DEF Left
  <2>6. CASE d = c
    <3>1. h \in Installing(d)
      BY <1>0, <2>6 DEF Installing, c, InstallRate
    <3>2. Budget(d) + Requests <= Budget(d)'
      BY <2>1, <2>4, <3>1
    <3>3. Left(d)' = Requests
      BY <1>3, <2>6 DEF Left
    <3>4. QED
      BY <1>3, <2>4, <2>5, <2>6, <3>2, <3>3, Numbers
  <2>7. CASE d # c
    <3>1. limit'[d] = limit[d] /\ Left(d)' = Left(d)
      BY <1>3, <2>7 DEF Left
    <3>2. QED
      BY <1>3, <2>4, <2>5, <3>1
  <2>8. QED
    BY <2>6, <2>7
<1>6. QED
  BY <1>1, <1>3, <1>4, <1>5 DEF Bucket

\* An answer takes its token out of the bucket.
LEMMA AllowKeeps ==
    ASSUME LimitInv, NEW h \in Handlers, Allow(h)
    PROVE  LimitInv'
<1> USE DEF LimitInv, LimitTypeOK
<1>0. handler[h] # Idle /\ handler[h] \in Call /\ handler[h].at = "allow"
  BY CallsOrIdle DEF Allow, Idle
<1> DEFINE c    == Called(h)
           gets == Current(h) /\ limit[c] # 0
<1>1. /\ handler' \in [Handlers -> Call \cup {Idle}]
      /\ handler'[h] = Idle /\ c \in Commands
  BY <1>0 DEF Allow, Ends, Call, Called
<1>2. \A k \in Handlers \ {h} : handler'[k] = handler[k]
  BY DEF Allow, Ends
<1>3. gets => limit[c] \in 0 .. Requests /\ limit[c] # 0 /\ limit[c] # Unset
  BY <1>0 DEF HeldInv, Limited, Bucket
<1>4. /\ user' = user
      /\ gets => /\ limit' = [limit EXCEPT ![c] = limit[c] - 1]
                 /\ answers' = [answers EXCEPT ![c] = answers[c] + 1]
      /\ ~ gets => limit' = limit /\ answers' = answers
  BY <1>3 DEF Allow
<1> HIDE DEF c, gets
<1>5. limit' \in [Commands -> Bucket \cup {Gone, NoLimit}] /\ answers' \in [Commands -> Nat]
  BY <1>1, <1>3, <1>4, Numbers DEF Bucket
<1>6. \A d \in Commands : /\ Limited(d)' <=> Limited(d)
                          /\ limit'[d] = Unset <=> limit[d] = Unset
  <2>1. gets => limit[c] - 1 \in 0 .. Requests /\ limit[c] - 1 # Unset
    BY <1>3, Markers, Numbers
  <2>2. QED
    BY <1>1, <1>3, <1>4, <2>1 DEF Limited, Bucket
<1>7. HeldInv'
  <2>1. ASSUME NEW k \in Handlers, handler'[k] # Idle, Current(k)'
        PROVE  /\ Limited(Called(k))'
               /\ handler'[k].at = "allow" => limit'[Called(k)'] # Unset
    <3>1. k # h /\ handler'[k] = handler[k]
      BY <1>1, <1>2, <2>1
    <3>2. Called(k)' = Called(k) /\ handler[k] # Idle /\ Current(k)
      BY <2>1, <3>1 DEF Called, Current
    <3>3. Called(k) \in Commands
      BY <3>2, CallsOrIdle DEF Called, Call
    <3>4. /\ Limited(Called(k))' <=> limit'[Called(k)] \in Bucket
      BY <3>2 DEF Limited, Bucket
    <3>5. QED
      BY <1>6, <3>1, <3>2, <3>3, <3>4 DEF HeldInv, Limited
  <2>2. QED
    BY <2>1 DEF HeldInv
<1>8. ASSUME NEW d \in Commands
      PROVE  /\ limit'[d] = Unset => answers'[d] = 0
             /\ (answers[d] + Left(d) <= Budget(d))'
  <2>1. Installing(d)' = Installing(d)
    <3>1. Installing(d)' \ {h} = Installing(d) \ {h}
      BY <1>2, OthersInstall
    <3>2. h \notin Installing(d)' /\ h \notin Installing(d)
      BY <1>0, <1>1 DEF Installing
    <3>3. QED
      BY <3>1, <3>2
  <2>2. Budget(d)' = Budget(d) /\ Budget(d) \in Int
    BY <2>1, Budgets DEF Budget, Allowance
  <2>3. answers[d] \in Nat /\ Left(d) \in Nat /\ answers[d] + Left(d) <= Budget(d)
    BY DEF Left
  <2>4. CASE d = c /\ gets
    <3>1. answers'[d] = answers[d] + 1 /\ limit'[d] = limit[d] - 1
      BY <1>4, <2>4
    <3>2. limit[d] \in 0 .. Requests /\ limit[d] # 0 /\ limit[d] # Unset
      BY <1>3, <2>4
    <3>3. limit'[d] \in 0 .. Requests /\ limit'[d] # Unset
      BY <1>6, <3>1, <3>2, Numbers
    <3>4. Left(d)' = limit[d] - 1 /\ Left(d) = limit[d]
      BY <3>1, <3>2, <3>3 DEF Left
    <3>5. QED
      BY <2>2, <2>3, <3>1, <3>2, <3>3, <3>4
  <2>5. CASE ~ (d = c /\ gets)
    <3>1. limit'[d] = limit[d] /\ answers'[d] = answers[d]
      BY <1>4, <2>5
    <3>2. QED
      BY <2>2, <2>3, <3>1 DEF Left
  <2>6. QED
    BY <2>4, <2>5
<1>9. QED
  BY <1>1, <1>4, <1>5, <1>7, <1>8

\* A token more in the bucket is an answer less that counts.
LEMMA RefillKeeps ==
    ASSUME LimitInv, NEW c \in Commands, Refill(c)
    PROVE  LimitInv'
<1> USE DEF LimitInv, LimitTypeOK
<1>1. /\ limit[c] \in 0 .. Requests - 1 /\ limit[c] + 1 \in 0 .. Requests
      /\ limit[c] \in 0 .. Requests /\ limit[c] # Unset /\ limit[c] + 1 # Unset
  BY Numbers, Markers DEF Refill
<1>2. /\ limit' = [limit EXCEPT ![c] = limit[c] + 1]
      /\ answers' = [answers EXCEPT ![c] = IF answers[c] > 0 THEN answers[c] - 1 ELSE 0]
      /\ user' = user /\ handler' = handler
  BY DEF Refill
<1>3. limit' \in [Commands -> Bucket \cup {Gone, NoLimit}] /\ answers' \in [Commands -> Nat]
  BY <1>1, <1>2 DEF Bucket
<1>4. HeldInv'
  <2>1. ASSUME NEW k \in Handlers, handler[k] # Idle, Current(k)
        PROVE  /\ limit'[Called(k)] \in Bucket
               /\ handler[k].at = "allow" => limit'[Called(k)] # Unset
    <3>1. Called(k) \in Commands
      BY <2>1, CallsOrIdle DEF Called, Call
    <3>2. QED
      BY <1>1, <1>2, <2>1, <3>1 DEF HeldInv, Limited, Bucket
  <2>2. QED
    BY <1>2, <2>1 DEF HeldInv, Limited, Called, Current, Bucket
<1>5. ASSUME NEW d \in Commands
      PROVE  /\ limit'[d] = Unset => answers'[d] = 0
             /\ (answers[d] + Left(d) <= Budget(d))'
  <2>1. Budget(d)' = Budget(d) /\ Budget(d) \in Int /\ Requests <= Budget(d)
    BY <1>2, Budgets DEF Budget, Allowance, Installing, Called
  <2>2. answers[d] \in Nat /\ Left(d) \in Nat /\ answers[d] + Left(d) <= Budget(d)
    BY DEF Left
  <2>3. CASE d = c
    <3>1. Left(d)' = Left(d) + 1 /\ Left(d) + 1 <= Requests /\ limit'[d] # Unset
      BY <1>1, <1>2, <2>3 DEF Left
    <3>2. answers'[d] = IF answers[d] > 0 THEN answers[d] - 1 ELSE 0
      BY <1>2, <2>3
    <3>3. QED
      BY <2>1, <2>2, <3>1, <3>2, Numbers
  <2>4. CASE d # c
    BY <1>2, <2>1, <2>2, <2>4 DEF Left
  <2>5. QED
    BY <2>3, <2>4
<1>6. QED
  BY <1>2, <1>3, <1>4, <1>5

\* What no limiter is part of.
LEMMA SameLimits ==
    ASSUME LimitInv, user' \in (0 .. UserRequests) \cup {Unset},
           UNCHANGED <<limit, handler, answers>>
    PROVE  LimitInv'
  BY DEF LimitInv, LimitTypeOK, HeldInv, Limited, Called, Current, Left, Budget, Allowance,
         Installing, Bucket

\* The bucket of the users' commands is not a command's own.
LEMMA RefillUserKeeps ==
    ASSUME LimitInv, RefillUser
    PROVE  LimitInv'
<1>1. user' \in (0 .. UserRequests) \cup {Unset}
  BY Numbers DEF RefillUser
<1>2. QED
  BY <1>1, SameLimits DEF RefillUser

\* A restart reads the limiters without buckets, and counts from the start.
LEMMA StartAgainKeeps ==
    ASSUME LimitInv, StartAgain
    PROVE  LimitInv'
<1> USE DEF StartAgain
<1>1. LimitTypeOK'
  BY DEF LimitInv, LimitTypeOK, Limited, Bucket
<1>2. HeldInv'
  BY DEF HeldInv
<1>3. ASSUME NEW c \in Commands
      PROVE  answers'[c] = 0 /\ Left(c)' = 0 /\ 0 <= Budget(c)'
  <2>1. Installing(c)' \in SUBSET Handlers
    BY DEF Installing
  <2>2. Budget(c)' = Allowance(Installing(c)')
    BY DEF Budget, Allowance
  <2>3. Budget(c)' \in Int /\ Requests <= Budget(c)'
    BY <2>1, <2>2, AllowanceGrows
  <2>4. limit'[c] \notin 0 .. Requests
    BY Markers DEF Limited, LimitInv, LimitTypeOK, Bucket
  <2>5. QED
    BY <2>3, <2>4, Numbers DEF Left
<1>4. QED
  BY <1>1, <1>2, <1>3 DEF LimitInv

\* One step of the whole table.
LEMMA LimitNextKeeps == LimitInv /\ [Next]_vars => LimitInv'
<1> SUFFICES ASSUME LimitInv, [Next]_vars PROVE LimitInv'
  OBVIOUS
<1>1. ASSUME NEW h \in Handlers, NEW n \in Keys, Message(h, n) PROVE LimitInv'
  BY <1>1, HearKeeps DEF Message
<1>2. ASSUME NEW c \in Commands, ModeratorStep(c) \/ DelCommand(c) PROVE LimitInv'
  <2>1. \E new \in {Gone, NoLimit, Requests} : Replaced(c, new)
    BY <1>2 DEF ModeratorStep, DelCommand, AddCommand, SetCommandLimiter, DelCommandLimiter,
                RemoveCommand
  <2>2. QED
    BY <2>1, ReplacedKeeps
<1>3. ASSUME NEW h \in Handlers, HandlerStep(h) PROVE LimitInv'
  BY <1>3, ReadRateKeeps, InstallRateKeeps, AllowKeeps DEF HandlerStep
<1>4. ASSUME NEW h \in Handlers, Panic(h) PROVE LimitInv'
  BY <1>4, StartAgainKeeps DEF Panic
<1>5. CASE TimeStep
  BY <1>5, RefillKeeps, RefillUserKeeps DEF TimeStep
<1>6. CASE AliasStep \/ UNCHANGED vars
  <2>1. user' \in (0 .. UserRequests) \cup {Unset} /\ UNCHANGED <<limit, handler, answers>>
    BY <1>6 DEF AliasStep, limitVars, vars, LimitInv, LimitTypeOK
  <2>2. QED
    BY <2>1, SameLimits
<1>7. CASE Restart
  BY <1>7, StartAgainKeeps DEF Restart
<1>8. QED
  BY <1>1, <1>2, <1>3, <1>4, <1>5, <1>6, <1>7 DEF Next

\* A bucket never holds more than its size, and no handler is lost.
THEOREM LimitTypes == Spec => []LimitTypeOK
<1>1. Init => LimitInv
  BY LimitInitInv DEF Init
<1>2. LimitInv => LimitTypeOK
  BY DEF LimitInv
<1>3. QED
  BY <1>1, <1>2, LimitNextKeeps, PTL DEF Spec

\* However many first calls race after a start, and whatever is deleted, set and
\* added while they do, a command answers no more often than its limiter allows
\* and once more for each message that is handled at once (ensureCmdLimiter).
THEOREM LimitHeld == Spec => []LimitHolds
<1>1. Init => LimitInv
  BY LimitInitInv DEF Init
<1>2. ASSUME LimitInv PROVE LimitHolds
  <2>1. ASSUME NEW c \in Commands
        PROVE  answers[c] <= Requests * (1 + Cardinality(Handlers))
    <3>1. answers[c] \in Nat /\ Left(c) \in Nat /\ answers[c] + Left(c) <= Budget(c)
      BY <1>2 DEF LimitInv, LimitTypeOK, Left
    <3>2. /\ Budget(c) \in Int /\ Requests * (1 + Cardinality(Handlers)) \in Int
          /\ Budget(c) <= Requests * (1 + Cardinality(Handlers))
      BY Budgets, Multiples, Numbers
    <3>3. QED
      BY <3>1, <3>2
  <2>2. QED
    BY <2>1 DEF LimitHolds
<1>3. QED
  BY <1>1, <1>2, LimitNextKeeps, PTL DEF Spec

-----------------------------------------------------------------------------
(* The aliases.                                                            *)

\* Single aliases added to a table.
Added(als, names, to) ==
    [n \in names \cup DOMAIN als |-> IF n \in names THEN to ELSE als[n]]

\* No single alias stands for itself.
SinglesDiffer(als) == \A n \in DOMAIN als : als[n] # n

\* What the trie replaces by itself is on record in the tables.
TrieDiffers(table, grps) ==
    \A n \in DOMAIN table :
        table[n] = n =>
            \/ \E g \in DOMAIN grps :
                  OfItself(grps, g) /\ grps[g].enabled /\ grps[g].original = n
            \/ n \in DOMAIN GlobalAliases /\ GlobalAliases[n] = n

DifferInv == SinglesDiffer(aliases) /\ TrieDiffers(installed, groups)

\* The names in a text are numbered from 1, if there are any.
LEMMA NamesAreListed ==
    ASSUME NEW words
    PROVE  DOMAIN NamesIn(words) \subseteq Nat \ {0}
  BY AliasAssumption DEF NamesIn

\* What is accepted is not what it is to stand for.
LEMMA AcceptedDiffers ==
    ASSUME NEW words, NEW original, NEW i \in Accepted(NamesIn(words), original)
    PROVE  NamesIn(words)[i] # original
<1>1. i \in DOMAIN NamesIn(words) /\ \A j \in 1 .. i : ~ Refused(NamesIn(words)[j], original)
  BY DEF Accepted
<1>2. i \in 1 .. i
  BY <1>1, NamesAreListed
<1>3. QED
  BY <1>1, <1>2 DEF Refused

\* What is added stands for what was looked up, and is not that.
LEMMA AddAliasDiffers ==
    ASSUME SinglesDiffer(aliases), NEW words, NEW original, AddAlias(words, original)
    PROVE  SinglesDiffer(aliases')
<1>1. PICK names, to :
        LET new == AcceptedAliases(NamesIn(names), to)
        IN  aliases' = Added(aliases, {NamesIn(names)[i] : i \in new}, Resolved(to))
  BY DEF AddAlias, Added
<1> DEFINE new == {NamesIn(names)[i] : i \in AcceptedAliases(NamesIn(names), to)}
<1>2. \A n \in new : n # Resolved(to)
  BY AcceptedDiffers DEF AcceptedAliases, AcceptedOnce
<1>3. aliases' = Added(aliases, new, Resolved(to))
  BY <1>1
<1> HIDE DEF new
<1>4. /\ DOMAIN aliases' = new \cup DOMAIN aliases
      /\ \A n \in new : aliases'[n] = Resolved(to)
      /\ \A n \in DOMAIN aliases \ new : aliases'[n] = aliases[n]
  BY <1>3 DEF Added
<1>5. QED
  BY <1>2, <1>4 DEF SinglesDiffer

\* Fewer aliases.
LEMMA FewerDiffer ==
    ASSUME SinglesDiffer(aliases), NEW S \in SUBSET DOMAIN aliases, aliases' = Restrict(aliases, S)
    PROVE  SinglesDiffer(aliases')
  BY DEF SinglesDiffer, Restrict

\* A group is made of itself by nothing but another original.
OnlyBySetting ==
    \A g \in DOMAIN groups' :
        OfItself(groups', g) /\ ~ OfItself(groups, g) =>
            g \in DOMAIN groups /\ groups'[g].original # groups[g].original

\* The trie is made anew, or stays while the groups lose nothing.
KeptOrMade ==
    \/ installed' \in Merged(aliases', groups')
    \/ /\ installed' = installed
       /\ \A g \in DOMAIN groups :
             /\ g \in DOMAIN groups'
             /\ groups'[g].enabled = groups[g].enabled
             /\ groups'[g].original = groups[g].original
             /\ groups[g].aliases \subseteq groups'[g].aliases

\* What a step may do to the tables.
SelfStep == SinglesDiffer(aliases') /\ OnlyBySetting /\ KeptOrMade

\* New names of a group are not what it stands for.
LEMMA AddAliasGroupDiffers ==
    ASSUME AliasTypeOK, SinglesDiffer(aliases), NEW g, NEW words, AddAliasGroup(g, words)
    PROVE  SelfStep
<1>1. PICK names, b :
        /\ g \in DOMAIN groups
        /\ groups' = [groups EXCEPT ![g].aliases = @ \cup
                        {NamesIn(names)[i] : i \in Accepted(NamesIn(names), groups[g].original)}]
        /\ aliases' = aliases
        /\ InstallIf(b)
  BY DEF AddAliasGroup
<1> DEFINE new == {NamesIn(names)[i] : i \in Accepted(NamesIn(names), groups[g].original)}
<1>2. \A n \in new : n # groups[g].original
  BY AcceptedDiffers
<1>3. groups' = [groups EXCEPT ![g].aliases = @ \cup new]
  BY <1>1
<1> HIDE DEF new
<1>4. /\ DOMAIN groups' = DOMAIN groups
      /\ groups'[g].aliases = groups[g].aliases \cup new
      /\ groups'[g].original = groups[g].original /\ groups'[g].enabled = groups[g].enabled
      /\ \A h \in DOMAIN groups \ {g} : groups'[h] = groups[h]
  BY <1>1, <1>3 DEF AliasTypeOK, Group
<1>5. OnlyBySetting
  BY <1>2, <1>4 DEF OnlyBySetting, OfItself
<1>6. KeptOrMade
  BY <1>1, <1>4 DEF KeptOrMade, InstallIf, Install
<1>7. QED
  BY <1>1, <1>5, <1>6 DEF SelfStep, SinglesDiffer

\* The other commands on groups make the trie anew; a group made has no names.
LEMMA GroupsDiffer ==
    ASSUME AliasTypeOK, SinglesDiffer(aliases), NEW g, NEW words, NEW b,
           \/ CreateAliasGroup(g, words) \/ SetAliasGroup(g, words)
           \/ DelAliasGroup(g, words) \/ OnOffAliasGroup(g, b)
    PROVE  SelfStep
<1>1. aliases' = aliases /\ Install
  BY DEF CreateAliasGroup, SetAliasGroup, DelAliasGroup, OnOffAliasGroup
<1>2. CASE CreateAliasGroup(g, words)
  <2>1. DOMAIN groups' = DOMAIN groups \cup {g} /\ groups'[g].aliases = {} /\ g \notin DOMAIN groups
    BY <1>2 DEF CreateAliasGroup
  <2>2. \A h \in DOMAIN groups : groups'[h] = groups[h]
    BY <1>2 DEF CreateAliasGroup
  <2>3. OnlyBySetting
    BY <2>1, <2>2 DEF OnlyBySetting, OfItself
  <2>4. QED
    BY <1>1, <2>3 DEF SelfStep, KeptOrMade, Install
<1>3. CASE SetAliasGroup(g, words)
  <2>1. PICK to : groups' = [groups EXCEPT ![g].original = to]
    BY <1>3 DEF SetAliasGroup
  <2>2. OnlyBySetting
    BY <2>1 DEF OnlyBySetting, OfItself, AliasTypeOK, Group
  <2>3. QED
    BY <1>1, <2>2 DEF SelfStep, KeptOrMade, Install
<1>4. CASE DelAliasGroup(g, words)
  <2>1. PICK gone : \/ groups' = Restrict(groups, DOMAIN groups \ {g})
                    \/ groups' = [groups EXCEPT ![g].aliases = @ \ gone]
    BY <1>4 DEF DelAliasGroup
  <2>2. OnlyBySetting
    BY <2>1 DEF OnlyBySetting, OfItself, AliasTypeOK, Group, Restrict
  <2>3. QED
    BY <1>1, <2>2 DEF SelfStep, KeptOrMade, Install
<1>5. CASE OnOffAliasGroup(g, b)
  <2>1. groups' = [groups EXCEPT ![g].enabled = b]
    BY <1>5 DEF OnOffAliasGroup
  <2>2. OnlyBySetting
    BY <2>1 DEF OnlyBySetting, OfItself, AliasTypeOK, Group
  <2>3. QED
    BY <1>1, <2>2 DEF SelfStep, KeptOrMade, Install
<1>6. QED
  BY <1>2, <1>3, <1>4, <1>5

\* Where the groups stay, the single aliases alone matter.
LEMMA SameGroups ==
    ASSUME SinglesDiffer(aliases'), groups' = groups,
           \/ installed' = installed
           \/ installed' \in Merged(aliases', groups')
    PROVE  SelfStep
<1>1. OnlyBySetting
  BY DEF OnlyBySetting, OfItself
<1>2. KeptOrMade
  BY DEF KeptOrMade
<1>3. QED
  BY <1>1, <1>2 DEF SelfStep

\* Every step of the whole table.
LEMMA StepsDiffer ==
    ASSUME AliasTypeOK, DifferInv, [Next]_vars
    PROVE  SelfStep
<1> USE DEF DifferInv
<1>1. ASSUME NEW c \in Commands, DelCommand(c) PROVE SelfStep
  <2>1. PICK S \in SUBSET DOMAIN aliases : aliases' = Restrict(aliases, S)
    BY <1>1 DEF DelCommand, ForgetAliasesOf
  <2>2. groups' = groups /\ installed' = installed
    BY <1>1 DEF DelCommand, ForgetAliasesOf
  <2>3. QED
    BY <2>1, <2>2, FewerDiffer, SameGroups
<1>2. CASE AliasStep
  <2>1. ASSUME NEW words, NEW original, AddAlias(words, original) PROVE SelfStep
    <3>1. SinglesDiffer(aliases')
      BY <2>1, AddAliasDiffers
    <3>2. groups' = groups /\ \E b : InstallIf(b)
      BY <2>1 DEF AddAlias
    <3>3. QED
      BY <3>1, <3>2, SameGroups DEF InstallIf, Install
  <2>2. ASSUME NEW words, DelAlias(words) PROVE SelfStep
    <3>1. PICK S \in SUBSET DOMAIN aliases : aliases' = Restrict(aliases, S)
      BY <2>2 DEF DelAlias
    <3>2. groups' = groups /\ installed' \in Merged(aliases', groups')
      BY <2>2 DEF DelAlias, Install
    <3>3. QED
      BY <3>1, <3>2, FewerDiffer, SameGroups
  <2>3. QED
    BY <1>2, <2>1, <2>2, AddAliasGroupDiffers, GroupsDiffer DEF AliasStep, AliasCommand
<1>3. CASE Reload
  BY <1>3, SameGroups DEF Reload, Install
<1>4. CASE UNCHANGED aliasVars
  BY <1>4, SameGroups DEF aliasVars
<1>5. QED
  BY <1>1, <1>2, <1>3, <1>4 DEF Next, Message, ModeratorStep, HandlerStep, Panic, TimeStep,
                                Restart, vars

\* A trie made of such tables is on record in them, and stays so.
LEMMA TrieStaysOnRecord ==
    ASSUME DifferInv, SelfStep
    PROVE  TrieDiffers(installed', groups')
<1>1. ASSUME NEW n \in DOMAIN installed', installed'[n] = n
      PROVE  \/ \E g \in DOMAIN groups' :
                   OfItself(groups', g) /\ groups'[g].enabled /\ groups'[g].original = n
             \/ n \in DOMAIN GlobalAliases /\ GlobalAliases[n] = n
  <2>1. CASE installed' \in Merged(aliases', groups')
    <3> DEFINE on    == {g \in DOMAIN groups' : groups'[g].enabled}
               named == UNION {groups'[g].aliases : g \in on}
    <3>1. PICK p \in [named -> on] :
            /\ \A x \in named : x \in groups'[p[x]].aliases
            /\ installed' = [x \in named \cup DOMAIN aliases' \cup DOMAIN GlobalAliases |->
                               IF x \in named THEN groups'[p[x]].original
                               ELSE IF x \in DOMAIN aliases' THEN aliases'[x] ELSE GlobalAliases[x]]
      BY <2>1 DEF Merged
    <3>2. CASE n \in named
      <4>1. p[n] \in on /\ n \in groups'[p[n]].aliases /\ groups'[p[n]].original = n
        BY <1>1, <3>1, <3>2
      <4>2. QED
        BY <4>1 DEF OfItself
    <3>3. CASE n \notin named
      <4>1. n \notin DOMAIN aliases'
        BY <1>1, <3>1, <3>3 DEF SelfStep, SinglesDiffer
      <4>2. QED
        BY <1>1, <3>1, <3>3, <4>1
    <3>4. QED
      BY <3>2, <3>3
  <2>2. CASE installed' = installed /\ installed' \notin Merged(aliases', groups')
    <3>1. \A g \in DOMAIN groups :
            /\ g \in DOMAIN groups'
            /\ groups'[g].enabled = groups[g].enabled /\ groups'[g].original = groups[g].original
            /\ groups[g].aliases \subseteq groups'[g].aliases
      BY <2>2 DEF SelfStep, KeptOrMade
    <3>2. QED
      BY <1>1, <2>2, <3>1 DEF DifferInv, TrieDiffers, OfItself
  <2>3. QED
    BY <2>1, <2>2 DEF SelfStep, KeptOrMade
<1>2. QED
  BY <1>1 DEF TrieDiffers

\* The trie is made anew of the tables, or what it was made of is what they still
\* are, or the change is on record.
Follows ==
    \/ installed' \in Merged(aliases', groups')
    \/ ~ stale' => ~ stale /\ UNCHANGED <<aliases, groups, installed>>

\* Such a step keeps the trie in step.
LEMMA FollowsKeeps == TrieFollowsTables /\ Follows => TrieFollowsTables'
<1> SUFFICES ASSUME TrieFollowsTables, Follows, ~ stale'
             PROVE  installed' \in Merged(aliases, groups)'
  BY DEF TrieFollowsTables
<1>1. Merged(aliases, groups)' = Merged(aliases', groups')
  BY DEF Merged
<1>2. CASE ~ stale /\ UNCHANGED <<aliases, groups, installed>>
  BY <1>2 DEF TrieFollowsTables
<1>3. QED
  BY <1>1, <1>2 DEF Follows

\* Tables that are installed, or recorded as not, are followed.
LEMMA InstallFollows == ASSUME NEW b, InstallIf(b) PROVE Follows
  BY DEF InstallIf, Install, Follows

\* So they are after every command on aliases.
LEMMA AliasCommandFollows == AliasCommand => Follows
<1>1. Install => Follows
  BY DEF Install, Follows
<1>2. \A words, original : AddAlias(words, original) => Follows
  BY InstallFollows DEF AddAlias
<1>3. \A g, words : AddAliasGroup(g, words) => Follows
  BY InstallFollows DEF AddAliasGroup
<1>4. QED
  BY <1>1, <1>2, <1>3 DEF AliasCommand, DelAlias, DelAliasGroup, CreateAliasGroup,
                          SetAliasGroup, OnOffAliasGroup

\* After every sequence of commands, rewritten as they may be, the trie is what
\* the tables say, but where a command's deletion or a refused name has left it
\* behind (DelCommand and AddAlias do not come to the line that installs it).
THEOREM TrieFollows == Spec => []TrieFollowsTables
<1>1. Init => TrieFollowsTables
  BY DEF Init, AliasInit, TrieFollowsTables
<1>2. [Next]_vars => Follows
  <2> SUFFICES ASSUME [Next]_vars PROVE Follows
    OBVIOUS
  <2>1. ASSUME NEW c \in Commands, DelCommand(c) PROVE Follows
    BY <2>1 DEF DelCommand, ForgetAliasesOf, Follows
  <2>2. CASE AliasStep
    BY <2>2, AliasCommandFollows DEF AliasStep
  <2>3. CASE Reload
    BY <2>3 DEF Reload, Install, Follows
  <2>4. CASE UNCHANGED aliasVars
    BY <2>4 DEF aliasVars, Follows
  <2>5. QED
    BY <2>1, <2>2, <2>3, <2>4 DEF Next, Message, ModeratorStep, HandlerStep, Panic, TimeStep,
                                  Restart, vars
<1>3. QED
  BY <1>1, <1>2, FollowsKeeps, PTL DEF Spec

-----------------------------------------------------------------------------
(* The phrases.                                                            *)

\* Some number of a set that is bounded is the largest.
LEMMA LargestExists ==
    ASSUME NEW n \in Nat, NEW T \in SUBSET (0 .. n), T # {}
    PROVE  \E m \in T : \A k \in T : k <= m
<1> DEFINE R == {ss \in Nat \X Nat : ss[1] < ss[2]}
           D == {n - k : k \in T}
<1>1. IsWellFoundedOn(R, Nat)
  BY NatLessThanWellFounded DEF OpToRel
<1>2. D \subseteq Nat /\ D # {}
  <2>1. \A k \in T : n - k \in Nat
    OBVIOUS
  <2>2. QED
    BY <2>1
<1> HIDE DEF R, D
<1>3. PICK x \in D : \A y \in D : ~ (<<y, x>> \in R)
  BY <1>1, <1>2, WFMin
<1>4. \A y \in D : x <= y
  <2>1. ASSUME NEW y \in D PROVE x <= y
    <3>1. x \in Nat /\ y \in Nat /\ ~ (<<y, x>> \in R)
      BY <1>2, <1>3, <2>1
    <3>2. ~ (y < x)
      BY <3>1 DEF R
    <3>3. QED
      BY <3>1, <3>2
  <2>2. QED
    BY <2>1
<1>5. PICK m \in T : x = n - m
  BY DEF D
<1>6. ASSUME NEW k \in T PROVE k <= m
  <2>1. n - k \in D
    BY DEF D
  <2>2. QED
    BY <1>4, <1>5, <2>1
<1>7. QED
  BY <1>6

\* The places where an alias of the table stands among the words.
Found(table, parts) ==
    {f \in (1 .. Len(parts)) \X DOMAIN table :
        /\ f[1] + Len(f[2]) <= Len(parts) + 1
        /\ SubSeq(parts, f[1], f[1] + Len(f[2]) - 1) = f[2]}

\* A table of phrases makes of words words.
LEMMA ReplaceSays ==
    ASSUME NEW table, table \in [DOMAIN table -> Phrase], DOMAIN table \subseteq Phrase,
           NEW parts \in Seq(Words)
    PROVE  Replace(table, parts) \in Seq(Words)
<1> DEFINE found  == Found(table, parts)
           starts == {f[1] : f \in found}
           start  == CHOOSE i \in starts : \A f \in found : f[1] <= i
           there  == {f[2] : f \in {f \in found : f[1] = start}}
           best   == CHOOSE name \in there :
                        \A f \in found : f[1] = start => Len(f[2]) <= Len(name)
<1>1. CASE found = {}
  BY <1>1 DEF Replace, Found
<1>2. CASE found # {}
  <2>1. found \subseteq (1 .. Len(parts)) \X DOMAIN table
    BY DEF Found
  <2>2. \A f \in found : /\ f[1] \in 1 .. Len(parts) /\ f[2] \in DOMAIN table
                         /\ Len(f[2]) \in 0 .. Len(parts)
    BY <2>1 DEF Found, Phrase
  <2> HIDE DEF found
  <2>3. start \in starts /\ start \in 1 .. Len(parts)
    <3>1. starts \in SUBSET (0 .. Len(parts)) /\ starts # {} /\ Len(parts) \in Nat
      BY <1>2, <2>2
    <3> HIDE DEF starts
    <3>2. \E i \in starts : \A k \in starts : k <= i
      BY <3>1, LargestExists
    <3> USE DEF starts
    <3>3. \E i \in starts : \A f \in found : f[1] <= i
      BY <3>2
    <3>4. start \in starts
      BY <3>3
    <3>5. QED
      BY <2>2, <3>4
  <2>4. best \in DOMAIN table
    <3> DEFINE sizes == {Len(name) : name \in there}
    <3> HIDE DEF start
    <3>1. there # {} /\ \A name \in there : name \in DOMAIN table /\ Len(name) \in 0 .. Len(parts)
      BY <2>2, <2>3
    <3>2. sizes \in SUBSET (0 .. Len(parts)) /\ sizes # {} /\ Len(parts) \in Nat
      <4>1. Len(parts) \in Nat
        OBVIOUS
      <4> HIDE DEF there
      <4>2. QED
        BY <3>1, <4>1
    <3>3. \E m \in sizes : \A k \in sizes : k <= m
      <4> HIDE DEF sizes
      <4>1. QED
        BY <3>2, LargestExists
    <3>4. \E name \in there : \A f \in found : f[1] = start => Len(f[2]) <= Len(name)
      BY <3>3
    <3>5. best \in there
      BY <3>4
    <3>6. QED
      BY <3>1, <3>5
  <2>5. Replace(table, parts) = SubSeq(parts, 1, start - 1) \o table[best]
                                  \o SubSeq(parts, start + Len(best), Len(parts))
    BY <1>2 DEF Replace, found, Found
  <2> HIDE DEF start, best
  <2>6. table[best] \in Seq(Words) /\ best \in Seq(Words)
    BY <2>4 DEF Phrase
  <2>7. /\ SubSeq(parts, 1, start - 1) \in Seq(Words)
        /\ SubSeq(parts, start + Len(best), Len(parts)) \in Seq(Words)
    BY <2>3, <2>6
  <2>8. QED
    BY <2>5, <2>6, <2>7
<1>3. QED
  BY <1>1, <1>2

\* What is heard of a command is words.
LEMMA HeardSays ==
    ASSUME AliasTypeOK, NEW head \in Seq(Words), NEW args \in Seq(Words)
    PROVE  Heard(head, args).args \in Seq(Words)
<1> DEFINE parts == Replace(installed, head \o args)
<1>1. parts \in Seq(Words)
  <2>1. installed \in [DOMAIN installed -> Phrase] /\ DOMAIN installed \subseteq Phrase
    BY DEF AliasTypeOK
  <2>2. head \o args \in Seq(Words)
    OBVIOUS
  <2>3. QED
    BY <2>1, <2>2, ReplaceSays
<1> HIDE DEF parts
<1>2. SubSeq(parts, Len(head) + 1, Len(parts)) \in Seq(Words)
  BY <1>1
<1>3. QED
  BY <1>2 DEF Heard, parts

\* The names in a text are phrases, and so are those of them that are accepted.
LEMMA NamesSay ==
    ASSUME NEW words \in Phrase
    PROVE  /\ NamesIn(words) \in Seq(Phrase)
           /\ \A original : \A i \in Accepted(NamesIn(words), original) : NamesIn(words)[i] \in Phrase
<1>1. NamesIn(words) \in Seq(Phrase)
  BY AliasAssumption DEF NamesIn
<1>2. QED
  BY <1>1 DEF Accepted

\* What words are, if there are any.
LEMMA SomeWords ==
    ASSUME NEW words \in Seq(Words)
    PROVE  /\ words # <<>> => words \in Phrase
           /\ Len(words) > 0 => words \in Phrase
  BY DEF Phrase

\* A "!" before a phrase leaves a phrase.
LEMMA CommandSays ==
    ASSUME NEW original \in Phrase
    PROVE  AsCommand(original) \in Phrase
<1>1. original \in Seq(Words) /\ Len(original) \in Nat \ {0}
  BY DEF Phrase
<1>2. original[1] \in Words /\ Banged[original[1]] \in Words
  BY <1>1, AliasAssumption
<1>3. AsCommand(original) \in Seq(Words) /\ Len(AsCommand(original)) = Len(original)
  BY <1>1, <1>2 DEF AsCommand
<1>4. QED
  BY <1>1, <1>3, SomeWords

\* The two tables are of phrases.
TablesSay(als, grps) ==
    /\ als \in [DOMAIN als -> Phrase] /\ DOMAIN als \subseteq Phrase
    /\ grps \in [DOMAIN grps -> Group] /\ DOMAIN grps \subseteq GroupNames

\* Tables of phrases merge to tables of phrases.
LEMMA MergedSays ==
    ASSUME NEW als, NEW grps, TablesSay(als, grps), NEW table \in Merged(als, grps)
    PROVE  table \in [DOMAIN table -> Phrase] /\ DOMAIN table \subseteq Phrase
<1> DEFINE on    == {g \in DOMAIN grps : grps[g].enabled}
           named == UNION {grps[g].aliases : g \in on}
           all   == named \cup DOMAIN als \cup DOMAIN GlobalAliases
           value(p, n) == IF n \in named THEN grps[p[n]].original
                          ELSE IF n \in DOMAIN als THEN als[n] ELSE GlobalAliases[n]
<1>1. PICK p \in [named -> on] : table = [n \in all |-> value(p, n)]
  BY DEF Merged
<1>2. \A g \in on : grps[g].aliases \subseteq Phrase /\ grps[g].original \in Phrase
  BY DEF TablesSay, Group
<1>3. /\ als \in [DOMAIN als -> Phrase] /\ DOMAIN als \subseteq Phrase
      /\ GlobalAliases \in [DOMAIN GlobalAliases -> Phrase] /\ DOMAIN GlobalAliases \subseteq Phrase
  BY AliasAssumption DEF TablesSay
<1>4. named \subseteq Phrase /\ \A n \in named : grps[p[n]].original \in Phrase
  BY <1>2
<1> HIDE DEF named, on
<1>5. all \subseteq Phrase /\ \A n \in all : value(p, n) \in Phrase
  BY <1>3, <1>4
<1>6. QED
  BY <1>1, <1>5

\* What is installed of such tables, or stays installed, is of phrases.
LEMMA InstalledSays ==
    ASSUME AliasTypeOK, TablesSay(aliases', groups'), stale' \in BOOLEAN,
           installed' = installed \/ installed' \in Merged(aliases', groups')
    PROVE  AliasTypeOK'
<1>1. installed' \in [DOMAIN installed' -> Phrase] /\ DOMAIN installed' \subseteq Phrase
  <2>1. CASE installed' = installed
    BY <2>1 DEF AliasTypeOK
  <2>2. CASE installed' \in Merged(aliases', groups')
    BY <2>2, MergedSays
  <2>3. QED
    BY <2>1, <2>2
<1>2. QED
  BY <1>1 DEF AliasTypeOK, TablesSay

\* Both ways of ending a command do.
LEMMA InstallSays ==
    ASSUME AliasTypeOK, TablesSay(aliases', groups'), Install \/ \E b : InstallIf(b)
    PROVE  AliasTypeOK'
<1>1. CASE Install
  BY <1>1, InstalledSays DEF Install
<1>2. ASSUME NEW b, InstallIf(b) PROVE AliasTypeOK'
  <2>1. CASE b
    BY <1>2, <2>1, InstalledSays DEF InstallIf, Install
  <2>2. CASE ~ b
    <3>1. installed' = installed /\ stale' \in BOOLEAN
      BY <1>2, <2>2 DEF InstallIf, AliasTypeOK
    <3>2. QED
      BY <3>1, InstalledSays
  <2>3. QED
    BY <2>1, <2>2
<1>3. QED
  BY <1>1, <1>2

\* A few members of a set are a sequence over it.
LEMMA ShortSequences ==
    ASSUME NEW S, NEW t \in S, NEW u \in S, NEW v \in S, NEW w \in S
    PROVE  <<>> \in Seq(S) /\ <<t>> \in Seq(S) /\ <<t, u, v>> \in Seq(S) /\ <<t, u, v, w>> \in Seq(S)
  OBVIOUS

\* The words a command is written with.
LEMMA HeadsSay ==
    /\ <<"from">> \in Seq(Words) /\ <<"!am", "al", "add">> \in Seq(Words)
    /\ \A g \in GroupNames, w \in {"create", "add", "set", "del", "on", "off"} :
           <<"!am", "alg", w, g>> \in Seq(Words)
<1>1. /\ "!am" \in Words /\ "al" \in Words /\ "alg" \in Words /\ "from" \in Words
      /\ "add" \in Words
      /\ {"create", "add", "set", "del", "on", "off"} \subseteq Words /\ GroupNames \subseteq Words
  BY AliasAssumption DEF Keywords
<1>2. QED
  BY <1>1, ShortSequences

\* Whatever a new alias has become by the rewriting of its command, the name and
\* what it stands for are phrases.
LEMMA AddAliasSays ==
    ASSUME AliasTypeOK, NEW words \in Phrase, NEW original \in Phrase, AddAlias(words, original)
    PROVE  AliasTypeOK'
<1> DEFINE args  == words \o <<"from">> \o original
           said  == Heard(<<"!am", "al", "add">>, args)
           froms == {i \in 2 .. Len(said.args) - 1 : said.args[i] = "from"}
           from  == CHOOSE i \in froms : \A j \in froms : j <= i
           name  == SubSeq(said.args, 1, from - 1)
           rest  == SubSeq(said.args, from + 1, Len(said.args))
           to    == AsCommand(rest)
           added == {NamesIn(name)[i] : i \in AcceptedAliases(NamesIn(name), to)}
<1>1. said.args \in Seq(Words)
  <2>1. <<"!am", "al", "add">> \in Seq(Words) /\ <<"from">> \in Seq(Words)
    BY HeadsSay
  <2>2. args \in Seq(Words)
    BY <2>1 DEF Phrase
  <2> HIDE DEF args
  <2>3. QED
    BY <2>1, <2>2, HeardSays
<1>2. /\ froms # {}
      /\ aliases' = [n \in added \cup DOMAIN aliases |->
                       IF n \in added THEN Resolved(to) ELSE aliases[n]]
      /\ groups' = groups /\ \E b : InstallIf(b)
  BY DEF AddAlias
<1> HIDE DEF said
<1>3. from \in 2 .. Len(said.args) - 1
  <2>1. Len(said.args) \in Nat /\ froms \in SUBSET (0 .. Len(said.args))
    BY <1>1
  <2> HIDE DEF froms
  <2>2. \E i \in froms : \A j \in froms : j <= i
    BY <1>2, <2>1, LargestExists
  <2>3. from \in froms
    BY <2>2
  <2>4. QED
    BY <2>3 DEF froms
<1> HIDE DEF from, froms
<1>4. name \in Phrase /\ rest \in Phrase
  <2>1. name \in Seq(Words) /\ Len(name) = from - 1 /\ from - 1 > 0
    BY <1>1, <1>3
  <2>2. rest \in Seq(Words) /\ Len(rest) = Len(said.args) - from /\ Len(said.args) - from > 0
    BY <1>1, <1>3
  <2> HIDE DEF name, rest
  <2>3. QED
    BY <2>1, <2>2, SomeWords
<1> HIDE DEF name, rest
<1>5. Resolved(to) \in Phrase
  BY <1>4, CommandSays DEF Resolved, AliasTypeOK
<1>6. added \subseteq Phrase
  BY <1>4, NamesSay DEF AcceptedAliases, AcceptedOnce
<1> HIDE DEF added
<1>7. TablesSay(aliases', groups')
  BY <1>2, <1>5, <1>6 DEF TablesSay, AliasTypeOK
<1>8. QED
  BY <1>2, <1>7, InstallSays

\* A command that takes single aliases away.
LEMMA DelAliasSays ==
    ASSUME AliasTypeOK, NEW words, DelAlias(words)
    PROVE  AliasTypeOK'
<1>1. TablesSay(aliases', groups') /\ Install
  BY DEF DelAlias, Restrict, TablesSay, AliasTypeOK
<1>2. QED
  BY <1>1, InstallSays

\* Commands on groups.
LEMMA GroupCommandsSay ==
    ASSUME AliasTypeOK, NEW g \in GroupNames, NEW words \in Seq(Words), NEW b \in BOOLEAN,
           \/ CreateAliasGroup(g, words) \/ AddAliasGroup(g, words)
           \/ SetAliasGroup(g, words) \/ DelAliasGroup(g, words) \/ OnOffAliasGroup(g, b)
    PROVE  AliasTypeOK'
<1>1. \A w \in {"create", "add", "set", "del", "on", "off"} :
         Heard(<<"!am", "alg", w, g>>, words).args \in Seq(Words)
  BY HeadsSay, HeardSays
<1>3. CASE CreateAliasGroup(g, words)
  <2> DEFINE said == Heard(<<"!am", "alg", "create", g>>, words).args
             to   == AsCommand(said)
  <2>1. to \in Phrase
    <3>1. said \in Seq(Words)
      BY <1>1
    <3>2. said # <<>>
      BY <1>3 DEF CreateAliasGroup
    <3>3. said \in Phrase
      BY <3>1, <3>2 DEF Phrase
    <3> HIDE DEF said
    <3>4. QED
      BY <3>3, CommandSays
  <2>2. /\ groups' = [h \in DOMAIN groups \cup {g} |->
                        IF h \in DOMAIN groups THEN groups[h]
                        ELSE [enabled |-> TRUE, aliases |-> {}, original |-> to]]
        /\ aliases' = aliases /\ Install
    BY <1>3 DEF CreateAliasGroup
  <2> HIDE DEF to
  <2>3. TablesSay(aliases', groups')
    BY <2>1, <2>2 DEF TablesSay, AliasTypeOK, Group
  <2>4. QED
    BY <2>2, <2>3, InstallSays
<1>4. CASE AddAliasGroup(g, words)
  <2> DEFINE names == NamesIn(Heard(<<"!am", "alg", "add", g>>, words).args)
             added == {names[i] : i \in Accepted(names, groups[g].original)}
  <2>1. added \subseteq Phrase
    <3>1. Heard(<<"!am", "alg", "add", g>>, words).args \in Phrase
      <4>1. Heard(<<"!am", "alg", "add", g>>, words).args \in Seq(Words)
        BY <1>1
      <4>2. Heard(<<"!am", "alg", "add", g>>, words).args # <<>>
        BY <1>4 DEF AddAliasGroup
      <4>3. QED
        BY <4>1, <4>2 DEF Phrase
    <3>2. QED
      BY <3>1, NamesSay
  <2>2. /\ groups' = [groups EXCEPT ![g].aliases = @ \cup added]
        /\ aliases' = aliases /\ \E x : InstallIf(x)
    BY <1>4 DEF AddAliasGroup
  <2> HIDE DEF added
  <2>3. TablesSay(aliases', groups')
    BY <2>1, <2>2 DEF TablesSay, AliasTypeOK, Group
  <2>4. QED
    BY <2>2, <2>3, InstallSays
<1>5. CASE SetAliasGroup(g, words)
  <2> DEFINE said == Heard(<<"!am", "alg", "set", g>>, words).args
             to   == AsCommand(said)
  <2>1. to \in Phrase
    <3>1. said \in Seq(Words)
      BY <1>1
    <3>2. said # <<>>
      BY <1>5 DEF SetAliasGroup
    <3>3. said \in Phrase
      BY <3>1, <3>2 DEF Phrase
    <3> HIDE DEF said
    <3>4. QED
      BY <3>3, CommandSays
  <2>2. /\ groups' = [groups EXCEPT ![g].original = to]
        /\ aliases' = aliases /\ Install
    BY <1>5 DEF SetAliasGroup
  <2> HIDE DEF to
  <2>3. TablesSay(aliases', groups')
    BY <2>1, <2>2 DEF TablesSay, AliasTypeOK, Group
  <2>4. QED
    BY <2>2, <2>3, InstallSays
<1>6. CASE DelAliasGroup(g, words)
  <2>1. PICK gone :
          /\ \/ groups' = Restrict(groups, DOMAIN groups \ {g})
             \/ groups' = [groups EXCEPT ![g].aliases = @ \ gone]
          /\ aliases' = aliases /\ Install
    BY <1>6 DEF DelAliasGroup
  <2>2. TablesSay(aliases', groups')
    BY <2>1 DEF TablesSay, AliasTypeOK, Group, Restrict
  <2>3. QED
    BY <2>1, <2>2, InstallSays
<1>7. CASE OnOffAliasGroup(g, b)
  <2>1. TablesSay(aliases', groups') /\ Install
    BY <1>7 DEF OnOffAliasGroup, TablesSay, AliasTypeOK, Group
  <2>2. QED
    BY <2>1, InstallSays
<1>8. QED
  BY <1>3, <1>4, <1>5, <1>6, <1>7

\* Every command on aliases.
LEMMA AliasCommandSays ==
    ASSUME AliasTypeOK, AliasCommand
    PROVE  AliasTypeOK'
<1>1. Originals \subseteq Phrase /\ Names \cup {<<l>> : l \in DOMAIN Lists} \subseteq Phrase
  <2>1. ASSUME NEW l \in DOMAIN Lists PROVE <<l>> \in Phrase
    <3>1. <<l>> \in Seq(Words) /\ <<l>> # <<>>
      BY AliasAssumption
    <3>2. QED
      BY <3>1 DEF Phrase
  <2>2. QED
    BY <2>1, AliasAssumption
<1>2. Phrase \subseteq Seq(Words) /\ <<>> \in Seq(Words)
  BY DEF Phrase
<1>3. ASSUME NEW words \in Names \cup {<<l>> : l \in DOMAIN Lists}, NEW original \in Originals,
             AddAlias(words, original)
      PROVE  AliasTypeOK'
  BY <1>1, <1>3, AddAliasSays
<1>4. ASSUME NEW words \in Names \cup {<<l>> : l \in DOMAIN Lists}, DelAlias(words)
      PROVE  AliasTypeOK'
  BY <1>1, <1>2, <1>4, DelAliasSays
<1>5. ASSUME NEW g \in GroupNames,
             NEW words \in Names \cup {<<l>> : l \in DOMAIN Lists} \cup Originals \cup {<<>>},
             NEW enabled \in BOOLEAN,
             \/ CreateAliasGroup(g, words) \/ AddAliasGroup(g, words)
             \/ SetAliasGroup(g, words) \/ DelAliasGroup(g, words) \/ OnOffAliasGroup(g, enabled)
      PROVE  AliasTypeOK'
  <2>1. words \in Seq(Words)
    BY <1>1, <1>2
  <2>2. QED
    BY <1>5, <2>1, GroupCommandsSay
<1>6. QED
  BY <1>3, <1>4, <1>5 DEF AliasCommand

\* One step of the whole table.
LEMMA AliasNextSays == AliasTypeOK /\ [Next]_vars => AliasTypeOK'
<1> SUFFICES ASSUME AliasTypeOK, [Next]_vars PROVE AliasTypeOK'
  OBVIOUS
<1>1. ASSUME NEW c \in Commands, DelCommand(c) PROVE AliasTypeOK'
  <2>1. TablesSay(aliases', groups') /\ installed' = installed /\ stale' \in BOOLEAN
    BY <1>1 DEF DelCommand, ForgetAliasesOf, Restrict, TablesSay, AliasTypeOK
  <2>2. QED
    BY <2>1, InstalledSays
<1>2. CASE AliasStep
  BY <1>2, AliasCommandSays DEF AliasStep
<1>3. CASE Reload
  <2>1. TablesSay(aliases', groups') /\ Install
    BY <1>3 DEF Reload, TablesSay, AliasTypeOK
  <2>2. QED
    BY <2>1, InstallSays
<1>4. CASE UNCHANGED aliasVars
  BY <1>4 DEF aliasVars, AliasTypeOK
<1>5. QED
  BY <1>1, <1>2, <1>3, <1>4 DEF Next, Message, ModeratorStep, HandlerStep, Panic, TimeStep,
                                Restart, vars

\* The tables and the trie hold phrases only, none of them empty, however the
\* commands that fill them are rewritten by what they hold; buckets hold no more
\* than their size.
THEOREM CommandTableTypes == Spec => []TypeOK
<1>1. Init => AliasTypeOK
  <2> SUFFICES ASSUME Init PROVE AliasTypeOK
    OBVIOUS
  <2>1. TablesSay(aliases, groups) /\ installed \in Merged(aliases, groups) /\ stale = FALSE
    BY DEF Init, AliasInit, TablesSay
  <2>2. installed \in [DOMAIN installed -> Phrase] /\ DOMAIN installed \subseteq Phrase
    BY <2>1, MergedSays
  <2>3. QED
    BY <2>1, <2>2 DEF AliasTypeOK, TablesSay
<1>2. Spec => []LimitTypeOK
  BY LimitTypes
<1>3. QED
  BY <1>1, <1>2, AliasNextSays, PTL DEF Spec, TypeOK

\* What a step does to aliases that stand for themselves.
SelfAliasStep ==
    /\ \A n \in DOMAIN aliases' : aliases'[n] # n
    /\ OnlyBySetting
    /\ TrieDiffers(installed', groups')

\* The invariant behind it is kept.
LEMMA DifferNext == AliasTypeOK /\ DifferInv /\ [Next]_vars => DifferInv' /\ SelfAliasStep
<1> SUFFICES ASSUME AliasTypeOK, DifferInv, [Next]_vars PROVE DifferInv' /\ SelfAliasStep
  OBVIOUS
<1>1. SelfStep
  BY StepsDiffer
<1>2. TrieDiffers(installed', groups')
  BY <1>1, TrieStaysOnRecord
<1>3. QED
  BY <1>1, <1>2 DEF SelfStep, DifferInv, SelfAliasStep, SinglesDiffer, TrieDiffers, OfItself

\* No single alias ever stands for itself: AddAlias looks its original up before it
\* compares, so neither an original that is an alias, nor one that the rewriting of
\* the command has put there, gets past it.  A group's alias does only once the
\* group's original is set to it, which SetAliasGroup does not refuse; and the trie
\* replaces by itself only what such a group, or a global alias, tells it to.
THEOREM SelfAliasOnlyBySetting == Spec => SelfAliasOnlyBySet
<1>1. Init => DifferInv
  <2> SUFFICES ASSUME Init PROVE DifferInv
    OBVIOUS
  <2>1. aliases = <<>> /\ groups = <<>> /\ installed \in Merged(aliases, groups)
    BY DEF Init, AliasInit
  <2>2. \A n \in DOMAIN installed : n \in DOMAIN GlobalAliases /\ installed[n] = GlobalAliases[n]
    <3>1. DOMAIN aliases = {} /\ DOMAIN groups = {}
      BY <2>1
    <3>2. UNION {groups[g].aliases : g \in {g \in DOMAIN groups : groups[g].enabled}} = {}
      BY <3>1
    <3> DEFINE named == UNION {groups[g].aliases : g \in {g \in DOMAIN groups : groups[g].enabled}}
    <3>3. PICK p : installed = [n \in named \cup DOMAIN aliases \cup DOMAIN GlobalAliases |->
                                 IF n \in named THEN groups[p[n]].original
                                 ELSE IF n \in DOMAIN aliases THEN aliases[n] ELSE GlobalAliases[n]]
      BY <2>1, Zenon DEF Merged
    <3>4. named = {}
      BY <3>2
    <3> HIDE DEF named
    <3>5. QED
      BY <3>1, <3>3, <3>4
  <2>3. QED
    BY <2>1, <2>2 DEF DifferInv, SinglesDiffer, TrieDiffers
<1>2. Spec => []AliasTypeOK
  BY CommandTableTypes, PTL DEF TypeOK
<1>3. AliasTypeOK /\ DifferInv /\ [Next]_vars => [SelfAliasStep]_aliasVars
  BY DifferNext
<1>4. Spec => [][SelfAliasStep]_aliasVars
  BY <1>1, <1>2, <1>3, DifferNext, PTL DEF Spec
<1>5. SelfAliasOnlyBySet <=> [][SelfAliasStep]_aliasVars
  BY DEF SelfAliasOnlyBySet, SelfAliasStep, OnlyBySetting, TrieDiffers
<1>6. QED
  BY <1>4, <1>5
==============================================================================
