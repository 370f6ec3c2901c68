---------------------------- MODULE Trusts_proofs ----------------------------
(* Theorems about Trusts, for every set of users, roles and scopes.        *)
EXTENDS Trusts, TLAPS

(***************************************************************************)
(* Types.  The tables are functions over varying domains, so each lemma    *)
(* says what one helper returns.                                           *)
(***************************************************************************)

\* A user's mask is a set of scopes.
LEMMA CalcUserMaskType ==
    ASSUME NEW rm, IsTable(rm, RoleNames, SUBSET Scopes), NEW t \in Entry
    PROVE  CalcUserMask(rm, t) \in SUBSET Scopes
BY DEF CalcUserMask, IsTable, Entry

\* The masks start-up computes are a table of users.
LEMMA UserMasksType ==
    ASSUME NEW rm, IsTable(rm, RoleNames, SUBSET Scopes),
           NEW ts, IsTable(ts, Users, Entry)
    PROVE  IsTable(UserMasks(rm, ts), Users, SUBSET Scopes)
BY CalcUserMaskType DEF UserMasks, IsTable

\* The role masks start-up computes are a table of roles.
LEMMA NewRoleMasksType ==
    ASSUME NEW rs, IsTable(rs, RoleNames, SUBSET Scopes)
    PROVE  IsTable(NewRoleMasks(rs), RoleNames, SUBSET Scopes)
BY TrustsAssumption DEF NewRoleMasks, IsTable

\* Recomputing keeps the masks a table of users.
LEMMA RecomputeType ==
    ASSUME TypeOK, NEW rm, IsTable(rm, RoleNames, SUBSET Scopes),
           Recompute(rm)
    PROVE  IsTable(masks', Users, SUBSET Scopes)
BY CalcUserMaskType DEF Recompute, TypeOK, IsTable

\* UpdateUser keeps the masks a table of users.
LEMMA UpdateUsersType ==
    ASSUME TypeOK, NEW kept \in SUBSET Users, NEW gone,
           NEW ts, IsTable(ts, Users, Entry), kept \subseteq DOMAIN ts,
           UpdateUsers(kept, gone, ts)
    PROVE  IsTable(masks', Users, SUBSET Scopes)
BY CalcUserMaskType DEF UpdateUsers, TypeOK, IsTable

\* A user without a trust counts as one with nothing.
LEMMA EntryOfType ==
    ASSUME TypeOK, NEW u \in Users
    PROVE  EntryOf(u) \in Entry
BY DEF EntryOf, NoTrust, TypeOK, IsTable, Entry

\* Save writes the two tables of the step or leaves the file alone.
LEMMA SaveType ==
    ASSUME TypeOK, Save,
           IsTable(roles', RoleNames, SUBSET Scopes),
           IsTable(trusts', Users, Entry)
    PROVE  /\ DOMAIN disk' = {"roles", "trusts"}
           /\ IsTable(disk'.roles, RoleNames, SUBSET Scopes)
           /\ IsTable(disk'.trusts, Users, Entry)
BY DEF Save, TypeOK, IsTable

\* Every step keeps the tables' shapes.
LEMMA TypeStep == TypeOK /\ [Next]_vars => TypeOK'
<1> SUFFICES ASSUME TypeOK, [Next]_vars
             PROVE  TypeOK'
  OBVIOUS
<1>1. ASSUME NEW name \in RoleNames, NEW found \in SUBSET Scopes,
             AddRole(name, found)
      PROVE  TypeOK'
  <2>1. IsTable(roles', RoleNames, SUBSET Scopes)
    BY <1>1 DEF AddRole, TypeOK, IsTable
  <2>2. IsTable(roleMasks', RoleNames, SUBSET Scopes)
    BY <1>1 DEF AddRole, TypeOK, IsTable
  <2>3. IsTable(masks', Users, SUBSET Scopes)
    BY <1>1, <2>2, RecomputeType DEF AddRole
  <2>4. QED
    BY <1>1, <2>1, <2>2, <2>3, SaveType DEF AddRole, TypeOK
<1>2. ASSUME NEW name \in RoleNames, NEW found \in SUBSET Scopes,
             DelLastScopes(name, found)
      PROVE  TypeOK'
  <2>1. IsTable(roles', RoleNames, SUBSET Scopes)
    BY <1>2 DEF ScopesLeft, DelLastScopes, TypeOK, IsTable, Restrict
  <2>2. QED
    BY <1>2, <2>1, SaveType DEF ScopesLeft, DelLastScopes, TypeOK
<1>3. ASSUME NEW name \in RoleNames, NEW found \in SUBSET Scopes,
             DelSomeScopes(name, found)
      PROVE  TypeOK'
  <2>1. IsTable(roles', RoleNames, SUBSET Scopes)
    BY <1>3 DEF ScopesLeft, DelSomeScopes, TypeOK, IsTable, Restrict
  <2>2. IsTable(roleMasks', RoleNames, SUBSET Scopes)
    BY <1>3 DEF ScopesLeft, DelSomeScopes, TypeOK, IsTable, Restrict
  <2>3. IsTable(masks', Users, SUBSET Scopes)
    BY <1>3, <2>2, RecomputeType DEF ScopesLeft, DelSomeScopes
  <2>4. QED
    BY <1>3, <2>1, <2>2, <2>3, SaveType DEF ScopesLeft, DelSomeScopes, TypeOK
<1>4. ASSUME NEW name \in RoleNames, NEW us \in SUBSET Users,
             TrustRole(name, us)
      PROVE  TypeOK'
  <2>1. IsTable(trusts', Users, Entry)
    BY <1>4, EntryOfType DEF TrustRole, TypeOK, IsTable, Entry
  <2>2. {u \in us : name \notin EntryOf(u).roles} \subseteq DOMAIN trusts'
    BY <1>4 DEF TrustRole
  <2>3. IsTable(masks', Users, SUBSET Scopes)
    BY <1>4, <2>1, <2>2, UpdateUsersType DEF TrustRole
  <2>4. QED
    BY <1>4, <2>1, <2>3, SaveType DEF TrustRole, TypeOK
<1>5. ASSUME NEW name \in RoleNames, NEW us \in SUBSET Users,
             UntrustRole(name, us)
      PROVE  TypeOK'
  <2>1. IsTable(trusts', Users, Entry)
    BY <1>5 DEF UntrustRole, TypeOK, IsTable, Entry
  <2>2. IsTable(masks', Users, SUBSET Scopes)
    BY <1>5, <2>1, UpdateUsersType DEF UntrustRole, TypeOK, IsTable
  <2>3. QED
    BY <1>5, <2>1, <2>2, SaveType DEF UntrustRole, TypeOK
<1>6. ASSUME NEW scope \in Scopes \cup UnknownScopes,
             NEW us \in SUBSET Users, Trust(scope, us)
      PROVE  TypeOK'
  <2>1. IsTable(trusts', Users, Entry)
    BY <1>6, EntryOfType DEF Trust, TypeOK, IsTable, Entry
  <2>2. {u \in us : scope \notin EntryOf(u).scopes} \subseteq DOMAIN trusts'
    BY <1>6 DEF Trust
  <2>3. IsTable(masks', Users, SUBSET Scopes)
    BY <1>6, <2>1, <2>2, UpdateUsersType DEF Trust
  <2>4. QED
    BY <1>6, <2>1, <2>3, SaveType DEF Trust, TypeOK
<1>7. ASSUME NEW scope \in Scopes \cup UnknownScopes,
             NEW us \in SUBSET Users, Untrust(scope, us)
      PROVE  TypeOK'
  <2>1. IsTable(trusts', Users, Entry)
    BY <1>7 DEF Untrust, TypeOK, IsTable, Entry
  <2>2. IsTable(masks', Users, SUBSET Scopes)
    BY <1>7, <2>1, UpdateUsersType DEF Untrust, TypeOK, IsTable
  <2>3. QED
    BY <1>7, <2>1, <2>2, SaveType DEF Untrust, TypeOK
<1>8. ASSUME NEW us \in SUBSET Users, ListTrust(us)
      PROVE  TypeOK'
  <2>1. IsTable(trusts', Users, Entry)
    BY <1>8 DEF ListTrust, TypeOK, IsTable, Entry
  <2>2. QED
    BY <1>8, <2>1, SaveType DEF ListTrust, TypeOK
<1>9. CASE Restart
  BY <1>9, NewRoleMasksType, UserMasksType DEF Restart, TypeOK
<1>10. CASE UNCHANGED vars
  BY <1>10 DEF vars, TypeOK
<1>11. QED
  BY <1>1, <1>2, <1>3, <1>4, <1>5, <1>6, <1>7, <1>8, <1>9, <1>10 DEF Next

\* The five tables keep their types: in particular a mask never holds a
\* scope outside ScopeMap and no table ever names an unknown user or role.
THEOREM TypeCorrect == Spec => []TypeOK
<1>1. Init => TypeOK
  <2> SUFFICES ASSUME Init PROVE TypeOK
    OBVIOUS
  <2>1. IsTable(roles, RoleNames, SUBSET Scopes)
    BY DEF Init, RoleTable, IsTable
  <2>2. IsTable(trusts, Users, Entry)
    BY DEF Init, IsTable
  <2>3. QED
    BY <2>1, <2>2, NewRoleMasksType, UserMasksType DEF Init, TypeOK
<1>2. QED
  BY <1>1, TypeStep, PTL DEF Spec

(***************************************************************************)
(* The coherence of the two derived tables.  RoleMasksCoherent is          *)
(* inductive by itself; MasksCoherent needs nothing else either, because   *)
(* the one command that leaves roleMasks stale ("role del" of the last     *)
(* scopes) leaves both tables alone.                                       *)
(***************************************************************************)

\* Recompute stores the masks of the configured users: when the stored masks
\* belonged to just these users, nothing else is left in the table.
LEMMA RecomputeCoherent ==
    ASSUME NEW rm, MasksCoherent, Recompute(rm), UNCHANGED trusts,
           roleMasks' = rm
    PROVE  MasksCoherent'
BY DEF MasksCoherent, Recompute, UserMasks

\* TrustManager's user masks always follow its role masks and the trusted
\* users of the configuration.
THEOREM MasksAlwaysCoherent == Spec => []MasksCoherent
<1>1. Init => MasksCoherent
  BY DEF Init, MasksCoherent, UserMasks
<1>2. TypeOK /\ MasksCoherent /\ [Next]_vars => MasksCoherent'
  <2> SUFFICES ASSUME TypeOK, MasksCoherent, [Next]_vars
               PROVE  MasksCoherent'
    OBVIOUS
  <2>1. ASSUME NEW name \in RoleNames, NEW found \in SUBSET Scopes,
               AddRole(name, found)
        PROVE  MasksCoherent'
    BY <2>1, RecomputeCoherent DEF AddRole
  <2>2. ASSUME NEW name \in RoleNames, NEW found \in SUBSET Scopes,
               DelLastScopes(name, found)
        PROVE  MasksCoherent'
    BY <2>2 DEF ScopesLeft, DelLastScopes, MasksCoherent, UserMasks
  <2>3. ASSUME NEW name \in RoleNames, NEW found \in SUBSET Scopes,
               DelSomeScopes(name, found)
        PROVE  MasksCoherent'
    BY <2>3, RecomputeCoherent DEF ScopesLeft, DelSomeScopes
  <2>4. ASSUME NEW name \in RoleNames, NEW us \in SUBSET Users,
               TrustRole(name, us)
        PROVE  MasksCoherent'
    <3> DEFINE kept == {u \in us : name \notin EntryOf(u).roles}
    <3>1. /\ roleMasks' = roleMasks
          /\ DOMAIN trusts' = DOMAIN trusts \cup us
          /\ masks' = [u \in DOMAIN masks \cup kept |->
                         IF u \in kept
                         THEN CalcUserMask(roleMasks, trusts'[u])
                         ELSE masks[u]]
      BY <2>4 DEF TrustRole, UpdateUsers
    <3>2. /\ DOMAIN masks = DOMAIN trusts
          /\ \A u \in DOMAIN trusts :
               masks[u] = CalcUserMask(roleMasks, trusts[u])
      BY DEF MasksCoherent, UserMasks
    <3>3. DOMAIN masks \cup kept = DOMAIN trusts'
      BY <3>1, <3>2 DEF EntryOf, NoTrust
    <3>4. ASSUME NEW u \in DOMAIN trusts', u \notin kept
          PROVE  trusts'[u] = trusts[u]
      <4>1. CASE u \notin us
        BY <4>1, <3>4, <2>4 DEF TrustRole
      <4>2. CASE u \in us
        <5>1. u \in DOMAIN trusts /\ name \in trusts[u].roles
          BY <4>2, <3>4 DEF EntryOf, NoTrust
        <5>2. trusts[u] \in Entry /\ trusts[u].roles \cup {name} = trusts[u].roles
          BY <5>1 DEF TypeOK, IsTable
        <5>3. trusts'[u] = [trusts[u] EXCEPT !.roles = trusts[u].roles \cup {name}]
          BY <5>1, <4>2, <2>4 DEF TrustRole, EntryOf
        <5>4. QED
          BY <5>2, <5>3 DEF Entry
      <4>3. QED
        BY <4>1, <4>2
    <3>5. QED
      BY <3>1, <3>2, <3>3, <3>4 DEF MasksCoherent, UserMasks
  <2>5. ASSUME NEW name \in RoleNames, NEW us \in SUBSET Users,
               UntrustRole(name, us)
        PROVE  MasksCoherent'
    BY <2>5 DEF UntrustRole, MasksCoherent, UserMasks, UpdateUsers
  <2>6. ASSUME NEW scope \in Scopes \cup UnknownScopes,
               NEW us \in SUBSET Users, Trust(scope, us)
        PROVE  MasksCoherent'
    <3> DEFINE kept == {u \in us : scope \notin EntryOf(u).scopes}
    <3>1. /\ roleMasks' = roleMasks
          /\ DOMAIN trusts' = DOMAIN trusts \cup us
          /\ masks' = [u \in DOMAIN masks \cup kept |->
                         IF u \in kept
                         THEN CalcUserMask(roleMasks, trusts'[u])
                         ELSE masks[u]]
      BY <2>6 DEF Trust, UpdateUsers
    <3>2. /\ DOMAIN masks = DOMAIN trusts
          /\ \A u \in DOMAIN trusts :
               masks[u] = CalcUserMask(roleMasks, trusts[u])
      BY DEF MasksCoherent, UserMasks
    <3>3. DOMAIN masks \cup kept = DOMAIN trusts'
      BY <3>1, <3>2 DEF EntryOf, NoTrust
    <3>4. ASSUME NEW u \in DOMAIN trusts', u \notin kept
          PROVE  trusts'[u] = trusts[u]
      <4>1. CASE u \notin us
        BY <4>1, <3>4, <2>6 DEF Trust
      <4>2. CASE u \in us
        <5>1. u \in DOMAIN trusts /\ scope \in trusts[u].scopes
          BY <4>2, <3>4 DEF EntryOf, NoTrust
        <5>2. trusts[u] \in Entry /\ trusts[u].scopes \cup {scope} = trusts[u].scopes
          BY <5>1 DEF TypeOK, IsTable
        <5>3. trusts'[u] = [trusts[u] EXCEPT !.scopes = trusts[u].scopes \cup {scope}]
          BY <5>1, <4>2, <2>6 DEF Trust, EntryOf
        <5>4. QED
          BY <5>2, <5>3 DEF Entry
      <4>3. QED
        BY <4>1, <4>2
    <3>5. QED
      BY <3>1, <3>2, <3>3, <3>4 DEF MasksCoherent, UserMasks
  <2>7. ASSUME NEW scope \in Scopes \cup UnknownScopes,
               NEW us \in SUBSET Users, Untrust(scope, us)
        PROVE  MasksCoherent'
    BY <2>7 DEF Untrust, MasksCoherent, UserMasks, UpdateUsers
  <2>8. ASSUME NEW us \in SUBSET Users, ListTrust(us)
        PROVE  MasksCoherent'
    BY <2>8, TrustsAssumption
       DEF ListTrust, MasksCoherent, UserMasks, CalcUserMask,
                TypeOK, IsTable, Entry
  <2>9. CASE Restart
    BY <2>9 DEF Restart, MasksCoherent
  <2>10. CASE UNCHANGED vars
    BY <2>10 DEF vars, MasksCoherent, UserMasks, CalcUserMask
  <2>11. QED
    BY <2>1, <2>2, <2>3, <2>4, <2>5, <2>6, <2>7, <2>8, <2>9, <2>10 DEF Next
<1>3. QED
  BY <1>1, <1>2, TypeCorrect, PTL DEF Spec

-----------------------------------------------------------------------------
\* The mask of every existing role is its definition, in every state.
THEOREM RoleMasksAlwaysCoherent == Spec => []RoleMasksCoherent
<1> USE TrustsAssumption
<1>1. Init => RoleMasksCoherent
  BY DEF Init, RoleMasksCoherent, RoleScopes, NewRoleMasks
<1>2. TypeOK /\ RoleMasksCoherent /\ [Next]_vars => RoleMasksCoherent'
  <2> SUFFICES ASSUME TypeOK, RoleMasksCoherent, [Next]_vars
               PROVE  RoleMasksCoherent'
    OBVIOUS
  <2>1. ASSUME NEW name \in RoleNames, NEW found \in SUBSET Scopes,
               AddRole(name, found)
        PROVE  RoleMasksCoherent'
    <3> DEFINE updated == found \cup (IF name \in DOMAIN roles THEN roles[name]
                                                              ELSE {})
    <3>1. /\ name \notin DOMAIN GlobalRoles
          /\ DOMAIN roles' = DOMAIN roles \cup {name}
          /\ roles'[name] = updated
          /\ \A r \in DOMAIN roles : r # name => roles'[r] = roles[r]
      BY <2>1 DEF AddRole
    <3>2. /\ DOMAIN roleMasks' = DOMAIN roleMasks \cup {name}
          /\ roleMasks'[name] = updated
          /\ \A r \in DOMAIN roleMasks : r # name => roleMasks'[r] = roleMasks[r]
      BY <2>1 DEF AddRole
    <3> HIDE DEF updated
    <3>3. RoleScopes(name)' = updated
      BY <3>1 DEF RoleScopes
    <3>4. ASSUME NEW r \in DOMAIN roles \cup DOMAIN GlobalRoles, r # name
          PROVE  RoleScopes(r)' = RoleScopes(r)
      BY <3>1, <3>4 DEF RoleScopes
    <3>5. QED
      BY <3>1, <3>2, <3>3, <3>4 DEF RoleMasksCoherent
  <2>2. ASSUME NEW name \in RoleNames, NEW found \in SUBSET Scopes,
               DelLastScopes(name, found)
        PROVE  RoleMasksCoherent'
    BY <2>2 DEF ScopesLeft, DelLastScopes, RoleMasksCoherent, RoleScopes, Restrict
  <2>3. ASSUME NEW name \in RoleNames, NEW found \in SUBSET Scopes,
               DelSomeScopes(name, found)
        PROVE  RoleMasksCoherent'
    BY <2>3 DEF ScopesLeft, DelSomeScopes, RoleMasksCoherent, RoleScopes, Restrict,
                TypeOK, IsTable
  <2>4. CASE UNCHANGED <<roles, roleMasks>>
    BY <2>4 DEF RoleMasksCoherent, RoleScopes
  <2>5. CASE Restart
    <3>1. roleMasks' = NewRoleMasks(roles')
      BY <2>5 DEF Restart
    <3>2. QED
      BY <3>1 DEF RoleMasksCoherent, RoleScopes, NewRoleMasks
  <2>6. QED
    BY <2>1, <2>2, <2>3, <2>4, <2>5
       DEF Next, vars, TrustRole, UntrustRole, Trust, Untrust, ListTrust
<1>3. QED
  BY <1>1, <1>2, TypeCorrect, PTL DEF Spec

\* Masks that agree with the tables grant all the configuration grants, and more only for deleted roles.
LEMMA CoherentTables ==
    ASSUME MasksCoherent, RoleMasksCoherent
    PROVE  GrantsInForce /\ ExcessIsFromDeletedRoles
<1>1. ASSUME NEW u \in DOMAIN trusts
      PROVE  u \in DOMAIN masks /\ MaskOf(u) = CalcUserMask(roleMasks, trusts[u])
  BY <1>1 DEF MasksCoherent, UserMasks, MaskOf
<1>2. ASSUME NEW u, u \notin DOMAIN trusts
      PROVE  MaskOf(u) = {}
  BY <1>2 DEF MasksCoherent, UserMasks, MaskOf
<1>3. ASSUME NEW r, NEW s \in RoleScopes(r)
      PROVE  r \in DOMAIN roleMasks /\ s \in roleMasks[r]
  BY <1>3 DEF RoleMasksCoherent, RoleScopes
<1>4. GrantsInForce
  BY <1>1, <1>3 DEF GrantsInForce, Granted, HasScope, CalcUserMask
<1>5. ASSUME NEW u \in Users, NEW s \in MaskOf(u) \ Granted(u)
      PROVE  \E r \in trusts[u].roles :
                /\ r \notin DOMAIN roles \cup DOMAIN GlobalRoles
                /\ r \in DOMAIN roleMasks /\ s \in roleMasks[r]
  <2>1. u \in DOMAIN trusts
    BY <1>2, <1>5
  <2>2. PICK r \in trusts[u].roles : r \in DOMAIN roleMasks /\ s \in roleMasks[r]
    BY <1>1, <1>5, <2>1 DEF CalcUserMask, Granted
  <2>3. s \notin RoleScopes(r)
    BY <1>5, <2>1, <2>2 DEF Granted
  <2>4. QED
    BY <2>2, <2>3 DEF RoleMasksCoherent
<1>6. QED
  BY <1>4, <1>5 DEF ExcessIsFromDeletedRoles

\* For every history of commands, failed saves and restarts: HasScope never
\* denies what the configuration grants, and the only scopes in force beyond
\* the configuration are those of a role deleted with its last scopes.
THEOREM RightsAlwaysAccountedFor == Spec => []RightsAccountedFor
<1>1. MasksCoherent /\ RoleMasksCoherent => RightsAccountedFor
  BY CoherentTables DEF RightsAccountedFor
<1>2. QED
  BY <1>1, MasksAlwaysCoherent, RoleMasksAlwaysCoherent, PTL

-----------------------------------------------------------------------------
(* What single commands may do.                                            *)

\* Fewer roles, less in them, or fewer scopes make a smaller mask.
LEMMA MaskMonotone ==
    ASSUME NEW rm, NEW rmLess, NEW t \in Entry, NEW tLess \in Entry,
           \A r \in DOMAIN rmLess : r \in DOMAIN rm /\ rmLess[r] \subseteq rm[r],
           tLess.roles \subseteq t.roles, tLess.scopes \subseteq t.scopes
    PROVE  CalcUserMask(rmLess, tLess) \subseteq CalcUserMask(rm, t)
BY DEF CalcUserMask

\* The mask in force of a configured user, and of any other.
LEMMA MaskInForce ==
    ASSUME MasksCoherent
    PROVE  /\ \A u \in DOMAIN trusts : MaskOf(u) = CalcUserMask(roleMasks, trusts[u])
           /\ \A u : u \notin DOMAIN trusts => MaskOf(u) = {}
           /\ DOMAIN masks = DOMAIN trusts
BY DEF MasksCoherent, UserMasks, MaskOf

\* An entry a role or a scope has been taken out of is one with less.
LEMMA LessInEntry ==
    ASSUME NEW e \in Entry, NEW x
    PROVE  /\ [e EXCEPT !.roles = e.roles \ {x}] \in Entry
           /\ [e EXCEPT !.roles = e.roles \ {x}].roles = e.roles \ {x}
           /\ [e EXCEPT !.roles = e.roles \ {x}].scopes = e.scopes
           /\ [e EXCEPT !.scopes = e.scopes \ {x}] \in Entry
           /\ [e EXCEPT !.scopes = e.scopes \ {x}].roles = e.roles
           /\ [e EXCEPT !.scopes = e.scopes \ {x}].scopes = e.scopes \ {x}
<1>1. e.roles \ {x} \in SUBSET (RoleNames \cup {NotFound})
  BY DEF Entry
<1>2. e.scopes \ {x} \in SUBSET (Scopes \cup UnknownScopes \cup {NotFound})
  BY DEF Entry
<1>3. QED
  BY <1>1, <1>2 DEF Entry

\* The update that ends an untrust: who is left with something gets the mask
\* of that, who is left with nothing loses the mask.
LEMMA UntrustShrinks ==
    ASSUME TypeOK, MasksCoherent, NEW changed, NEW gone,
           changed \subseteq DOMAIN trusts, UpdateUsers(changed, gone, trusts'),
           \A u \in changed \ gone :
              /\ trusts'[u] \in Entry
              /\ trusts'[u].roles \subseteq trusts[u].roles
              /\ trusts'[u].scopes \subseteq trusts[u].scopes
    PROVE  NoMaskGrows
<1> SUFFICES ASSUME NEW u \in Users, u \in DOMAIN masks'
             PROVE  MaskOf(u)' \subseteq MaskOf(u)
  BY DEF NoMaskGrows, MaskOf
<1>1. /\ DOMAIN masks' = (DOMAIN masks \cup changed) \ gone
      /\ masks'[u] = IF u \in changed THEN CalcUserMask(roleMasks, trusts'[u]) ELSE masks[u]
      /\ MaskOf(u)' = masks'[u]
  BY DEF UpdateUsers, MaskOf
<1>2. CASE u \in changed
  <2>1. u \in DOMAIN trusts /\ trusts[u] \in Entry /\ trusts'[u] \in Entry
    BY <1>1, <1>2 DEF TypeOK, IsTable
  <2>2. CalcUserMask(roleMasks, trusts'[u]) \subseteq CalcUserMask(roleMasks, trusts[u])
    BY <1>1, <1>2, <2>1, MaskMonotone
  <2>3. QED
    BY <1>1, <1>2, <2>1, <2>2, MaskInForce
<1>3. CASE u \notin changed
  BY <1>1, <1>3 DEF MaskOf
<1>4. QED
  BY <1>2, <1>3

\* "role del" with scopes left: what is stored for the role is less than its
\* mask was, or nothing is.
LEMMA DelRoleShrinks ==
    ASSUME TypeOK, MasksCoherent, RoleMasksCoherent,
           NEW name, NEW found, DelSomeScopes(name, found)
    PROVE  NoMaskGrows
<1>1. \A r \in DOMAIN roleMasks' :
         r \in DOMAIN roleMasks /\ roleMasks'[r] \subseteq roleMasks[r]
  <2>1. name \in DOMAIN roleMasks /\ roleMasks[name] = roles[name]
    <3>1. name \in DOMAIN roles /\ name \notin DOMAIN GlobalRoles
      BY DEF DelSomeScopes
    <3>2. RoleScopes(name) = roles[name]
      BY <3>1 DEF RoleScopes
    <3>3. QED
      BY <3>1, <3>2 DEF RoleMasksCoherent
  <2>2. CASE found # {}
    BY <2>1, <2>2 DEF DelSomeScopes, ScopesLeft
  <2>3. CASE found = {}
    BY <2>3 DEF DelSomeScopes, Restrict
  <2>4. QED
    BY <2>2, <2>3
<1>2. Recompute(roleMasks') /\ trusts' = trusts
  BY DEF DelSomeScopes
<1>3. ASSUME NEW u \in Users
      PROVE  MaskOf(u)' \subseteq MaskOf(u)
  <2>1. CASE u \in DOMAIN trusts
    <3>1. MaskOf(u)' = CalcUserMask(roleMasks', trusts[u])
      BY <1>2, <2>1 DEF Recompute, MaskOf
    <3>2. trusts[u] \in Entry
      BY <2>1 DEF TypeOK, IsTable
    <3>3. CalcUserMask(roleMasks', trusts[u]) \subseteq CalcUserMask(roleMasks, trusts[u])
      BY <1>1, <3>2, MaskMonotone
    <3>4. QED
      BY <2>1, <3>1, <3>3, MaskInForce
  <2>2. CASE u \notin DOMAIN trusts
    <3>1. u \notin DOMAIN masks'
      BY <1>2, <2>2, MaskInForce DEF Recompute
    <3>2. QED
      BY <3>1 DEF MaskOf
  <2>3. QED
    BY <2>1, <2>2
<1>4. QED
  BY <1>3 DEF NoMaskGrows

\* A command that takes rights away gives nobody a scope, on any branch: a
\* role's mask is at least what is left of it, because the masks are those of
\* the configuration before the command.
THEOREM RevocationsOnlyRevoke == Spec => RevocationsNeverGrant
<1>1. ASSUME TypeOK, MasksCoherent, RoleMasksCoherent, [Next]_vars
      PROVE  [NoMaskGrows \/ ~ RightsTakenAway]_vars
  <2>1. ASSUME NEW name, NEW found, DelLastScopes(name, found)
        PROVE  NoMaskGrows
    BY <2>1 DEF DelLastScopes, NoMaskGrows, MaskOf
  <2>2. ASSUME NEW name, NEW us \in SUBSET Users, UntrustRole(name, us)
        PROVE  NoMaskGrows
    <3> DEFINE left(u) == [trusts[u] EXCEPT !.roles = @ \ {name}]
               there   == us \cap DOMAIN trusts
               gone    == {u \in there : left(u) = NoTrust}
               changed == {u \in there : name \in trusts[u].roles} \ gone
    <3>1. UpdateUsers(changed, gone, trusts')
      BY <2>2 DEF UntrustRole
    <3>2. \A u \in changed : trusts[u] \in Entry /\ trusts'[u] = left(u)
      BY <1>1, <2>2 DEF UntrustRole, TypeOK, IsTable
    <3>3. \A u \in changed : /\ trusts'[u] \in Entry
                             /\ trusts'[u].roles \subseteq trusts[u].roles
                             /\ trusts'[u].scopes \subseteq trusts[u].scopes
      <4> TAKE u \in changed
      <4>1. trusts[u] \in Entry /\ trusts'[u] = [trusts[u] EXCEPT !.roles = trusts[u].roles \ {name}]
        BY <3>2
      <4> HIDE DEF changed, gone, left
      <4>2. /\ [trusts[u] EXCEPT !.roles = trusts[u].roles \ {name}] \in Entry
            /\ [trusts[u] EXCEPT !.roles = trusts[u].roles \ {name}].roles = trusts[u].roles \ {name}
            /\ [trusts[u] EXCEPT !.roles = trusts[u].roles \ {name}].scopes = trusts[u].scopes
        BY <4>1, LessInEntry, Zenon
      <4>3. trusts'[u] \in Entry /\ trusts'[u].roles = trusts[u].roles \ {name} /\ trusts'[u].scopes = trusts[u].scopes
        BY <4>1, <4>2, Zenon
      <4>4. QED
        BY <4>3
    <3>4. changed \subseteq DOMAIN trusts
      OBVIOUS
    <3> HIDE DEF changed, gone
    <3>5. QED
      BY <1>1, <3>1, <3>3, <3>4, UntrustShrinks
  <2>3. ASSUME NEW scope, NEW us \in SUBSET Users, Untrust(scope, us)
        PROVE  NoMaskGrows
    <3> DEFINE left(u) == [trusts[u] EXCEPT !.scopes = @ \ {scope}]
               there   == us \cap DOMAIN trusts
               gone    == {u \in there : left(u) = NoTrust}
               changed == {u \in there : scope \in trusts[u].scopes} \ gone
    <3>1. UpdateUsers(changed, gone, trusts')
      BY <2>3 DEF Untrust
    <3>2. \A u \in changed : trusts[u] \in Entry /\ trusts'[u] = left(u)
      BY <1>1, <2>3 DEF Untrust, TypeOK, IsTable
    <3>3. \A u \in changed : /\ trusts'[u] \in Entry
                             /\ trusts'[u].roles \subseteq trusts[u].roles
                             /\ trusts'[u].scopes \subseteq trusts[u].scopes
      <4> TAKE u \in changed
      <4>1. trusts[u] \in Entry /\ trusts'[u] = [trusts[u] EXCEPT !.scopes = trusts[u].scopes \ {scope}]
        BY <3>2
      <4> HIDE DEF changed, gone, left
      <4>2. /\ [trusts[u] EXCEPT !.scopes = trusts[u].scopes \ {scope}] \in Entry
            /\ [trusts[u] EXCEPT !.scopes = trusts[u].scopes \ {scope}].scopes = trusts[u].scopes \ {scope}
            /\ [trusts[u] EXCEPT !.scopes = trusts[u].scopes \ {scope}].roles = trusts[u].roles
        BY <4>1, LessInEntry, Zenon
      <4>3. trusts'[u] \in Entry /\ trusts'[u].scopes = trusts[u].scopes \ {scope} /\ trusts'[u].roles = trusts[u].roles
        BY <4>1, <4>2, Zenon
      <4>4. QED
        BY <4>3
    <3>4. changed \subseteq DOMAIN trusts
      OBVIOUS
    <3> HIDE DEF changed, gone
    <3>5. QED
      BY <1>1, <3>1, <3>3, <3>4, UntrustShrinks
  <2>4. QED
    BY <2>1, <2>2, <2>3, <1>1, DelRoleShrinks DEF RightsTakenAway
<1>2. QED
  BY <1>1, TypeCorrect, MasksAlwaysCoherent, RoleMasksAlwaysCoherent, PTL
     DEF Spec, RevocationsNeverGrant

\* A restart puts in force what the file it reads grants, and nothing else.
THEOREM RestartAlwaysFollowsFile == Spec => RestartFollowsFile
<1>1. ASSUME Restart
      PROVE  \A u \in Users : MaskOf(u)' = Granted(u)'
  <2>1. /\ roleMasks' = NewRoleMasks(roles')
        /\ masks' = UserMasks(roleMasks', trusts')
    BY <1>1 DEF Restart
  <2>2. DOMAIN roleMasks' = DOMAIN GlobalRoles \cup DOMAIN roles'
    BY <2>1 DEF NewRoleMasks
  <2>3. \A r : RoleScopes(r)' = IF r \in DOMAIN roleMasks' THEN roleMasks'[r] ELSE {}
    BY <2>1, <2>2 DEF NewRoleMasks, RoleScopes
  <2>4. ASSUME NEW u \in Users, u \in DOMAIN trusts'
        PROVE  MaskOf(u)' = Granted(u)'
    <3>1. MaskOf(u)' = (UNION {roleMasks'[r] : r \in trusts'[u].roles \cap DOMAIN roleMasks'})
                         \cup (trusts'[u].scopes \cap Scopes)
      BY <2>1, <2>4 DEF MaskOf, UserMasks, CalcUserMask
    <3>2. Granted(u)' = (UNION {RoleScopes(r)' : r \in trusts'[u].roles})
                          \cup (trusts'[u].scopes \cap Scopes)
      BY <2>4 DEF Granted, RoleScopes
    <3>3. UNION {roleMasks'[r] : r \in trusts'[u].roles \cap DOMAIN roleMasks'}
            = UNION {RoleScopes(r)' : r \in trusts'[u].roles}
      BY <2>3
    <3>4. QED
      BY <3>1, <3>2, <3>3
  <2>5. ASSUME NEW u \in Users, u \notin DOMAIN trusts'
        PROVE  MaskOf(u)' = Granted(u)'
    BY <2>1, <2>5 DEF MaskOf, UserMasks, Granted
  <2>6. QED
    BY <2>4, <2>5
<1>2. QED
  BY <1>1, PTL DEF Spec, RestartFollowsFile
=============================================================================
