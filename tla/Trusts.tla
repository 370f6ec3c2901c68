------------------------------- MODULE Trusts -------------------------------
(***************************************************************************)
(* Roles and trusted users of one channel: the part of the configuration   *)
(* that names them (adapters/message/admin/trusts.go edits it) and the     *)
(* permission masks TrustManager derives from it                           *)
(* (domain/trusts/trusts.go), which are what HasScope answers from.        *)
(*                                                                         *)
(* TrustManager.roles and .users are the very map objects of the channel   *)
(* configuration, so the model has one variable for each of them.  A bit   *)
(* mask is the set of its scopes.  Every command runs inside               *)
(* Manager.Update, under the manager's lock, and is therefore one step;    *)
(* the save that ends the update may fail, which leaves memory changed     *)
(* and the file as it was.                                                 *)
(***************************************************************************)
EXTENDS Functions

CONSTANTS
    Users,          \* user ids the commands can resolve
    RoleNames,      \* names that may be given to a role
    Scopes,         \* keys of ScopeMap
    UnknownScopes,  \* words "trust" stores although ScopeMap lacks them
    NotFound,       \* the word the trust list stores in an empty list
    GlobalRoles,    \* cfg.GlobalRoles: role name -> set of scopes
    SaveFailures    \* TRUE when a save may fail

ASSUME TrustsAssumption ==
    /\ Scopes \cap UnknownScopes = {}
    /\ NotFound \notin RoleNames \cup Scopes \cup UnknownScopes
    /\ DOMAIN GlobalRoles \subseteq RoleNames
    /\ GlobalRoles \in [DOMAIN GlobalRoles -> SUBSET Scopes]
    /\ SaveFailures \in BOOLEAN

VARIABLES
    roles,      \* cfg.Channels[ch].Roles: role name -> set of scopes
    trusts,     \* cfg.Channels[ch].Trusts: user -> its roles and scopes
    roleMasks,  \* TrustManager.roleMasks: role name -> set of scopes
    masks,      \* TrustManager.trusts: user -> set of scopes
    disk        \* the channel file: roles and trusts as last saved

vars == <<roles, trusts, roleMasks, masks, disk>>

Entry == [roles  : SUBSET (RoleNames \cup {NotFound}),
          scopes : SUBSET (Scopes \cup UnknownScopes \cup {NotFound})]

RoleTable == UNION {[R -> SUBSET Scopes] : R \in SUBSET RoleNames}

NoTrust == [roles |-> {}, scopes |-> {}]
EntryOf(u) == IF u \in DOMAIN trusts THEN trusts[u] ELSE NoTrust

MaskOf(u)      == IF u \in DOMAIN masks THEN masks[u] ELSE {}
HasScope(u, s) == s \in MaskOf(u)

-----------------------------------------------------------------------------
(* TrustManager: how the masks are derived.                                *)

\* Mutant: a scope word is taken although ScopeMap lacks it.
CalcUserMaskAnyWord(rm, t) ==
    (UNION {rm[r] : r \in t.roles \cap DOMAIN rm}) \cup t.scopes

CalcUserMask(rm, t) ==
    (UNION {rm[r] : r \in t.roles \cap DOMAIN rm}) \cup (t.scopes \cap Scopes)

\* New: the global masks first, then the channel's, joined to a global mask
\* of the same name.
NewRoleMasks(rs) ==
    [r \in DOMAIN GlobalRoles \cup DOMAIN rs |->
        IF r \notin DOMAIN rs THEN GlobalRoles[r]
        ELSE rs[r] \cup (IF r \in DOMAIN GlobalRoles THEN GlobalRoles[r]
                                                     ELSE {})]

\* Mutant: the users' masks are computed before those of the roles.
UserMasksBeforeRoles(rm, ts) == [u \in DOMAIN ts |-> CalcUserMask(<<>>, ts[u])]

UserMasks(rm, ts) == [u \in DOMAIN ts |-> CalcUserMask(rm, ts[u])]

\* Mutant: the loop is missing.
RecomputeForgotten(rm) == UNCHANGED masks

\* Mutant: the loop adds to the stored mask instead of replacing it.
RecomputeAdding(rm) ==
    masks' = [u \in DOMAIN masks \cup DOMAIN trusts |->
                MaskOf(u) \cup IF u \in DOMAIN trusts
                               THEN CalcUserMask(rm, trusts[u]) ELSE {}]

\* The loop AddRole and DeleteRole end with: it stores the mask of every
\* configured user and leaves other stored masks alone.
Recompute(rm) ==
    masks' = [u \in DOMAIN masks \cup DOMAIN trusts |->
                IF u \in DOMAIN trusts THEN CalcUserMask(rm, trusts[u])
                                       ELSE masks[u]]

\* Update(u, nil, nil) for the users in gone, Update(u, roles, scopes) for
\* those in kept, against the table the command has just written.
UpdateUsers(kept, gone, ts) ==
    masks' = [u \in (DOMAIN masks \cup kept) \ gone |->
                IF u \in kept THEN CalcUserMask(roleMasks, ts[u])
                              ELSE masks[u]]

\* saveLocked at the end of Manager.Update.
Save ==
    \/ disk' = [roles |-> roles', trusts |-> trusts']
    \/ SaveFailures /\ UNCHANGED disk

-----------------------------------------------------------------------------
(* New reads a file that may define any roles, also one that repeats a     *)
(* global name (which "!am role add" refuses); nobody is trusted yet.      *)

Init ==
    /\ roles \in RoleTable
    /\ trusts = <<>>
    /\ roleMasks = NewRoleMasks(roles)
    /\ masks = UserMasks(roleMasks, trusts)
    /\ disk = [roles |-> roles, trusts |-> trusts]

\* "!am role add": the scopes found in ScopeMap join the role; none need be.
AddRole(name, found) ==
    /\ name \notin DOMAIN GlobalRoles
    /\ LET updated == found \cup (IF name \in DOMAIN roles THEN roles[name]
                                                           ELSE {})
           rm == [r \in DOMAIN roleMasks \cup {name} |->
                    IF r = name THEN updated ELSE roleMasks[r]]
       IN  /\ roles' = [r \in DOMAIN roles \cup {name} |->
                          IF r = name THEN updated ELSE roles[r]]
           /\ roleMasks' = rm
           /\ Recompute(rm)
    /\ UNCHANGED trusts
    /\ Save

\* Mutant: the two lists of the filter are swapped.
ScopesLeftSwapped(name, found) ==
    found \ (IF name \in DOMAIN roles THEN roles[name] ELSE {})

\* What "!am role del" leaves of a role.
ScopesLeft(name, found) ==
    (IF name \in DOMAIN roles THEN roles[name] ELSE {}) \ found

\* "!am role del" when nothing would be left of the role: the command takes
\* it out of the shared map first, so DeleteRole finds no such role and
\* returns before it touches a mask.
DelLastScopes(name, found) ==
    /\ name \notin DOMAIN GlobalRoles
    /\ ScopesLeft(name, found) = {}
    /\ roles' = Restrict(roles, DOMAIN roles \ {name})
    /\ UNCHANGED <<trusts, roleMasks, masks>>
    /\ Save

\* "!am role del" when scopes are left: with some scope named, DeleteRole
\* stores what is left; with none it removes the whole role.
DelSomeScopes(name, found) ==
    /\ name \notin DOMAIN GlobalRoles
    /\ name \in DOMAIN roles
    /\ ScopesLeft(name, found) # {}
    /\ IF found # {}
       THEN LET updated == ScopesLeft(name, found)
                rm == [r \in DOMAIN roleMasks \cup {name} |->
                         IF r = name THEN updated ELSE roleMasks[r]]
            IN  /\ roles' = [roles EXCEPT ![name] = updated]
                /\ roleMasks' = rm
                /\ Recompute(rm)
       ELSE LET rm == Restrict(roleMasks, DOMAIN roleMasks \ {name})
            IN  /\ roles' = Restrict(roles, DOMAIN roles \ {name})
                /\ roleMasks' = rm
                /\ Recompute(rm)
    /\ UNCHANGED trusts
    /\ Save

KnownRole(name) == name \in DOMAIN roles \cup DOMAIN GlobalRoles

\* "!am role trust": us are the named users the API knows.
TrustRole(name, us) ==
    /\ KnownRole(name)
    /\ trusts' = [u \in DOMAIN trusts \cup us |->
                    IF u \in us
                    THEN [EntryOf(u) EXCEPT !.roles = @ \cup {name}]
                    ELSE trusts[u]]
    /\ UpdateUsers({u \in us : name \notin EntryOf(u).roles}, {}, trusts')
    /\ UNCHANGED <<roles, roleMasks>>
    /\ Save

\* "!am role untrust": an entry left with neither role nor scope is dropped.
UntrustRole(name, us) ==
    /\ KnownRole(name)
    /\ LET left(u) == [trusts[u] EXCEPT !.roles = @ \ {name}]
           there   == us \cap DOMAIN trusts
           gone    == {u \in there : left(u) = NoTrust}
           changed == {u \in there : name \in trusts[u].roles} \ gone
       IN  /\ trusts' = [u \in DOMAIN trusts \ gone |->
                           IF u \in changed THEN left(u) ELSE trusts[u]]
           /\ UpdateUsers(changed, gone, trusts')
    /\ UNCHANGED <<roles, roleMasks>>
    /\ Save

\* "!am trust": the scope word is stored whether ScopeMap knows it or not.
Trust(scope, us) ==
    /\ trusts' = [u \in DOMAIN trusts \cup us |->
                    IF u \in us
                    THEN [EntryOf(u) EXCEPT !.scopes = @ \cup {scope}]
                    ELSE trusts[u]]
    /\ UpdateUsers({u \in us : scope \notin EntryOf(u).scopes}, {}, trusts')
    /\ UNCHANGED <<roles, roleMasks>>
    /\ Save

\* "!am trust del"
Untrust(scope, us) ==
    /\ LET left(u) == [trusts[u] EXCEPT !.scopes = @ \ {scope}]
           there   == us \cap DOMAIN trusts
           gone    == {u \in there : left(u) = NoTrust}
           changed == {u \in there : scope \in trusts[u].scopes} \ gone
       IN  /\ trusts' = [u \in DOMAIN trusts \ gone |->
                           IF u \in changed THEN left(u) ELSE trusts[u]]
           /\ UpdateUsers(changed, gone, trusts')
    /\ UNCHANGED <<roles, roleMasks>>
    /\ Save

\* "!am trust list": formatting an entry writes the placeholder into the
\* empty lists of the entry itself, and the update that runs it saves it.
ListTrust(us) ==
    /\ trusts' = [u \in DOMAIN trusts |->
                    IF u \in us
                    THEN [roles  |-> IF trusts[u].roles = {} THEN {NotFound}
                                     ELSE trusts[u].roles,
                          scopes |-> IF trusts[u].scopes = {} THEN {NotFound}
                                     ELSE trusts[u].scopes]
                    ELSE trusts[u]]
    /\ UNCHANGED <<roles, roleMasks, masks>>
    /\ Save

\* The process stops and starts again from the file.
Restart ==
    /\ roles' = disk.roles
    /\ trusts' = disk.trusts
    /\ roleMasks' = NewRoleMasks(disk.roles)
    /\ masks' = UserMasks(NewRoleMasks(disk.roles), disk.trusts)
    /\ UNCHANGED disk

Next ==
    \/ \E name \in RoleNames, found \in SUBSET Scopes :
          \/ AddRole(name, found)
          \/ DelLastScopes(name, found)
          \/ DelSomeScopes(name, found)
    \/ \E name \in RoleNames, us \in SUBSET Users :
          TrustRole(name, us) \/ UntrustRole(name, us)
    \/ \E scope \in Scopes \cup UnknownScopes, us \in SUBSET Users :
          Trust(scope, us) \/ Untrust(scope, us)
    \/ \E us \in SUBSET Users : ListTrust(us)
    \/ Restart

Spec == Init /\ [][Next]_vars

-----------------------------------------------------------------------------
(* Properties.                                                             *)

IsTable(f, D, R) == DOMAIN f \subseteq D /\ f \in [DOMAIN f -> R]

TypeOK ==
    /\ IsTable(roles, RoleNames, SUBSET Scopes)
    /\ IsTable(trusts, Users, Entry)
    /\ IsTable(roleMasks, RoleNames, SUBSET Scopes)
    /\ IsTable(masks, Users, SUBSET Scopes)
    /\ DOMAIN disk = {"roles", "trusts"}
    /\ IsTable(disk.roles, RoleNames, SUBSET Scopes)
    /\ IsTable(disk.trusts, Users, Entry)

\* The scopes role r stands for: the union of its definitions.
RoleScopes(r) == UNION ({GlobalRoles[g] : g \in DOMAIN GlobalRoles \cap {r}}
                          \cup {roles[c] : c \in DOMAIN roles \cap {r}})

\* What the configuration grants user u, read afresh.
Granted(u) ==
    IF u \in DOMAIN trusts
    THEN (UNION {RoleScopes(r) : r \in trusts[u].roles})
           \cup (trusts[u].scopes \cap Scopes)
    ELSE {}

\* Every mask in TrustManager.trusts is the one calcUserMask would compute
\* now, and it is there exactly for the configured users: no command edits
\* the configuration and forgets the user's mask, or the other way round.
MasksCoherent == masks = UserMasks(roleMasks, trusts)

\* The mask of every role that exists is its definition.
RoleMasksCoherent ==
    \A r \in DOMAIN roles \cup DOMAIN GlobalRoles :
        r \in DOMAIN roleMasks /\ roleMasks[r] = RoleScopes(r)

\* Whatever the configuration grants a user is in force: HasScope never
\* denies a scope that a role or a direct trust gives.
GrantsInForce == \A u \in Users : \A s \in Granted(u) : HasScope(u, s)

\* A scope in force that the configuration does not grant comes from a role
\* the user still lists and that was deleted together with its last scopes.
ExcessIsFromDeletedRoles ==
    \A u \in Users : \A s \in MaskOf(u) \ Granted(u) :
        \E r \in trusts[u].roles :
            /\ r \notin DOMAIN roles \cup DOMAIN GlobalRoles
            /\ r \in DOMAIN roleMasks /\ s \in roleMasks[r]

\* The rights in force are the granted ones, and of deleted roles.
RightsAccountedFor == GrantsInForce /\ ExcessIsFromDeletedRoles

NoMaskGrows == \A u \in Users : MaskOf(u)' \subseteq MaskOf(u)

RightsTakenAway ==
    \/ \E name \in RoleNames, found \in SUBSET Scopes :
          DelLastScopes(name, found) \/ DelSomeScopes(name, found)
    \/ \E name \in RoleNames, us \in SUBSET Users : UntrustRole(name, us)
    \/ \E scope \in Scopes \cup UnknownScopes, us \in SUBSET Users :
          Untrust(scope, us)

\* Commands that take rights away never add one, whichever branch of
\* "role del", "role untrust" and "trust del" runs.
RevocationsNeverGrant == [][NoMaskGrows \/ ~ RightsTakenAway]_vars

\* After a restart the masks are what the loaded file grants, whatever the
\* masks were before it.
RestartFollowsFile ==
    [][Restart => \A u \in Users : MaskOf(u)' = Granted(u)']_vars

\* What the role commands are for: the scopes in force are those granted.
\* The code breaks it: "!am role del" of all a role's scopes leaves the
\* role's mask, and its members' masks, in force until the next restart.
MasksFollowConfig == \A u \in Users : MaskOf(u) = Granted(u)
=============================================================================
