--------------------------- MODULE AccountsProofs ---------------------------
(***************************************************************************)
(* Proofs about Accounts: whatever requests interleave, statement by       *)
(* statement, an administrator remains, a token and an approval are spent  *)
(* once, and a password change or a deletion leaves nothing older behind.  *)
(* And about AuthThrottle: however many requests burst, the checks that    *)
(* run at once and the failures of a window stay within the caps.          *)
(***************************************************************************)
EXTENDS Accounts, AuthThrottle, FiniteSetTheorems, TLAPS

AcctRows == [role : AcctRoles, must : BOOLEAN]
AcctUsers == acctUser \in [AcctNames -> AcctRows \cup {AcctNone}]

\* What the steps that write the users take from their request.
AcctAsks(r) ==
    /\ "at" \in DOMAIN r
    /\ r.at \in {"create", "role"} => r.role \in AcctRoles
    /\ r.at = "reset" => r.must \in BOOLEAN
AcctReqs == DOMAIN acctReq = AcctCall /\ \A c \in AcctCall : AcctAsks(acctReq[c])

AcctIInv == AcctUsers /\ AcctReqs /\ AcctAdminRemains

\* A request that moves to a place with nothing to ask.
LEMMA AcctMoved ==
    ASSUME AcctReqs, NEW c \in AcctCall, NEW r, AcctGoes(c, r), AcctAsks(r)
    PROVE  AcctReqs'
BY DEF AcctReqs, AcctGoes

LEMMA AcctOnward ==
    ASSUME AcctReqs, NEW c \in AcctCall, NEW at, AcctOn(c, at), at \notin {"create", "role", "reset"}
    PROVE  AcctReqs'
<1> DEFINE r == [acctReq[c] EXCEPT !.at = at]
<1>1. "at" \in DOMAIN acctReq[c]
  BY DEF AcctReqs, AcctAsks
<1>2. r.at = at /\ "at" \in DOMAIN r
  BY <1>1
<1>3. AcctAsks(r)
  BY <1>2 DEF AcctAsks
<1>4. AcctGoes(c, r)
  BY DEF AcctOn
<1> HIDE DEF r
<1> QED
  BY <1>3, <1>4, AcctMoved

LEMMA AcctFinished ==
    ASSUME AcctReqs, NEW c \in AcctCall, AcctEnds(c)
    PROVE  AcctReqs'
BY AcctMoved DEF AcctEnds, AcctDone, AcctAsks

\* Arriving requests write no user.
LEMMA AcctRequestQuiet ==
    ASSUME AcctReqs, NEW c \in AcctCall, AcctRequest(c)
    PROVE  AcctReqs' /\ acctUser' = acctUser
<1>1. CASE AcctPoll(c)
  BY <1>1, AcctMoved DEF AcctPoll, AcctAsks, acctTables
<1>2. ASSUME NEW u \in AcctNames, AcctLogin(c, u) PROVE AcctReqs' /\ acctUser' = acctUser
  BY <1>2, AcctMoved DEF AcctLogin, AcctAsks, acctTables
<1>3. ASSUME NEW i \in AcctIds, NEW g \in 0 .. AcctCalls, AcctRefresh(c, i, g)
      PROVE  AcctReqs' /\ acctUser' = acctUser
  BY <1>3, AcctMoved DEF AcctRefresh, AcctAsks, acctTables
<1>4. ASSUME NEW i \in AcctIds, AcctLogout(c, i) PROVE AcctReqs' /\ acctUser' = acctUser
  BY <1>4, AcctMoved DEF AcctLogout, AcctAsks, acctTables
<1>5. ASSUME NEW i \in AcctIds, AcctChangeMine(c, i) PROVE AcctReqs' /\ acctUser' = acctUser
  BY <1>5, AcctMoved DEF AcctChangeMine, AcctAsks, acctTables
<1>6. ASSUME NEW i \in AcctIds, AcctVerify(c, i) PROVE AcctReqs' /\ acctUser' = acctUser
  BY <1>6, AcctMoved DEF AcctVerify, AcctAsks, acctTables
<1>7. ASSUME NEW i \in AcctIds, NEW s \in acctService, AcctServiceRevoked(c, i, s)
      PROVE  AcctReqs' /\ acctUser' = acctUser
  BY <1>7, AcctFinished DEF AcctServiceRevoked
<1>8. ASSUME NEW i \in AcctIds, NEW u \in AcctNames, AcctDelete(c, i, u)
      PROVE  AcctReqs' /\ acctUser' = acctUser
  BY <1>8, AcctMoved DEF AcctDelete, AcctAsks, acctTables
<1>9. ASSUME NEW i \in AcctIds, NEW u \in AcctNames, AcctGrant(c, i, u)
      PROVE  AcctReqs' /\ acctUser' = acctUser
  BY <1>9, AcctMoved DEF AcctGrant, AcctAsks, acctTables
<1>10. ASSUME NEW i \in AcctIds, NEW u \in AcctNames, NEW must \in AcctFlags, AcctReset(c, i, u, must)
       PROVE  AcctReqs' /\ acctUser' = acctUser
  <2>1. must \in BOOLEAN
    BY AcctAssumption
  <2> QED
    BY <2>1, <1>10, AcctMoved DEF AcctReset, AcctAsks, acctTables
<1>11. ASSUME NEW i \in AcctIds, NEW u \in AcctNames, NEW role \in AcctRoles, AcctUpdateRole(c, i, u, role)
       PROVE  AcctReqs' /\ acctUser' = acctUser
  BY <1>11, AcctMoved DEF AcctUpdateRole, AcctAsks, acctTables
<1>12. ASSUME NEW i \in AcctIds, NEW u \in AcctNames, NEW role \in AcctRoles, AcctCreate(c, i, u, role)
       PROVE  AcctReqs' /\ acctUser' = acctUser
  BY <1>12, AcctMoved DEF AcctCreate, AcctAsks, acctTables
<1> QED
  BY <1>1, <1>2, <1>3, <1>4, <1>5, <1>6, <1>7, <1>8, <1>9, <1>10, <1>11, <1>12 DEF AcctRequest

\* The steps that write no user.
LEMMA AcctStepQuiet ==
    ASSUME AcctReqs, NEW c \in AcctCall,
           \/ AcctLoginInserts(c) \/ AcctRotate(c) \/ AcctJudge(c) \/ AcctRefused(c)
           \/ AcctLogoutDeletes(c) \/ AcctRevokes(c) \/ AcctOverrides(c)
           \/ AcctClears(c) \/ AcctServiceInserts(c) \/ AcctAclReplaces(c)
           \/ AcctApproves(c) \/ AcctRunsOut(c) \/ AcctClaims(c) \/ AcctScopes(c)
           \/ AcctMints(c) \/ AcctPutsBack(c)
    PROVE  AcctReqs' /\ acctUser' = acctUser
<1>1. CASE AcctLoginInserts(c)
  BY <1>1, AcctFinished DEF AcctLoginInserts
<1>2. CASE AcctRotate(c)
  <2>1. acctUser' = acctUser
    BY <1>2 DEF AcctRotate
  <2>2. CASE AcctOn(c, "judge")
    BY <2>1, <2>2, AcctOnward
  <2>3. CASE AcctGoes(c, [at |-> "done", op |-> "refresh",
                          id |-> acctReq[c].id, gen |-> acctReq[c].gen])
    BY <2>1, <2>3, AcctMoved DEF AcctAsks
  <2> QED
    BY <1>2, <2>2, <2>3 DEF AcctRotate
<1>3. CASE AcctJudge(c)
  BY <1>3, AcctFinished, AcctOnward DEF AcctJudge, acctTables
<1>4. CASE AcctRefused(c)
  BY <1>4, AcctFinished DEF AcctRefused
<1>5. CASE AcctLogoutDeletes(c)
  BY <1>5, AcctFinished DEF AcctLogoutDeletes
<1>6. CASE AcctRevokes(c)
  BY <1>6, AcctFinished, AcctOnward DEF AcctRevokes
<1>7. CASE AcctOverrides(c)
  BY <1>7, AcctFinished DEF AcctOverrides
<1>8. CASE AcctClears(c)
  BY <1>8, AcctFinished, AcctOnward DEF AcctClears
<1>9. CASE AcctServiceInserts(c) \/ AcctAclReplaces(c)
  BY <1>9, AcctFinished DEF AcctServiceInserts, AcctAclReplaces
<1>10. CASE AcctApproves(c) \/ AcctRunsOut(c) \/ AcctPutsBack(c)
  BY <1>10, AcctFinished DEF AcctApproves, AcctRunsOut, AcctPutsBack
<1>11. CASE AcctClaims(c)
  BY <1>11, AcctFinished, AcctOnward DEF AcctClaims
<1>12. CASE AcctScopes(c)
  <2> DEFINE r == [acctReq[c] EXCEPT !.at = "mint", !.proof = acctProof[acctReq[c].who],
                                     !.over = AcctClamp(acctUser[acctReq[c].who].role)]
  <2>1. acctUser' = acctUser
    BY <1>12 DEF AcctScopes, acctTables
  <2>2. "at" \in DOMAIN acctReq[c]
    BY DEF AcctReqs, AcctAsks
  <2>3. "at" \in DOMAIN r /\ r.at = "mint"
    BY <2>2
  <2>4. AcctOn(c, "putBack") \/ AcctEnds(c) \/ AcctGoes(c, r)
    BY <1>12 DEF AcctScopes
  <2>5. AcctAsks(r)
    BY <2>3 DEF AcctAsks
  <2> HIDE DEF r
  <2> QED
    BY <2>1, <2>4, <2>5, AcctMoved, AcctOnward, AcctFinished
<1>13. CASE AcctMints(c)
  <2>1. acctUser' = acctUser
    BY <1>13 DEF AcctMints
  <2>2. AcctAsks([AcctDone EXCEPT !.op = "poll"])
    BY DEF AcctAsks, AcctDone
  <2> QED
    BY <1>13, <2>1, <2>2, AcctMoved, AcctOnward DEF AcctMints
<1> QED
  BY <1>1, <1>2, <1>3, <1>4, <1>5, <1>6, <1>7, <1>8, <1>9, <1>10, <1>11, <1>12, <1>13

\* The guard inside the statements: who loses the role is not the last one.
LEMMA AnotherAdmin ==
    ASSUME AcctUsers, AcctAdminRemains, NEW u, AcctNotLast(u)
    PROVE  \E v \in AcctAdmins : v # u
<1>1. IsFiniteSet(AcctAdmins)
  <2>1. AcctAdmins \subseteq AcctNames
    BY DEF AcctAdmins
  <2> QED
    BY <2>1, AcctAssumption, FS_Subset
<1>2. CASE u \notin AcctAdmins
  BY <1>2 DEF AcctAdminRemains
<1>3. CASE u \in AcctAdmins
  <2>1. Cardinality(AcctAdmins) > 1
    BY <1>3 DEF AcctNotLast
  <2>2. AcctAdmins # {u}
    <3>1. Cardinality({u}) = 1
      BY FS_Singleton
    <3> QED
      BY <2>1, <3>1
  <2> QED
    BY <2>2, <1>3
<1> QED
  BY <1>2, <1>3

\* A new password changes no role.
LEMMA PasswordKeepsRoles ==
    ASSUME AcctUsers, AcctAdminRemains, NEW u, NEW must \in BOOLEAN, AcctSetPassword(u, must)
    PROVE  AcctUsers' /\ AcctAdminRemains'
<1>1. acctUser' = [acctUser EXCEPT ![u] = IF @ = AcctNone THEN @
                                          ELSE [@ EXCEPT !.must = must]]
  BY DEF AcctSetPassword
<1>2. \A w \in AcctNames : acctUser[w] \in AcctRows =>
         /\ [acctUser[w] EXCEPT !.must = must] \in AcctRows
         /\ [acctUser[w] EXCEPT !.must = must].role = acctUser[w].role
  BY DEF AcctRows
<1>3. AcctUsers'
  BY <1>1, <1>2 DEF AcctUsers
<1>4. PICK w \in AcctNames : acctUser[w] # AcctNone /\ acctUser[w].role = "admin"
  BY DEF AcctAdminRemains, AcctAdmins, AcctExists
<1>5. acctUser[w] \in AcctRows
  BY <1>4 DEF AcctUsers
<1>6. acctUser'[w] # AcctNone /\ acctUser'[w].role = "admin"
  <2>1. AcctNone \notin AcctRows
    BY AcctAssumption DEF AcctRows
  <2> QED
    BY <1>1, <1>2, <1>4, <1>5, <2>1 DEF AcctUsers
<1> QED
  BY <1>3, <1>6 DEF AcctAdminRemains, AcctAdmins, AcctExists

LEMMA AcctStepSafe ==
    ASSUME AcctIInv, NEW c \in AcctCall, AcctStep(c)
    PROVE  AcctIInv'
<1> USE DEF AcctIInv
<1>0. ASSUME AcctReqs' /\ acctUser' = acctUser PROVE AcctIInv'
  BY <1>0 DEF AcctUsers, AcctAdminRemains, AcctAdmins, AcctExists
<1>1. CASE AcctMineUpdates(c)
  BY <1>1, AcctOnward, PasswordKeepsRoles DEF AcctMineUpdates
<1>2. CASE AcctResetUpdates(c)
  <2>1. acctReq[c].must \in BOOLEAN
    BY <1>2 DEF AcctResetUpdates, AcctAt, AcctReqs, AcctAsks
  <2>2. AcctUsers' /\ AcctAdminRemains'
    BY <1>2, <2>1, PasswordKeepsRoles DEF AcctResetUpdates
  <2>3. AcctReqs'
    BY <1>2, AcctOnward, AcctFinished DEF AcctResetUpdates
  <2> QED
    BY <2>2, <2>3
<1>3. CASE AcctCreateInserts(c)
  <2> DEFINE r == acctReq[c]
  <2>1. r.role \in AcctRoles
    BY <1>3 DEF AcctCreateInserts, AcctAt, AcctReqs, AcctAsks
  <2>2. acctUser' = [acctUser EXCEPT ![r.who] =
                       IF @ = AcctNone THEN [role |-> r.role, must |-> FALSE] ELSE @]
    BY <1>3 DEF AcctCreateInserts
  <2>3. [role |-> r.role, must |-> FALSE] \in AcctRows
    BY <2>1 DEF AcctRows
  <2>4. AcctUsers'
    BY <2>2, <2>3 DEF AcctUsers
  <2>5. AcctAdminRemains'
    <3>1. \A w \in AcctAdmins : acctUser'[w] = acctUser[w]
      BY <2>2 DEF AcctAdmins, AcctExists, AcctUsers
    <3> QED
      BY <3>1 DEF AcctAdminRemains, AcctAdmins, AcctExists
  <2>6. AcctReqs'
    BY <1>3, AcctFinished DEF AcctCreateInserts
  <2> QED
    BY <2>4, <2>5, <2>6
<1>4. CASE AcctRoleUpdates(c)
  <2> DEFINE r == acctReq[c]
  <2>1. CASE ~(AcctExists(r.who) /\ (r.role = "admin" \/ AcctNotLast(r.who)))
    <3>1. acctUser' = acctUser
      BY <1>4, <2>1 DEF AcctRoleUpdates
    <3>2. AcctReqs'
      BY <1>4, <2>1, AcctFinished DEF AcctRoleUpdates
    <3> QED
      BY <3>1, <3>2, <1>0
  <2>2. CASE AcctExists(r.who) /\ (r.role = "admin" \/ AcctNotLast(r.who))
    <3>1. acctUser' = [acctUser EXCEPT ![r.who].role = r.role] /\ AcctOn(c, "override")
      BY <1>4, <2>2 DEF AcctRoleUpdates
    <3>2. AcctReqs'
      BY <3>1, AcctOnward
    <3>3. r.role \in AcctRoles
      BY <1>4 DEF AcctRoleUpdates, AcctAt, AcctReqs, AcctAsks
    <3>4. \A w \in AcctNames : acctUser[w] \in AcctRows =>
             /\ [acctUser[w] EXCEPT !.role = r.role] \in AcctRows
             /\ [acctUser[w] EXCEPT !.role = r.role].role = r.role
      BY <3>3 DEF AcctRows
    <3>5. r.who \in AcctNames => acctUser[r.who] \in AcctRows
      BY <2>2 DEF AcctExists, AcctUsers
    <3>6. AcctUsers'
      BY <3>1, <3>4, <3>5 DEF AcctUsers
    <3>7. PICK v \in AcctAdmins : r.role = "admin" \/ v # r.who
      BY <2>2, AnotherAdmin DEF AcctAdminRemains
    <3>8. v \in AcctAdmins'
      <4>1. CASE v # r.who
        <5>1. acctUser'[v] = acctUser[v]
          BY <3>1, <3>7, <4>1 DEF AcctUsers, AcctAdmins
        <5> QED
          BY <5>1, <3>7 DEF AcctAdmins, AcctExists
      <4>2. CASE v = r.who
        <5>1. v \in AcctNames /\ acctUser'[v] = [acctUser[v] EXCEPT !.role = r.role]
          BY <3>1, <3>7, <4>2 DEF AcctUsers, AcctAdmins
        <5>2. acctUser'[v] \in AcctRows /\ acctUser'[v].role = "admin"
          BY <5>1, <3>4, <3>5, <3>7, <4>2
        <5>3. AcctNone \notin AcctRows
          BY AcctAssumption DEF AcctRows
        <5> QED
          BY <5>1, <5>2, <5>3 DEF AcctAdmins, AcctExists
      <4> QED
        BY <4>1, <4>2
    <3> QED
      BY <3>2, <3>6, <3>8 DEF AcctAdminRemains
  <2> QED
    BY <2>1, <2>2
<1>5. CASE AcctDeletes(c)
  <2> DEFINE u == acctReq[c].who
  <2>1. CASE ~(AcctExists(u) /\ AcctNotLast(u))
    <3>1. acctUser' = acctUser
      BY <1>5, <2>1 DEF AcctDeletes
    <3>2. AcctReqs'
      BY <1>5, <2>1, AcctFinished DEF AcctDeletes
    <3> QED
      BY <3>1, <3>2, <1>0
  <2>2. CASE AcctExists(u) /\ AcctNotLast(u)
    <3>1. acctUser' = [acctUser EXCEPT ![u] = AcctNone] /\ AcctOn(c, "tokens")
      BY <1>5, <2>2 DEF AcctDeletes
    <3>2. AcctReqs'
      BY <3>1, AcctOnward
    <3>3. AcctUsers'
      BY <3>1 DEF AcctUsers
    <3>4. PICK v \in AcctAdmins : v # u
      BY <2>2, AnotherAdmin
    <3>5. acctUser'[v] = acctUser[v]
      BY <3>1, <3>4 DEF AcctUsers, AcctAdmins
    <3>6. v \in AcctAdmins'
      BY <3>4, <3>5 DEF AcctAdmins, AcctExists
    <3> QED
      BY <3>2, <3>3, <3>6 DEF AcctAdminRemains
  <2> QED
    BY <2>1, <2>2
<1>6. CASE \/ AcctLoginInserts(c) \/ AcctRotate(c) \/ AcctJudge(c) \/ AcctRefused(c)
           \/ AcctLogoutDeletes(c) \/ AcctRevokes(c) \/ AcctOverrides(c)
           \/ AcctClears(c) \/ AcctServiceInserts(c) \/ AcctAclReplaces(c)
           \/ AcctApproves(c) \/ AcctRunsOut(c) \/ AcctClaims(c) \/ AcctScopes(c)
           \/ AcctMints(c) \/ AcctPutsBack(c)
  <2>1. AcctReqs' /\ acctUser' = acctUser
    BY <1>6, AcctStepQuiet
  <2> QED
    BY <2>1, <1>0
<1> QED
  BY <1>1, <1>2, <1>3, <1>4, <1>5, <1>6 DEF AcctStep

\* AcctIInv is inductive.
LEMMA AcctIInit ==
    ASSUME AcctInit
    PROVE  AcctIInv
<1>1. acctUser = [u \in AcctNames |-> [role |-> "admin", must |-> FALSE]]
  BY DEF AcctInit
<1>2. [role |-> "admin", must |-> FALSE] \in AcctRows
  BY AcctAssumption DEF AcctRows
<1>3. AcctUsers
  BY <1>1, <1>2 DEF AcctUsers
<1>4. AcctReqs
  BY DEF AcctInit, AcctReqs, AcctAsks, AcctIdle
<1>5. PICK u \in AcctNames : TRUE
  BY AcctAssumption
<1>6. acctUser[u].role = "admin" /\ acctUser[u] # AcctNone
  <2>1. AcctNone \notin AcctRows
    BY AcctAssumption DEF AcctRows
  <2>2. acctUser[u] = [role |-> "admin", must |-> FALSE]
    BY <1>1
  <2>3. [role |-> "admin", must |-> FALSE].role = "admin"
    OBVIOUS
  <2>4. acctUser[u].role = "admin"
    BY <2>2, <2>3
  <2>5. acctUser[u] # AcctNone
    BY <2>1, <2>2, <1>2
  <2> QED
    BY <2>4, <2>5
<1> QED
  BY <1>3, <1>4, <1>6 DEF AcctIInv, AcctAdminRemains, AcctAdmins, AcctExists

LEMMA AcctINext ==
    ASSUME AcctIInv, [AcctNext]_acctVars
    PROVE  AcctIInv'
<1>0. ASSUME AcctReqs' /\ acctUser' = acctUser PROVE AcctIInv'
  BY <1>0 DEF AcctIInv, AcctUsers, AcctAdminRemains, AcctAdmins, AcctExists
<1>1. ASSUME NEW c \in AcctCall, AcctRequest(c) PROVE AcctIInv'
  BY <1>0, <1>1, AcctRequestQuiet DEF AcctIInv
<1>2. ASSUME NEW c \in AcctCall, AcctStep(c) PROVE AcctIInv'
  BY <1>2, AcctStepSafe
<1>3. ASSUME UNCHANGED <<acctUser, acctReq>> PROVE AcctIInv'
  BY <1>0, <1>3 DEF AcctIInv, AcctReqs
<1>4. CASE AcctCodeCreated \/ AcctTime \/ UNCHANGED acctVars
  BY <1>3, <1>4 DEF AcctCodeCreated, AcctTime, acctVars, acctTables
<1> QED
  BY <1>1, <1>2, <1>4 DEF AcctNext

\* The account database is never left without an administrator: the guard
\* that the demoting and the deleting statement repeat (handlers_users.go)
\* does for every interleaving what the check before them does for one.
THEOREM AdminRemains == AcctSpec => []AcctAdminRemains
<1>1. AcctIInv => AcctAdminRemains
  BY DEF AcctIInv
<1> QED
  BY <1>1, AcctIInit, AcctINext, PTL DEF AcctSpec

-----------------------------------------------------------------------------
(* What the tables and the requests hold.                                  *)

AcctOvers == {"user", "viewer", "monitor", "admin", AcctNone}
AcctRecords ==
    [user : AcctNames, over : AcctOvers, gen : Nat, graceOver : BOOLEAN, expired : BOOLEAN,
     proof : Nat, late : BOOLEAN]
AcctGrants == [user : AcctNames, life : Nat, late : BOOLEAN]

\* A request, by what it holds between its statements.
AcctPlain == [at : {"idle", "done"}, op : {"none", "poll"}]
AcctSpent == [at : {"done"}, op : {"refresh"}, id : AcctIds, gen : Nat]
AcctLogins == [at : {"login"}, op : {"login"}, who : AcctNames, proof : Nat]
AcctRefreshes ==
    [at : {"rotate", "judge", "kill", "prune"}, op : {"refresh"}, id : AcctIds, gen : Nat,
     late : BOOLEAN]
AcctLogouts == [at : {"logout"}, op : {"logout"}, id : AcctIds, gen : Nat]
AcctRevokings == [at : {"revoke"}, op : {"logout"}, id : AcctIds, who : AcctNames]
AcctChanges ==
    [at : {"mine", "others"}, op : {"password"}, id : AcctIds, gen : Nat, who : AcctNames]
AcctResets == [at : {"reset", "all"}, op : {"password"}, who : AcctNames, must : BOOLEAN]
AcctCreations == [at : {"create"}, op : {"create"}, who : AcctNames, role : AcctRoles]
AcctUpdates == [at : {"role", "override"}, op : {"role"}, who : AcctNames, role : AcctRoles]
AcctDeletions ==
    [at : {"delete", "tokens", "services", "acl"}, op : {"delete"}, who : AcctNames]
AcctGrantings == [at : {"service", "grant"}, op : {"grant"}, who : AcctNames, life : Nat]
AcctVerifications == [at : {"approve", "runOut"}, op : {"verify"}, who : AcctNames]
AcctRunOuts == [at : {"runOut"}, op : {"run out"}]
AcctPolls ==
    [at : {"claim", "scope", "mint", "putBack"}, op : {"poll"}, who : AcctNames, proof : Nat,
     over : AcctOvers]
AcctShapes ==
    AcctPlain \cup AcctSpent \cup AcctLogins \cup AcctRefreshes \cup AcctLogouts
    \cup AcctRevokings \cup AcctChanges \cup AcctResets \cup AcctCreations \cup AcctUpdates
    \cup AcctDeletions \cup AcctGrantings \cup AcctVerifications \cup AcctRunOuts \cup AcctPolls

AcctTablesTyped ==
    /\ acctProof \in [AcctNames -> Nat] /\ acctLife \in [AcctNames -> Nat]
    /\ acctSession \in [AcctIds -> AcctRecords \cup {AcctNone}]
    /\ acctService \subseteq AcctGrants /\ acctAcl \subseteq AcctGrants
    /\ acctCode \in [status : {"none", "pending", "approved", "expired"},
                     user : AcctNames \cup {AcctNone}, ripe : BOOLEAN]
AcctTyped == AcctTablesTyped /\ acctReq \in [AcctCall -> AcctShapes]

\* The call that adds a session has done so: its id is not used again.
AcctBorn(i) == i = 1 \/ acctReq[i - 1].at = "done"

\* A session is known to a request only once it was added, and has one user.
AcctIdsBorn ==
    /\ \A i \in AcctIds : AcctLive(i) => AcctBorn(i)
    /\ \A c \in AcctCall :
          /\ acctReq[c] \in AcctSpent \cup AcctChanges => AcctBorn(acctReq[c].id)
          /\ acctReq[c] \in AcctChanges /\ AcctLive(acctReq[c].id) =>
                acctSession[acctReq[c].id].user = acctReq[c].who

\* What was spent was spent once, and the generation of its session has passed it.
AcctGenerations ==
    /\ \A c \in AcctCall : acctReq[c] \in AcctSpent /\ AcctLive(acctReq[c].id) =>
          acctSession[acctReq[c].id].gen > acctReq[c].gen
    /\ \A c, d \in AcctCall : acctReq[c] \in AcctSpent /\ acctReq[c] = acctReq[d] => c = d

\* A poll that has claimed the approval, up to the session it bought.
AcctClaimed(c) ==
    acctReq[c].op = "poll" /\ acctReq[c].at \in {"scope", "mint", "putBack", "done"}

AcctOneClaim ==
    /\ \A c \in AcctCall : AcctClaimed(c) => acctCode.status = "expired"
    /\ \A c, d \in AcctCall : AcctClaimed(c) /\ AcctClaimed(d) => c = d
    /\ acctCode.status = "approved" \/ (\E c \in AcctCall : acctReq[c] \in AcctPolls) =>
          acctCode.user \in AcctNames

AcctSpendInv == AcctTyped /\ AcctIdsBorn /\ AcctGenerations /\ AcctOneClaim

\* The call is about to revoke session i of u.
AcctWillRevoke(c, i, u) ==
    /\ acctReq[c].at \in {"others", "all", "tokens"} /\ acctReq[c].who = u
    /\ acctReq[c].at = "others" => acctReq[c].id # i

AcctFresh(i) ==
    \/ acctSession[i].proof = acctProof[acctSession[i].user]
    \/ acctSession[i].late

\* A session that is spared by the change of a password is on the new one, or about to be
\* revoked by another request.
AcctSparedFresh ==
    \A c \in AcctCall : acctReq[c].at = "others" /\ AcctLive(acctReq[c].id) =>
        \/ AcctFresh(acctReq[c].id)
        \/ \E d \in AcctCall : AcctWillRevoke(d, acctReq[c].id, acctReq[c].who)

AcctSessionsFresh ==
    \A i \in AcctIds : AcctLive(i) =>
        \/ AcctFresh(i)
        \/ \E c \in AcctCall : /\ acctReq[c].at \in {"others", "all", "tokens"}
                               /\ acctReq[c].who = acctSession[i].user

\* The statements of a deletion clear the tables in turn.
AcctWillClear(u, ats) == \E c \in AcctCall : acctReq[c].at \in ats /\ acctReq[c].who = u
AcctGrantsFresh ==
    /\ \A x \in acctService : x.life = acctLife[x.user] \/ x.late
                                 \/ AcctWillClear(x.user, {"tokens", "services"})
    /\ \A x \in acctAcl : x.life = acctLife[x.user] \/ x.late
                             \/ AcctWillClear(x.user, {"tokens", "services", "acl"})

AcctFreshInv == AcctSparedFresh /\ AcctSessionsFresh /\ AcctGrantsFresh

\* Where a request is tells what it holds.
AcctPlaced(r) ==
    /\ r.at = "login" => r \in AcctLogins
    /\ r.at \in {"rotate", "judge", "kill", "prune"} => r \in AcctRefreshes
    /\ r.at = "logout" => r \in AcctLogouts
    /\ r.at = "revoke" => r \in AcctRevokings
    /\ r.at \in {"mine", "others"} => r \in AcctChanges
    /\ r.at \in {"reset", "all"} => r \in AcctResets
    /\ r.at = "create" => r \in AcctCreations
    /\ r.at \in {"role", "override"} => r \in AcctUpdates
    /\ r.at \in {"delete", "tokens", "services", "acl"} => r \in AcctDeletions
    /\ r.at \in {"service", "grant"} => r \in AcctGrantings
    /\ r.at = "approve" => r \in AcctVerifications
    /\ r.at \in {"claim", "scope", "mint", "putBack"} => r \in AcctPolls
    /\ r.at = "done" => r \in AcctPlain \cup AcctSpent
    /\ r.at = "idle" => r \in AcctPlain

LEMMA AcctShapeAt ==
    ASSUME NEW r \in AcctShapes
    PROVE  AcctPlaced(r)
<1>1. CASE r \in AcctPlain
  BY <1>1 DEF AcctPlain, AcctPlaced
<1>2. CASE r \in AcctSpent
  BY <1>2 DEF AcctSpent, AcctPlaced
<1>3. CASE r \in AcctLogins
  BY <1>3 DEF AcctLogins, AcctPlaced
<1>4. CASE r \in AcctRefreshes
  BY <1>4 DEF AcctRefreshes, AcctPlaced
<1>5. CASE r \in AcctLogouts
  BY <1>5 DEF AcctLogouts, AcctPlaced
<1>6. CASE r \in AcctRevokings
  BY <1>6 DEF AcctRevokings, AcctPlaced
<1>7. CASE r \in AcctChanges
  BY <1>7 DEF AcctChanges, AcctPlaced
<1>8. CASE r \in AcctResets
  BY <1>8 DEF AcctResets, AcctPlaced
<1>9. CASE r \in AcctCreations
  BY <1>9 DEF AcctCreations, AcctPlaced
<1>10. CASE r \in AcctUpdates
  BY <1>10 DEF AcctUpdates, AcctPlaced
<1>11. CASE r \in AcctDeletions
  BY <1>11 DEF AcctDeletions, AcctPlaced
<1>12. CASE r \in AcctGrantings
  BY <1>12 DEF AcctGrantings, AcctPlaced
<1>13. CASE r \in AcctVerifications
  BY <1>13 DEF AcctVerifications, AcctPlaced
<1>14. CASE r \in AcctRunOuts
  BY <1>14 DEF AcctRunOuts, AcctPlaced
<1>15. CASE r \in AcctPolls
  BY <1>15 DEF AcctPolls, AcctPlaced
<1> QED
  BY <1>1, <1>2, <1>3, <1>4, <1>5, <1>6, <1>7, <1>8,
     <1>9, <1>10, <1>11, <1>12, <1>13, <1>14, <1>15 DEF AcctShapes

\* And what it holds tells where it can be.
LEMMA AcctShapeIs ==
    ASSUME NEW r
    PROVE  /\ r \in AcctSpent => r.at = "done" /\ r.op = "refresh" /\ r.id \in AcctIds /\ r.gen \in Nat
           /\ r \in AcctChanges => /\ r.at \in {"mine", "others"} /\ r.op = "password"
                                   /\ r.id \in AcctIds /\ r.who \in AcctNames
           /\ r \in AcctPolls => /\ r.at \in {"claim", "scope", "mint", "putBack"}
                                 /\ r.op = "poll" /\ r.who \in AcctNames
           /\ r \in AcctPlain => r.at \in {"idle", "done"} /\ r.op \in {"none", "poll"}
BY DEF AcctSpent, AcctChanges, AcctPolls, AcctPlain

\* A request that goes on keeps what it holds.
LEMMA AcctGoesOn ==
    ASSUME AcctTyped, NEW c \in AcctCall, NEW r \in AcctShapes, AcctGoes(c, r)
    PROVE  /\ acctReq' \in [AcctCall -> AcctShapes] /\ acctReq'[c] = r
           /\ \A d \in AcctCall : d # c => acctReq'[d] = acctReq[d]
BY DEF AcctTyped, AcctGoes

LEMMA AcctContinues ==
    ASSUME AcctTyped, NEW c \in AcctCall, NEW at, AcctOn(c, at)
    PROVE  \E r : /\ AcctGoes(c, r) /\ r.at = at
                  /\ acctReq[c] \in AcctRefreshes /\ at \in {"judge", "kill", "prune"} =>
                        r \in AcctRefreshes
                  /\ acctReq[c] \in AcctChanges /\ at = "others" =>
                        /\ r \in AcctChanges
                        /\ r.id = acctReq[c].id /\ r.gen = acctReq[c].gen /\ r.who = acctReq[c].who
                  /\ acctReq[c] \in AcctResets /\ at = "all" =>
                        r \in AcctResets /\ r.who = acctReq[c].who
                  /\ acctReq[c] \in AcctUpdates /\ at = "override" => r \in AcctUpdates
                  /\ acctReq[c] \in AcctDeletions /\ at \in {"tokens", "services", "acl"} =>
                        r \in AcctDeletions /\ r.who = acctReq[c].who
                  /\ acctReq[c] \in AcctPolls /\ at \in {"scope", "putBack"} =>
                        r \in AcctPolls /\ r.who = acctReq[c].who
<1> DEFINE q == acctReq[c]
<1> DEFINE r == [q EXCEPT !.at = at]
<1>1. AcctGoes(c, r)
  BY DEF AcctOn
<1>2. q \in AcctShapes
  BY DEF AcctTyped
<1>3. r.at = at
  BY <1>2 DEF AcctShapes, AcctPlain, AcctSpent, AcctLogins, AcctRefreshes, AcctLogouts,
      AcctRevokings, AcctChanges, AcctResets, AcctCreations, AcctUpdates, AcctDeletions,
      AcctGrantings, AcctVerifications, AcctRunOuts, AcctPolls
<1> HIDE DEF q
<1>4. q \in AcctRefreshes /\ at \in {"judge", "kill", "prune"} => r \in AcctRefreshes
  BY DEF AcctRefreshes
<1>5. q \in AcctChanges /\ at = "others" =>
          r \in AcctChanges /\ r.id = q.id /\ r.gen = q.gen /\ r.who = q.who
  BY DEF AcctChanges
<1>6. q \in AcctResets /\ at = "all" => r \in AcctResets /\ r.who = q.who
  BY DEF AcctResets
<1>7. q \in AcctUpdates /\ at = "override" => r \in AcctUpdates
  BY DEF AcctUpdates
<1>8. q \in AcctDeletions /\ at \in {"tokens", "services", "acl"} =>
          r \in AcctDeletions /\ r.who = q.who
  BY DEF AcctDeletions
<1>9. q \in AcctPolls /\ at \in {"scope", "putBack"} => r \in AcctPolls /\ r.who = q.who
  BY DEF AcctPolls
<1> HIDE DEF r
<1> QED
  BY <1>1, <1>3, <1>4, <1>5, <1>6, <1>7, <1>8, <1>9 DEF q

\* A request that ends holds nothing.
LEMMA AcctEnding ==
    ASSUME NEW c, AcctEnds(c)
    PROVE  AcctGoes(c, AcctDone) /\ AcctDone \in AcctPlain /\ AcctDone.at = "done" /\ AcctDone.op = "none"
BY DEF AcctEnds, AcctDone, AcctPlain

-----------------------------------------------------------------------------
(* What the actions do to the request that takes them.                     *)

AcctBegun == {"login", "rotate", "logout", "revoke", "mine", "reset", "create", "role", "delete",
              "service", "grant", "approve", "runOut", "claim", "done"}

\* An arriving request takes note of a session or of an approval that is there.
AcctNoted(r) ==
    /\ r \in AcctShapes /\ r.at \in AcctBegun
    /\ r.at = "done" => r = AcctDone
    /\ r.at = "mine" => AcctLive(r.id) /\ acctSession[r.id].user = r.who
    /\ r.at = "claim" => acctCode.status = "approved"

\* It writes nothing, but for a service token that is revoked.
LEMMA AcctArrival ==
    ASSUME AcctTyped, AcctOneClaim, NEW c \in AcctCall, AcctRequest(c)
    PROVE  /\ acctReq[c].at = "idle"
           /\ acctService' \subseteq acctService
           /\ UNCHANGED <<acctLife, acctProof, acctSession, acctAcl, acctCode>>
           /\ \E r : AcctGoes(c, r) /\ AcctNoted(r)
<1> DEFINE Result == /\ AcctArrives(c) /\ acctService' \subseteq acctService
                     /\ UNCHANGED <<acctLife, acctProof, acctSession, acctAcl, acctCode>>
                     /\ \E r : AcctGoes(c, r) /\ AcctNoted(r)
<1>0. ASSUME Result PROVE acctReq[c].at = "idle"
  BY <1>0 DEF AcctArrives, AcctIdle
<1>1. ASSUME NEW i \in AcctIds, AcctLive(i)
      PROVE  acctSession[i].user \in AcctNames /\ acctSession[i].gen \in Nat
  BY <1>1 DEF AcctTyped, AcctTablesTyped, AcctLive, AcctRecords
<1>2. ASSUME AcctPoll(c) PROVE Result
  <2>1. AcctArrives(c) /\ UNCHANGED acctTables
    BY <1>2 DEF AcctPoll
  <2>2. CASE ~acctCode.ripe /\ acctCode.status = "approved" /\
             AcctGoes(c, [at |-> "claim", op |-> "poll", who |-> acctCode.user,
                          proof |-> 0, over |-> AcctNone])
    <3> DEFINE r == [at |-> "claim", op |-> "poll", who |-> acctCode.user,
                     proof |-> 0, over |-> AcctNone]
    <3>1. r \in AcctPolls
      BY <2>2 DEF AcctOneClaim, AcctPolls, AcctOvers
    <3>2. AcctNoted(r)
      BY <2>2, <3>1 DEF AcctNoted, AcctShapes, AcctBegun
    <3> QED
      BY <2>1, <2>2, <3>2 DEF acctTables
  <2>3. CASE AcctGoes(c, [at |-> "runOut", op |-> "run out"])
    <3> DEFINE r == [at |-> "runOut", op |-> "run out"]
    <3>1. r \in AcctRunOuts
      BY DEF AcctRunOuts
    <3>2. AcctNoted(r)
      BY <3>1 DEF AcctNoted, AcctShapes, AcctBegun
    <3> QED
      BY <2>1, <2>3, <3>2 DEF acctTables
  <2> QED
    BY <1>2, <2>2, <2>3 DEF AcctPoll
<1>3. ASSUME NEW u \in AcctNames, AcctLogin(c, u) PROVE Result
  <2> DEFINE r == [at |-> "login", op |-> "login", who |-> u, proof |-> acctProof[u]]
  <2>1. AcctGoes(c, r) /\ AcctArrives(c) /\ UNCHANGED acctTables
    BY <1>3 DEF AcctLogin
  <2>2. r \in AcctLogins
    BY <1>3 DEF AcctLogin, AcctLogins, AcctTyped, AcctTablesTyped
  <2>3. AcctNoted(r)
    BY <2>2 DEF AcctNoted, AcctShapes, AcctBegun
  <2> QED
    BY <2>1, <2>3 DEF acctTables
<1>4. ASSUME NEW i \in AcctIds, NEW g \in 0 .. AcctCalls, AcctRefresh(c, i, g) PROVE Result
  <2> DEFINE r == [at |-> "rotate", op |-> "refresh", id |-> i, gen |-> g,
                   late |-> acctSession[i].gen = g + 1 /\ acctSession[i].graceOver]
  <2>1. AcctGoes(c, r) /\ AcctArrives(c) /\ UNCHANGED acctTables
    BY <1>4 DEF AcctRefresh
  <2>2. r \in AcctRefreshes
    BY <1>4, <1>1 DEF AcctRefresh, AcctRefreshes
  <2>3. AcctNoted(r)
    BY <2>2 DEF AcctNoted, AcctShapes, AcctBegun
  <2> QED
    BY <2>1, <2>3 DEF acctTables
<1>5. ASSUME NEW i \in AcctIds, AcctLogout(c, i) PROVE Result
  <2>1. AcctArrives(c) /\ UNCHANGED acctTables
    BY <1>5 DEF AcctLogout
  <2>2. AcctLive(i)
    BY <1>5 DEF AcctLogout, AcctHumanAny, AcctLogged
  <2>3. CASE AcctGoes(c, [at |-> "logout", op |-> "logout", id |-> i,
                          gen |-> acctSession[i].gen])
    <3> DEFINE r == [at |-> "logout", op |-> "logout", id |-> i, gen |-> acctSession[i].gen]
    <3>1. r \in AcctLogouts
      BY <1>1, <2>2 DEF AcctLogouts
    <3>2. AcctNoted(r)
      BY <3>1 DEF AcctNoted, AcctShapes, AcctBegun
    <3> QED
      BY <2>1, <2>3, <3>2 DEF acctTables
  <2>4. ASSUME NEW j \in AcctOf(acctSession[i].user),
               AcctGoes(c, [at |-> "revoke", op |-> "logout", id |-> j,
                            who |-> acctSession[i].user])
        PROVE  Result
    <3> DEFINE r == [at |-> "revoke", op |-> "logout", id |-> j, who |-> acctSession[i].user]
    <3>1. r \in AcctRevokings
      BY <1>1, <2>2 DEF AcctRevokings, AcctOf
    <3>2. AcctNoted(r)
      BY <3>1 DEF AcctNoted, AcctShapes, AcctBegun
    <3> QED
      BY <2>1, <2>4, <3>2 DEF acctTables
  <2> QED
    BY <1>5, <2>3, <2>4 DEF AcctLogout
<1>6. ASSUME NEW i \in AcctIds, AcctChangeMine(c, i) PROVE Result
  <2> DEFINE r == [at |-> "mine", op |-> "password", id |-> i,
                   gen |-> acctSession[i].gen, who |-> acctSession[i].user]
  <2>1. AcctGoes(c, r) /\ AcctArrives(c) /\ UNCHANGED acctTables /\ AcctLive(i)
    BY <1>6 DEF AcctChangeMine, AcctHumanAny, AcctLogged
  <2>2. r \in AcctChanges
    BY <1>1, <2>1 DEF AcctChanges
  <2>3. AcctNoted(r)
    BY <2>1, <2>2 DEF AcctNoted, AcctShapes, AcctBegun
  <2> QED
    BY <2>1, <2>3 DEF acctTables
<1>7. ASSUME NEW i \in AcctIds, AcctVerify(c, i) PROVE Result
  <2> DEFINE r == [at |-> IF acctCode.ripe THEN "runOut" ELSE "approve",
                   op |-> "verify", who |-> acctSession[i].user]
  <2>1. AcctGoes(c, r) /\ AcctArrives(c) /\ UNCHANGED acctTables /\ AcctLive(i)
    BY <1>7 DEF AcctVerify, AcctHuman, AcctLogged
  <2>2. r \in AcctVerifications
    BY <1>1, <2>1 DEF AcctVerifications
  <2>3. AcctNoted(r)
    BY <2>1, <2>2 DEF AcctNoted, AcctShapes, AcctBegun
  <2> QED
    BY <2>1, <2>3 DEF acctTables
<1>8. ASSUME NEW i \in AcctIds, NEW s \in acctService, AcctServiceRevoked(c, i, s) PROVE Result
  <2>1. AcctGoes(c, AcctDone) /\ AcctArrives(c) /\ acctService' \subseteq acctService
    BY <1>8 DEF AcctServiceRevoked, AcctEnds
  <2>2. AcctDone \in AcctPlain
    BY DEF AcctDone, AcctPlain
  <2>3. AcctNoted(AcctDone)
    BY <2>2 DEF AcctNoted, AcctShapes, AcctBegun, AcctDone
  <2> QED
    BY <1>8, <2>1, <2>3 DEF AcctServiceRevoked
<1>9. ASSUME NEW i \in AcctIds, NEW u \in AcctNames, AcctDelete(c, i, u) PROVE Result
  <2> DEFINE r == [at |-> "delete", op |-> "delete", who |-> u]
  <2>1. AcctGoes(c, r) /\ AcctArrives(c) /\ UNCHANGED acctTables
    BY <1>9 DEF AcctDelete
  <2>2. r \in AcctDeletions
    BY <1>9 DEF AcctDelete, AcctDeletions
  <2>3. AcctNoted(r)
    BY <2>2 DEF AcctNoted, AcctShapes, AcctBegun
  <2> QED
    BY <2>1, <2>3 DEF acctTables
<1>10. ASSUME NEW i \in AcctIds, NEW u \in AcctNames, AcctGrant(c, i, u) PROVE Result
  <2>1. PICK at \in {"service", "grant"} :
          AcctGoes(c, [at |-> at, op |-> "grant", who |-> u, life |-> acctLife[u]])
    BY <1>10 DEF AcctGrant
  <2> DEFINE r == [at |-> at, op |-> "grant", who |-> u, life |-> acctLife[u]]
  <2>2. AcctGoes(c, r) /\ AcctArrives(c) /\ UNCHANGED acctTables
    BY <1>10, <2>1 DEF AcctGrant
  <2>3. r \in AcctGrantings
    BY DEF AcctGrantings, AcctTyped, AcctTablesTyped
  <2>4. AcctNoted(r)
    BY <2>3 DEF AcctNoted, AcctShapes, AcctBegun
  <2> QED
    BY <2>2, <2>4 DEF acctTables
<1>11. ASSUME NEW i \in AcctIds, NEW u \in AcctNames, NEW must \in AcctFlags, AcctReset(c, i, u, must) PROVE Result
  <2> DEFINE r == [at |-> "reset", op |-> "password", who |-> u, must |-> must]
  <2>1. AcctGoes(c, r) /\ AcctArrives(c) /\ UNCHANGED acctTables
    BY <1>11 DEF AcctReset
  <2>2. r \in AcctResets
    BY <1>11, AcctAssumption DEF AcctReset, AcctResets
  <2>3. AcctNoted(r)
    BY <2>2 DEF AcctNoted, AcctShapes, AcctBegun
  <2> QED
    BY <2>1, <2>3 DEF acctTables
<1>12. ASSUME NEW i \in AcctIds, NEW u \in AcctNames, NEW role \in AcctRoles, AcctUpdateRole(c, i, u, role) PROVE Result
  <2> DEFINE r == [at |-> "role", op |-> "role", who |-> u, role |-> role]
  <2>1. AcctGoes(c, r) /\ AcctArrives(c) /\ UNCHANGED acctTables
    BY <1>12 DEF AcctUpdateRole
  <2>2. r \in AcctUpdates
    BY <1>12 DEF AcctUpdateRole, AcctUpdates
  <2>3. AcctNoted(r)
    BY <2>2 DEF AcctNoted, AcctShapes, AcctBegun
  <2> QED
    BY <2>1, <2>3 DEF acctTables
<1>13. ASSUME NEW i \in AcctIds, NEW u \in AcctNames, NEW role \in AcctRoles, AcctCreate(c, i, u, role) PROVE Result
  <2> DEFINE r == [at |-> "create", op |-> "create", who |-> u, role |-> role]
  <2>1. AcctGoes(c, r) /\ AcctArrives(c) /\ UNCHANGED acctTables
    BY <1>13 DEF AcctCreate
  <2>2. r \in AcctCreations
    BY <1>13 DEF AcctCreate, AcctCreations
  <2>3. AcctNoted(r)
    BY <2>2 DEF AcctNoted, AcctShapes, AcctBegun
  <2> QED
    BY <2>1, <2>3 DEF acctTables
<1>14. Result
  BY <1>2, <1>3, <1>4, <1>5, <1>6, <1>7, <1>8, <1>9, <1>10, <1>11, <1>12, <1>13 DEF AcctRequest
<1> QED
  BY <1>0, <1>14

-----------------------------------------------------------------------------
(* What most statements do: keep the sessions as they are but for what no  *)
(* invariant looks at, remove some, or add the one of the call.            *)

AcctSessionKept(i) ==
    /\ AcctLive(i)
    /\ acctSession'[i].user = acctSession[i].user /\ acctSession'[i].gen >= acctSession[i].gen
    /\ acctSession'[i].proof = acctSession[i].proof /\ acctSession'[i].late = acctSession[i].late

LEMMA AcctSpendKeeps ==
    ASSUME AcctSpendInv, NEW c \in AcctCall, NEW r \in AcctShapes, AcctGoes(c, r),
           acctReq[c].at # "done", AcctTablesTyped',
           \A i \in AcctIds : AcctLive(i)' =>
              \/ /\ AcctLive(i) /\ acctSession'[i].user = acctSession[i].user
                 /\ acctSession'[i].gen >= acctSession[i].gen
              \/ i = c + 1 /\ r.at = "done",
           r \in AcctSpent => /\ AcctBorn(r.id) /\ \A d \in AcctCall : acctReq[d] # r
                             /\ (AcctLive(r.id)' => acctSession'[r.id].gen > r.gen),
           r \in AcctChanges => AcctBorn(r.id) /\ (AcctLive(r.id)' => acctSession'[r.id].user = r.who)
    PROVE  AcctTyped' /\ AcctIdsBorn' /\ AcctGenerations'
<1>1. /\ AcctTyped' /\ acctReq'[c] = r
      /\ \A d \in AcctCall : d # c => acctReq'[d] = acctReq[d]
  BY AcctGoesOn DEF AcctSpendInv, AcctTyped
<1>2. c \in Nat /\ c # 0 /\ \A i \in AcctIds : i \in Nat /\ (i # 1 => i - 1 \in AcctCall)
  BY AcctAssumption DEF AcctCall, AcctIds
<1>3. ASSUME NEW i \in AcctIds, AcctBorn(i) PROVE AcctBorn(i)'
  BY <1>1, <1>2, <1>3 DEF AcctBorn
<1>4. \A i \in AcctIds : AcctLive(i) => AcctBorn(i)
  BY DEF AcctSpendInv, AcctIdsBorn
<1>5. \A i \in AcctIds : AcctLive(i)' => AcctBorn(i)'
  <2> SUFFICES ASSUME NEW i \in AcctIds, AcctLive(i)' PROVE AcctBorn(i)'
    OBVIOUS
  <2>1. CASE i = c + 1 /\ r.at = "done"
    <3>1. i - 1 = c
      BY <1>2, <2>1
    <3> QED
      BY <3>1, <1>1, <2>1 DEF AcctBorn
  <2> QED
    BY <1>3, <1>4, <2>1
\* A session that is new has an id that no request knew.
<1>6. ASSUME NEW i \in AcctIds, AcctBorn(i), AcctLive(i)'
      PROVE  /\ AcctLive(i) /\ acctSession'[i].user = acctSession[i].user
             /\ acctSession'[i].gen >= acctSession[i].gen
  <2>1. i # c + 1
    <3> SUFFICES ASSUME i = c + 1 PROVE FALSE
      OBVIOUS
    <3>1. i # 1 /\ i - 1 = c
      BY <1>2
    <3> QED
      BY <3>1, <1>6 DEF AcctBorn
  <2> QED
    BY <2>1, <1>6
<1>7. ASSUME NEW d \in AcctCall, NEW q \in AcctShapes, acctReq'[d] = q
      PROVE  /\ q \in AcctSpent \cup AcctChanges => AcctBorn(q.id)'
             /\ q \in AcctChanges /\ AcctLive(q.id)' => acctSession'[q.id].user = q.who
             /\ q \in AcctSpent /\ AcctLive(q.id)' => acctSession'[q.id].gen > q.gen
  <2>0. q \in AcctSpent \cup AcctChanges => q.id \in AcctIds
    BY AcctShapeIs
  <2>1. CASE d = c
    BY <2>0, <2>1, <1>1, <1>3, <1>7
  <2>2. CASE d # c
    <3>1. acctReq[d] = q
      BY <1>1, <1>7, <2>2
    <3>2. q \in AcctSpent \cup AcctChanges => AcctBorn(q.id)
      BY <3>1 DEF AcctSpendInv, AcctIdsBorn
    <3>3. q \in AcctSpent \cup AcctChanges => AcctBorn(q.id)'
      BY <2>0, <3>2, <1>3
    <3>4. q \in AcctChanges /\ AcctLive(q.id)' => acctSession'[q.id].user = q.who
      BY <2>0, <3>1, <3>2, <1>6 DEF AcctSpendInv, AcctIdsBorn
    <3>5. q \in AcctSpent /\ AcctLive(q.id)' => acctSession'[q.id].gen > q.gen
      <4> SUFFICES ASSUME q \in AcctSpent, AcctLive(q.id)' PROVE acctSession'[q.id].gen > q.gen
        OBVIOUS
      <4>1. q.id \in AcctIds /\ AcctLive(q.id) /\ acctSession'[q.id].gen >= acctSession[q.id].gen
        BY <2>0, <3>2, <1>6
      <4>2. acctSession[q.id].gen > q.gen
        BY <3>1, <4>1 DEF AcctSpendInv, AcctGenerations
      <4>3. acctSession[q.id].gen \in Nat /\ acctSession'[q.id].gen \in Nat
        BY <4>1 DEF AcctSpendInv, AcctTyped, AcctTablesTyped, AcctLive, AcctRecords
      <4>4. q.gen \in Nat
        BY AcctShapeIs
      <4> QED
        BY <4>1, <4>2, <4>3, <4>4
    <3> QED
      BY <3>3, <3>4, <3>5
  <2> QED
    BY <2>1, <2>2
<1>8. \A d \in AcctCall : acctReq'[d] \in AcctShapes
  BY <1>1 DEF AcctTyped
<1>9. \A d, e \in AcctCall : acctReq'[d] \in AcctSpent /\ acctReq'[d] = acctReq'[e] => d = e
  BY <1>1 DEF AcctSpendInv, AcctGenerations
<1> QED
  BY <1>1, <1>5, <1>7, <1>8, <1>9 DEF AcctIdsBorn, AcctGenerations

\* A statement that leaves the code alone, of a request that has claimed no more than before.
LEMMA AcctClaimKeeps ==
    ASSUME AcctSpendInv, NEW c \in AcctCall, NEW r \in AcctShapes, AcctGoes(c, r),
           acctCode'.status = acctCode.status, acctCode'.user = acctCode.user,
           r \in AcctPolls => acctReq[c] \in AcctPolls \/ acctCode.status = "approved",
           r.op = "poll" /\ r.at \in {"scope", "mint", "putBack", "done"} => AcctClaimed(c)
    PROVE  AcctOneClaim'
<1>1. acctReq'[c] = r /\ \A d \in AcctCall : d # c => acctReq'[d] = acctReq[d]
  BY AcctGoesOn DEF AcctSpendInv
<1>2. \A d \in AcctCall : AcctClaimed(d)' => AcctClaimed(d)
  BY <1>1 DEF AcctClaimed
<1>3. (\E d \in AcctCall : acctReq'[d] \in AcctPolls) =>
         acctCode.status = "approved" \/ \E d \in AcctCall : acctReq[d] \in AcctPolls
  BY <1>1
<1> QED
  BY <1>2, <1>3 DEF AcctSpendInv, AcctOneClaim

\* The places from which a request revokes sessions or clears grants.
AcctCovers == {"others", "all", "tokens", "services", "acl"}

AcctNewGrant(x) == x.late \/ x.life = acctLife[x.user]

\* A statement that takes no password or account out of use, of a request that revokes nothing.
LEMMA AcctFreshKeeps ==
    ASSUME AcctSpendInv, AcctFreshInv, NEW c \in AcctCall, NEW r \in AcctShapes, AcctGoes(c, r),
           acctReq[c].at \notin AcctCovers, r.at \notin AcctCovers,
           UNCHANGED <<acctProof, acctLife>>,
           \A i \in AcctIds : AcctLive(i)' =>
              \/ /\ AcctLive(i) /\ acctSession'[i].user = acctSession[i].user
                 /\ acctSession'[i].proof = acctSession[i].proof
                 /\ acctSession'[i].late = acctSession[i].late
              \/ AcctFresh(i)',
           \A x \in acctService' : x \in acctService \/ AcctNewGrant(x),
           \A x \in acctAcl' : x \in acctAcl \/ AcctNewGrant(x)
    PROVE  AcctFreshInv'
<1>1. acctReq'[c] = r /\ \A d \in AcctCall : d # c => acctReq'[d] = acctReq[d]
  BY AcctGoesOn DEF AcctSpendInv
<1>2. \A d \in AcctCall : acctReq[d].at \in AcctCovers \/ acctReq'[d].at \in AcctCovers =>
         acctReq'[d] = acctReq[d]
  BY <1>1
<1>3. ASSUME NEW i \in AcctIds, AcctLive(i)', ~AcctFresh(i)'
      PROVE  /\ AcctLive(i) /\ ~AcctFresh(i) /\ acctSession'[i].user = acctSession[i].user
  BY <1>3 DEF AcctFresh
<1>4. AcctSessionsFresh'
  BY <1>2, <1>3 DEF AcctFreshInv, AcctSessionsFresh, AcctCovers
<1>5. ASSUME NEW d \in AcctCall, NEW q \in AcctShapes, acctReq'[d] = q, q.at = "others",
             AcctLive(q.id)', ~AcctFresh(q.id)'
      PROVE  \E e \in AcctCall : AcctWillRevoke(e, q.id, q.who)'
  <2>1. acctReq[d] = q
    BY <1>2, <1>5 DEF AcctCovers
  <2>2. q.id \in AcctIds
    BY <1>5, AcctShapeAt, AcctShapeIs DEF AcctPlaced
  <2>3. PICK e \in AcctCall : AcctWillRevoke(e, q.id, q.who)
    BY <2>1, <2>2, <1>3, <1>5 DEF AcctFreshInv, AcctSparedFresh
  <2>4. acctReq'[e] = acctReq[e]
    BY <2>3, <1>2 DEF AcctWillRevoke, AcctCovers
  <2> QED
    BY <2>3, <2>4 DEF AcctWillRevoke
<1>6. AcctSparedFresh'
  <2>1. \A d \in AcctCall : acctReq'[d] \in AcctShapes
    BY AcctGoesOn DEF AcctSpendInv
  <2> QED
    BY <2>1, <1>5 DEF AcctSparedFresh
<1>7. AcctGrantsFresh'
  <2>1. \A u, ats : ats \subseteq AcctCovers => (AcctWillClear(u, ats) => AcctWillClear(u, ats)')
    BY <1>2 DEF AcctWillClear
  <2> QED
    BY <2>1 DEF AcctFreshInv, AcctGrantsFresh, AcctNewGrant, AcctCovers
<1> QED
  BY <1>4, <1>6, <1>7 DEF AcctFreshInv

LEMMA AcctOrdinary ==
    ASSUME AcctSpendInv, AcctFreshInv, NEW c \in AcctCall, NEW r \in AcctShapes, AcctGoes(c, r),
           acctReq[c].at \notin AcctCovers \cup {"done"}, r.at \notin AcctCovers,
           r \notin AcctSpent \cup AcctChanges, r \in AcctPolls => acctReq[c] \in AcctPolls,
           r.op = "poll" /\ r.at \in {"scope", "mint", "putBack", "done"} => AcctClaimed(c),
           AcctTablesTyped', UNCHANGED <<acctProof, acctLife, acctCode>>,
           \A i \in AcctIds : AcctLive(i)' =>
              AcctSessionKept(i) \/ (i = c + 1 /\ r.at = "done" /\ AcctFresh(i)'),
           \A x \in acctService' : x \in acctService \/ AcctNewGrant(x),
           \A x \in acctAcl' : x \in acctAcl \/ AcctNewGrant(x)
    PROVE  AcctSpendInv' /\ AcctFreshInv'
<1>1. AcctTyped' /\ AcctIdsBorn' /\ AcctGenerations'
  BY AcctSpendKeeps DEF AcctSessionKept
<1>2. AcctOneClaim'
  BY AcctClaimKeeps
<1>3. AcctFreshInv'
  BY AcctFreshKeeps DEF AcctSessionKept
<1> QED
  BY <1>1, <1>2, <1>3 DEF AcctSpendInv

\* What is kept when a statement leaves the sessions alone.
LEMMA AcctKeptAll ==
    ASSUME AcctSpendInv, acctSession' = acctSession
    PROVE  \A i \in AcctIds : AcctLive(i)' => AcctSessionKept(i)
BY DEF AcctSpendInv, AcctTyped, AcctTablesTyped, AcctLive, AcctRecords, AcctSessionKept

LEMMA AcctRequestKeeps ==
    ASSUME AcctSpendInv, AcctFreshInv, NEW c \in AcctCall, AcctRequest(c)
    PROVE  AcctSpendInv' /\ AcctFreshInv'
<1>1. /\ acctReq[c].at = "idle" /\ acctService' \subseteq acctService
      /\ UNCHANGED <<acctLife, acctProof, acctSession, acctAcl, acctCode>>
      /\ \E r : AcctGoes(c, r) /\ AcctNoted(r)
  BY AcctArrival DEF AcctSpendInv
<1>2. PICK r : AcctGoes(c, r) /\ AcctNoted(r)
  BY <1>1
<1>3. r \in AcctShapes /\ r.at \notin AcctCovers
  BY <1>2 DEF AcctNoted, AcctBegun, AcctCovers
<1>4. r \notin AcctSpent
  <2>1. r \in AcctSpent => r = AcctDone /\ r.op = "refresh"
    BY <1>2, AcctShapeIs DEF AcctNoted
  <2> QED
    BY <2>1 DEF AcctDone
<1>5. AcctTablesTyped'
  BY <1>1 DEF AcctSpendInv, AcctTyped, AcctTablesTyped
<1>6. \A i \in AcctIds : AcctLive(i)' => AcctSessionKept(i)
  BY <1>1, AcctKeptAll
<1>7. r \in AcctChanges => /\ r.id \in AcctIds /\ AcctLive(r.id)
                           /\ acctSession[r.id].user = r.who
  BY <1>2, AcctShapeIs DEF AcctNoted, AcctBegun
<1>8. r \in AcctChanges => AcctBorn(r.id) /\ acctSession'[r.id].user = r.who
  BY <1>1, <1>7 DEF AcctSpendInv, AcctIdsBorn
<1>9. AcctTyped' /\ AcctIdsBorn' /\ AcctGenerations'
  BY <1>1, <1>2, <1>3, <1>4, <1>5, <1>6, <1>8, AcctSpendKeeps DEF AcctSessionKept
<1>10. r \in AcctPolls => acctCode.status = "approved"
  BY <1>2, AcctShapeIs DEF AcctNoted, AcctBegun
<1>11. ~(r.op = "poll" /\ r.at \in {"scope", "mint", "putBack", "done"})
  BY <1>2 DEF AcctNoted, AcctBegun, AcctDone
<1>12. AcctOneClaim'
  BY <1>1, <1>2, <1>3, <1>10, <1>11, AcctClaimKeeps
<1>13. AcctFreshInv'
  <2>1. acctReq[c].at \notin AcctCovers
    BY <1>1 DEF AcctCovers
  <2> QED
    BY <2>1, <1>1, <1>2, <1>3, <1>6, AcctFreshKeeps DEF AcctSessionKept
<1> QED
  BY <1>9, <1>12, <1>13 DEF AcctSpendInv

\* The statements that only remove sessions.
LEMMA AcctDropKept ==
    ASSUME AcctSpendInv, NEW S, AcctDrop(S)
    PROVE  /\ \A i \in AcctIds : AcctLive(i)' => AcctSessionKept(i) /\ i \notin S
           /\ acctSession' \in [AcctIds -> AcctRecords \cup {AcctNone}]
<1>1. \A i \in AcctIds : acctSession'[i] = IF i \in S THEN AcctNone ELSE acctSession[i]
  BY DEF AcctDrop
<1>2. acctSession \in [AcctIds -> AcctRecords \cup {AcctNone}]
  BY DEF AcctSpendInv, AcctTyped, AcctTablesTyped
<1>3. acctSession' \in [AcctIds -> AcctRecords \cup {AcctNone}]
  BY <1>2 DEF AcctDrop
<1>4. \A i \in AcctIds : AcctLive(i) => acctSession[i].gen \in Nat
  BY <1>2 DEF AcctLive, AcctRecords
<1> QED
  BY <1>1, <1>3, <1>4 DEF AcctLive, AcctSessionKept

\* The statements that add the session of a call, which is on the password of its account,
\* or of a request that read an older one.
LEMMA AcctInsertKept ==
    ASSUME AcctSpendInv, NEW c \in AcctCall, NEW gone, NEW user \in AcctNames, NEW over \in AcctOvers,
           NEW proof \in Nat, acctProof' = acctProof,
           AcctInsert(c, AcctNew(user, over, proof, proof # acctProof[user]), gone)
    PROVE  /\ \A i \in AcctIds : AcctLive(i)' =>
                 AcctSessionKept(i) \/ (i = c + 1 /\ AcctFresh(i)')
           /\ acctSession' \in [AcctIds -> AcctRecords \cup {AcctNone}]
<1> DEFINE s == AcctNew(user, over, proof, proof # acctProof[user])
<1>1. s \in AcctRecords /\ s.user = user /\ s.proof = proof /\ s.late = (proof # acctProof[user])
  BY DEF AcctNew, AcctRecords
<1>2. acctSession' = [i \in AcctIds |-> IF i = c + 1 THEN s
                                         ELSE IF i \in gone THEN AcctNone ELSE acctSession[i]]
  BY DEF AcctInsert
<1> HIDE DEF s
<1>3. acctSession \in [AcctIds -> AcctRecords \cup {AcctNone}]
  BY DEF AcctSpendInv, AcctTyped, AcctTablesTyped
<1>4. acctSession' \in [AcctIds -> AcctRecords \cup {AcctNone}]
  BY <1>1, <1>2, <1>3
<1>5. \A i \in AcctIds : AcctLive(i) => acctSession[i].gen \in Nat
  BY <1>3 DEF AcctLive, AcctRecords
<1>6. ASSUME NEW i \in AcctIds, i = c + 1 PROVE AcctFresh(i)'
  <2>1. acctSession'[i] = s
    BY <1>2, <1>6
  <2> QED
    BY <2>1, <1>1 DEF AcctFresh
<1>7. ASSUME NEW i \in AcctIds, i # c + 1, AcctLive(i)' PROVE AcctSessionKept(i)
  BY <1>2, <1>5, <1>7 DEF AcctLive, AcctSessionKept
<1>8. \A i \in AcctIds : AcctLive(i)' => AcctSessionKept(i) \/ (i = c + 1 /\ AcctFresh(i)')
  BY <1>6, <1>7
<1> QED
  BY <1>4, <1>8

-----------------------------------------------------------------------------
(* The statements.                                                         *)

\* A request that ends, or goes on to a place where it neither claims nor revokes.
LEMMA AcctEndsQuietly ==
    ASSUME AcctSpendInv, NEW c \in AcctCall, AcctEnds(c)
    PROVE  /\ AcctDone \in AcctShapes /\ AcctGoes(c, AcctDone) /\ AcctDone.at \notin AcctCovers
           /\ AcctDone \notin AcctSpent \cup AcctChanges \cup AcctPolls
           /\ AcctDone.op # "poll" /\ AcctDone.at = "done"
BY DEF AcctEnds, AcctDone, AcctShapes, AcctPlain, AcctCovers, AcctSpent, AcctChanges, AcctPolls

LEMMA AcctLoginKeeps ==
    ASSUME AcctSpendInv, AcctFreshInv, NEW c \in AcctCall, AcctLoginInserts(c)
    PROVE  AcctSpendInv' /\ AcctFreshInv'
<1> DEFINE q == acctReq[c]
<1>1. q.at = "login" /\ q.who \in AcctNames /\ q.proof \in Nat
  BY AcctShapeAt DEF AcctLoginInserts, AcctAt, AcctPlaced, AcctLogins, AcctSpendInv, AcctTyped
<1>2. PICK gone : AcctInsert(c, AcctNew(q.who, AcctNone, q.proof, q.proof # acctProof[q.who]), gone)
  BY DEF AcctLoginInserts
<1>3. AcctEnds(c) /\ UNCHANGED <<acctLife, acctProof, acctService, acctAcl, acctCode>>
  BY DEF AcctLoginInserts
<1>4. AcctNone \in AcctOvers
  BY DEF AcctOvers
<1>5. /\ \A i \in AcctIds : AcctLive(i)' => AcctSessionKept(i) \/ (i = c + 1 /\ AcctFresh(i)')
      /\ acctSession' \in [AcctIds -> AcctRecords \cup {AcctNone}]
  <2> HIDE DEF q
  <2> QED
    BY <1>1, <1>2, <1>3, <1>4, AcctInsertKept
<1>6. AcctTablesTyped'
  BY <1>3, <1>5 DEF AcctSpendInv, AcctTyped, AcctTablesTyped
<1>7. q.at \notin AcctCovers \cup {"done"}
  BY <1>1 DEF AcctCovers
<1> QED
  BY <1>3, <1>5, <1>6, <1>7, AcctEndsQuietly, AcctOrdinary

\* What ends, changes no session but by removing some, and no grant.
LEMMA AcctEndsKeeps ==
    ASSUME AcctSpendInv, AcctFreshInv, NEW c \in AcctCall, AcctEnds(c),
           acctReq[c].at \notin AcctCovers \cup {"done"},
           UNCHANGED <<acctProof, acctLife, acctService, acctAcl, acctCode>>,
           (\E S : AcctDrop(S)) \/ acctSession' = acctSession
    PROVE  AcctSpendInv' /\ AcctFreshInv'
<1>1. /\ \A i \in AcctIds : AcctLive(i)' => AcctSessionKept(i)
      /\ acctSession' \in [AcctIds -> AcctRecords \cup {AcctNone}]
  <2>1. CASE acctSession' = acctSession
    BY <2>1, AcctKeptAll DEF AcctSpendInv, AcctTyped, AcctTablesTyped
  <2> QED
    BY <2>1, AcctDropKept
<1>2. AcctTablesTyped'
  BY <1>1 DEF AcctSpendInv, AcctTyped, AcctTablesTyped
<1> QED
  BY <1>1, <1>2, AcctEndsQuietly, AcctOrdinary

\* What goes on beside its tables, to places where nothing is spent or revoked.
LEMMA AcctOnKeeps ==
    ASSUME AcctSpendInv, AcctFreshInv, NEW c \in AcctCall,
           UNCHANGED <<acctProof, acctLife, acctSession, acctService, acctAcl, acctCode>>,
           \/ acctReq[c].at = "rotate" /\ AcctOn(c, "judge")
           \/ acctReq[c].at = "judge" /\ (AcctOn(c, "kill") \/ AcctOn(c, "prune"))
           \/ acctReq[c].at = "role" /\ AcctOn(c, "override")
           \/ acctReq[c].at \in {"scope", "mint"} /\ AcctOn(c, "putBack")
    PROVE  AcctSpendInv' /\ AcctFreshInv'
<1> DEFINE q == acctReq[c]
<1>0. AcctTyped /\ q \in AcctShapes
  BY DEF AcctSpendInv, AcctTyped
<1>1. PICK r : /\ AcctGoes(c, r)
               /\ \/ r \in AcctRefreshes \/ r \in AcctUpdates
                  \/ q \in AcctPolls /\ r \in AcctPolls /\ r.at = "putBack"
  <2>1. CASE q.at = "rotate" /\ AcctOn(c, "judge")
    BY <2>1, <1>0, AcctShapeAt, AcctContinues DEF AcctPlaced
  <2>2. CASE q.at = "judge" /\ AcctOn(c, "kill")
    BY <2>2, <1>0, AcctShapeAt, AcctContinues DEF AcctPlaced
  <2>3. CASE q.at = "judge" /\ AcctOn(c, "prune")
    BY <2>3, <1>0, AcctShapeAt, AcctContinues DEF AcctPlaced
  <2>4. CASE q.at = "role" /\ AcctOn(c, "override")
    BY <2>4, <1>0, AcctShapeAt, AcctContinues DEF AcctPlaced
  <2>5. CASE q.at \in {"scope", "mint"} /\ AcctOn(c, "putBack")
    BY <2>5, <1>0, AcctShapeAt, AcctContinues DEF AcctPlaced
  <2> QED
    BY <2>1, <2>2, <2>3, <2>4, <2>5
<1>2. r \in AcctRefreshes \cup AcctUpdates =>
         /\ r.at \notin AcctCovers /\ r.op # "poll"
         /\ r \notin AcctSpent \cup AcctChanges \cup AcctPolls
  BY DEF AcctRefreshes, AcctUpdates, AcctCovers, AcctSpent, AcctChanges, AcctPolls
<1>3. r \in AcctPolls /\ r.at = "putBack" =>
         /\ r.at \notin AcctCovers /\ r \notin AcctSpent \cup AcctChanges
  BY DEF AcctPolls, AcctCovers, AcctSpent, AcctChanges
<1>4. q \in AcctPolls /\ q.at \in {"scope", "mint"} => AcctClaimed(c)
  BY DEF AcctPolls, AcctClaimed
<1>5. q \in AcctPolls => q.at \in {"scope", "mint"}
  BY DEF AcctPolls
<1>6. q.at \notin AcctCovers \cup {"done"}
  BY DEF AcctCovers
<1>7. r \in AcctShapes
  BY <1>1 DEF AcctShapes
<1>8. AcctTablesTyped' /\ \A i \in AcctIds : AcctLive(i)' => AcctSessionKept(i)
  BY AcctKeptAll DEF AcctSpendInv, AcctTyped, AcctTablesTyped
<1> HIDE DEF q
<1>9. (r \in AcctPolls => q \in AcctPolls)
      /\ (r.op = "poll" /\ r.at \in {"scope", "mint", "putBack", "done"} => AcctClaimed(c))
      /\ r.at \notin AcctCovers /\ r \notin AcctSpent \cup AcctChanges
  BY <1>1, <1>2, <1>3, <1>4, <1>5
<1> QED
  BY <1>1, <1>6, <1>7, <1>8, <1>9, AcctOrdinary DEF q

LEMMA AcctPlainSteps ==
    ASSUME AcctSpendInv, AcctFreshInv, NEW c \in AcctCall,
           \/ AcctJudge(c) \/ AcctRefused(c) \/ AcctLogoutDeletes(c) \/ AcctCreateInserts(c)
           \/ AcctRoleUpdates(c)
    PROVE  AcctSpendInv' /\ AcctFreshInv'
<1>0. \A at : at \in {"judge", "kill", "prune", "logout", "revoke", "create", "role"} =>
         at \notin AcctCovers \cup {"done"}
  BY DEF AcctCovers
<1>1. CASE AcctJudge(c)
  <2>1. acctReq[c].at = "judge" /\ UNCHANGED acctTables
        /\ (AcctOn(c, "kill") \/ AcctOn(c, "prune") \/ AcctEnds(c))
    BY <1>1 DEF AcctJudge, AcctAt
  <2> QED
    BY <2>1, <1>0, AcctOnKeeps, AcctEndsKeeps DEF acctTables
<1>2. CASE AcctRefused(c)
  BY <1>2, <1>0, AcctEndsKeeps DEF AcctRefused, AcctAt
<1>3. CASE AcctLogoutDeletes(c)
  BY <1>3, <1>0, AcctEndsKeeps DEF AcctLogoutDeletes, AcctAt
<1>4. CASE AcctCreateInserts(c)
  BY <1>4, <1>0, AcctEndsKeeps DEF AcctCreateInserts, AcctAt
<1>5. CASE AcctRoleUpdates(c)
  BY <1>5, <1>0, AcctOnKeeps, AcctEndsKeeps DEF AcctRoleUpdates, AcctAt
<1> QED
  BY <1>1, <1>2, <1>3, <1>4, <1>5

LEMMA AcctOverrideKeeps ==
    ASSUME AcctSpendInv, AcctFreshInv, NEW c \in AcctCall, AcctOverrides(c)
    PROVE  AcctSpendInv' /\ AcctFreshInv'
<1>1. /\ acctReq[c].at = "override" /\ AcctEnds(c)
      /\ UNCHANGED <<acctLife, acctProof, acctService, acctAcl, acctCode>>
  BY DEF AcctOverrides, AcctAt
<1>2. acctReq[c].role \in AcctRoles
  BY <1>1, AcctShapeAt DEF AcctPlaced, AcctUpdates, AcctSpendInv, AcctTyped
<1>3. AcctClamp(acctReq[c].role) \in AcctOvers
  BY <1>2, AcctAssumption DEF AcctClamp, AcctOvers
<1>4. PICK over \in AcctOvers :
        acctSession' = [i \in AcctIds |->
          IF i \in AcctOf(acctReq[c].who) /\ acctSession[i].over # AcctNone
          THEN [acctSession[i] EXCEPT !.over = over] ELSE acctSession[i]]
  BY <1>3 DEF AcctOverrides
<1>5. acctSession \in [AcctIds -> AcctRecords \cup {AcctNone}]
  BY DEF AcctSpendInv, AcctTyped, AcctTablesTyped
<1>6. ASSUME NEW x \in AcctRecords
      PROVE  /\ x.gen \in Nat
             /\ [x EXCEPT !.over = over] \in AcctRecords
             /\ [x EXCEPT !.over = over].user = x.user /\ [x EXCEPT !.over = over].gen = x.gen
             /\ [x EXCEPT !.over = over].proof = x.proof /\ [x EXCEPT !.over = over].late = x.late
  BY DEF AcctRecords
<1>7. \A i \in AcctOf(acctReq[c].who) : acctSession[i] \in AcctRecords
  BY <1>5 DEF AcctOf, AcctLive
<1>8. acctSession' \in [AcctIds -> AcctRecords \cup {AcctNone}]
  BY <1>4, <1>5, <1>6, <1>7
<1>9. \A i \in AcctIds : AcctLive(i)' => AcctSessionKept(i)
  <2> SUFFICES ASSUME NEW i \in AcctIds, AcctLive(i)' PROVE AcctSessionKept(i)
    OBVIOUS
  <2>1. CASE i \in AcctOf(acctReq[c].who) /\ acctSession[i].over # AcctNone
    <3>1. acctSession'[i] = [acctSession[i] EXCEPT !.over = over] /\ AcctLive(i)
      BY <1>4, <2>1 DEF AcctOf
    <3> QED
      BY <3>1, <2>1, <1>6, <1>7 DEF AcctSessionKept
  <2>2. CASE acctSession'[i] = acctSession[i]
    <3>1. acctSession[i] \in AcctRecords
      BY <1>5, <2>2 DEF AcctLive
    <3>2. acctSession[i].gen \in Nat
      BY <3>1, <1>6
    <3> QED
      BY <3>2, <2>2 DEF AcctSessionKept, AcctLive
  <2> QED
    BY <1>4, <2>1, <2>2
<1>10. AcctTablesTyped'
  BY <1>1, <1>8 DEF AcctSpendInv, AcctTyped, AcctTablesTyped
<1>11. acctReq[c].at \notin AcctCovers \cup {"done"}
  BY <1>1 DEF AcctCovers
<1> QED
  BY <1>1, <1>9, <1>10, <1>11, AcctEndsQuietly, AcctOrdinary

\* A grant is on the account that its request found.
LEMMA AcctGrantKeeps ==
    ASSUME AcctSpendInv, AcctFreshInv, NEW c \in AcctCall,
           AcctServiceInserts(c) \/ AcctAclReplaces(c)
    PROVE  AcctSpendInv' /\ AcctFreshInv'
<1> DEFINE x == AcctGranted(acctReq[c])
<1>1. /\ acctReq[c].at \in {"service", "grant"} /\ AcctEnds(c)
      /\ UNCHANGED <<acctLife, acctProof, acctSession, acctCode>>
      /\ acctService' \subseteq acctService \cup {x} /\ acctAcl' \subseteq acctAcl \cup {x}
  BY DEF AcctServiceInserts, AcctAclReplaces, AcctAt
<1>2. acctReq[c].who \in AcctNames /\ acctReq[c].life \in Nat
  BY <1>1, AcctShapeAt DEF AcctPlaced, AcctGrantings, AcctSpendInv, AcctTyped
<1>3. x \in AcctGrants /\ AcctNewGrant(x)
  <2>1. x = [user |-> acctReq[c].who, life |-> acctReq[c].life,
             late |-> acctReq[c].life # acctLife[acctReq[c].who]]
    BY DEF AcctGranted
  <2>2. x.user = acctReq[c].who /\ x.life = acctReq[c].life
        /\ x.late = (acctReq[c].life # acctLife[acctReq[c].who])
    BY <2>1
  <2> QED
    BY <2>1, <2>2, <1>2 DEF AcctGrants, AcctNewGrant
<1> HIDE DEF x
<1>4. AcctTablesTyped'
  BY <1>1, <1>3 DEF AcctSpendInv, AcctTyped, AcctTablesTyped
<1>5. acctReq[c].at \notin AcctCovers \cup {"done"}
  BY <1>1 DEF AcctCovers
<1>6. \A i \in AcctIds : AcctLive(i)' => AcctSessionKept(i)
  BY <1>1, AcctKeptAll
<1> QED
  BY <1>1, <1>3, <1>4, <1>5, <1>6, AcctEndsQuietly, AcctOrdinary

LEMMA AcctScopeKeeps ==
    ASSUME AcctUsers, AcctSpendInv, AcctFreshInv, NEW c \in AcctCall, AcctScopes(c)
    PROVE  AcctSpendInv' /\ AcctFreshInv'
<1> DEFINE q == acctReq[c]
<1> DEFINE r == [q EXCEPT !.at = "mint", !.proof = acctProof[q.who],
                          !.over = AcctClamp(acctUser[q.who].role)]
<1>1. q.at = "scope" /\ UNCHANGED acctTables
      /\ (AcctOn(c, "putBack") \/ AcctEnds(c) \/ (AcctGoes(c, r) /\ AcctExists(q.who)))
  BY DEF AcctScopes, AcctAt
<1>2. q \in AcctPolls
  BY <1>1, AcctShapeAt DEF AcctPlaced, AcctSpendInv, AcctTyped
<1>3. q.at \notin AcctCovers \cup {"done"}
  BY <1>1 DEF AcctCovers
<1>4. CASE AcctOn(c, "putBack")
  BY <1>1, <1>4, AcctOnKeeps DEF acctTables
<1>5. CASE AcctEnds(c)
  BY <1>1, <1>3, <1>5, AcctEndsKeeps DEF acctTables
<1>6. CASE AcctGoes(c, r) /\ AcctExists(q.who)
  <2>1. q.who \in AcctNames
    BY <1>2 DEF AcctPolls
  <2>2. acctUser[q.who] \in AcctRows
    BY <2>1, <1>6 DEF AcctUsers, AcctExists
  <2>3. AcctClamp(acctUser[q.who].role) \in AcctOvers
    BY <2>2, AcctAssumption DEF AcctRows, AcctClamp, AcctOvers
  <2>4. acctProof[q.who] \in Nat
    BY <2>1 DEF AcctSpendInv, AcctTyped, AcctTablesTyped
  <2>5. r \in AcctPolls /\ r.at = "mint"
    BY <2>3, <2>4, <1>2 DEF AcctPolls
  <2>6. r \in AcctShapes /\ r.at \notin AcctCovers /\ r \notin AcctSpent \cup AcctChanges
    BY <2>5, AcctShapeIs DEF AcctShapes, AcctCovers
  <2>7. AcctClaimed(c)
    BY <1>1, <1>2, AcctShapeIs DEF AcctClaimed
  <2>8. AcctTablesTyped' /\ \A i \in AcctIds : AcctLive(i)' => AcctSessionKept(i)
    BY <1>1, AcctKeptAll DEF acctTables, AcctSpendInv, AcctTyped, AcctTablesTyped
  <2> HIDE DEF r
  <2> QED
    BY <1>1, <1>2, <1>3, <1>6, <2>6, <2>7, <2>8, AcctOrdinary DEF acctTables
<1> QED
  BY <1>1, <1>4, <1>5, <1>6

LEMMA AcctMintKeeps ==
    ASSUME AcctSpendInv, AcctFreshInv, NEW c \in AcctCall, AcctMints(c)
    PROVE  AcctSpendInv' /\ AcctFreshInv'
<1> DEFINE q == acctReq[c]
<1> DEFINE r == [AcctDone EXCEPT !.op = "poll"]
<1>1. q.at = "mint" /\ UNCHANGED <<acctProof, acctLife, acctService, acctAcl, acctCode>>
  BY DEF AcctMints, AcctAt
<1>2. q \in AcctPolls
  BY <1>1, AcctShapeAt DEF AcctPlaced, AcctSpendInv, AcctTyped
<1>3. CASE AcctOn(c, "putBack") /\ UNCHANGED acctSession
  BY <1>1, <1>3, AcctOnKeeps
<1>4. CASE /\ AcctInsert(c, AcctNew(q.who, q.over, q.proof, q.proof # acctProof[q.who]), {})
           /\ AcctGoes(c, r)
  <2>1. q.who \in AcctNames /\ q.over \in AcctOvers /\ q.proof \in Nat
    BY <1>2 DEF AcctPolls
  <2>2. r = [at |-> "done", op |-> "poll"]
    BY DEF AcctDone
  <2>3. r \in AcctPlain /\ r.at = "done"
    BY <2>2 DEF AcctPlain
  <2>4. r \in AcctShapes /\ r.at \notin AcctCovers /\ r \notin AcctSpent \cup AcctChanges \cup AcctPolls
    BY <2>2, <2>3, AcctShapeIs DEF AcctShapes, AcctCovers
  <2>5. AcctClaimed(c)
    BY <1>1, <1>2, AcctShapeIs DEF AcctClaimed
  <2>6. /\ \A i \in AcctIds : AcctLive(i)' => AcctSessionKept(i) \/ (i = c + 1 /\ AcctFresh(i)')
        /\ acctSession' \in [AcctIds -> AcctRecords \cup {AcctNone}]
    <3> HIDE DEF q
    <3> QED
      BY <1>1, <1>4, <2>1, AcctInsertKept
  <2>7. AcctTablesTyped'
    BY <1>1, <2>6 DEF AcctSpendInv, AcctTyped, AcctTablesTyped
  <2>8. q.at \notin AcctCovers \cup {"done"}
    BY <1>1 DEF AcctCovers
  <2> HIDE DEF r
  <2> QED
    BY <1>1, <1>4, <2>3, <2>4, <2>5, <2>6, <2>7, <2>8, AcctOrdinary
<1> QED
  BY <1>3, <1>4 DEF AcctMints

\* A session whose pair was rotated.
AcctRotated(x, n) == [x EXCEPT !.gen = n, !.graceOver = FALSE]

LEMMA AcctRotatedIs ==
    ASSUME NEW x \in AcctRecords, NEW n \in Nat
    PROVE  /\ AcctRotated(x, n) \in AcctRecords /\ AcctRotated(x, n).gen = n
           /\ AcctRotated(x, n).user = x.user /\ AcctRotated(x, n).proof = x.proof
           /\ AcctRotated(x, n).late = x.late
BY DEF AcctRecords, AcctRotated

\* The UPDATE that rotates is conditional on the generation: two rotations differ.
LEMMA AcctRotateKeeps ==
    ASSUME AcctSpendInv, AcctFreshInv, NEW c \in AcctCall, AcctRotate(c)
    PROVE  AcctSpendInv' /\ AcctFreshInv'
<1> DEFINE q == acctReq[c]
<1>1. q.at = "rotate" /\ UNCHANGED <<acctProof, acctLife, acctService, acctAcl, acctCode>>
  BY DEF AcctRotate, AcctAt
<1>2. q.id \in AcctIds /\ q.gen \in Nat
  BY <1>1, AcctShapeAt DEF AcctPlaced, AcctRefreshes, AcctSpendInv, AcctTyped
<1>3. CASE ~AcctCurrent(q.id, q.gen)
  BY <1>1, <1>3, AcctOnKeeps DEF AcctRotate
<1>4. CASE AcctCurrent(q.id, q.gen)
  <2>1. PICK id \in AcctIds, gen \in Nat : id = q.id /\ gen = q.gen
    BY <1>2
  <2> DEFINE r == [at |-> "done", op |-> "refresh", id |-> id, gen |-> gen]
  <2>2. AcctGoes(c, r)
        /\ acctSession' = [acctSession EXCEPT ![id].gen = @ + 1, ![id].graceOver = FALSE]
    BY <1>4, <2>1 DEF AcctRotate
  <2>3. r \in AcctSpent /\ r.at = "done" /\ r.op = "refresh" /\ r.id = id /\ r.gen = gen
    BY DEF AcctSpent
  <2>4. r \in AcctShapes /\ r.at \notin AcctCovers /\ r \notin AcctChanges \cup AcctPolls
    BY <2>3, AcctShapeIs DEF AcctShapes, AcctCovers
  <2>5. acctSession \in [AcctIds -> AcctRecords \cup {AcctNone}]
    BY DEF AcctSpendInv, AcctTyped, AcctTablesTyped
  <2>6. acctSession[id] \in AcctRecords /\ acctSession[id].gen = gen /\ AcctLive(id)
    BY <1>4, <2>1, <2>5 DEF AcctCurrent, AcctLive
  <2>7. /\ acctSession'[id] \in AcctRecords /\ acctSession'[id].gen = gen + 1
        /\ acctSession'[id].user = acctSession[id].user
        /\ acctSession'[id].proof = acctSession[id].proof
        /\ acctSession'[id].late = acctSession[id].late
    <3>1. acctSession'[id] = [acctSession[id] EXCEPT !.gen = gen + 1, !.graceOver = FALSE]
      BY <2>2, <2>5, <2>6
    <3>2. gen + 1 \in Nat
      OBVIOUS
    <3>3. acctSession'[id] = AcctRotated(acctSession[id], gen + 1)
      BY <3>1 DEF AcctRotated
    <3>4. /\ AcctRotated(acctSession[id], gen + 1) \in AcctRecords
          /\ AcctRotated(acctSession[id], gen + 1).gen = gen + 1
          /\ AcctRotated(acctSession[id], gen + 1).user = acctSession[id].user
          /\ AcctRotated(acctSession[id], gen + 1).proof = acctSession[id].proof
          /\ AcctRotated(acctSession[id], gen + 1).late = acctSession[id].late
      BY <2>6, <3>2, AcctRotatedIs
    <3> QED
      BY <3>3, <3>4
  <2>8. \A i \in AcctIds : i # id => acctSession'[i] = acctSession[i]
    BY <2>2, <2>5
  <2>9. acctSession' \in [AcctIds -> AcctRecords \cup {AcctNone}]
    <3>1. acctSession' = [i \in AcctIds |-> acctSession'[i]]
      BY <2>2, <2>5
    <3>2. \A i \in AcctIds : acctSession'[i] \in AcctRecords \cup {AcctNone}
      BY <2>5, <2>7, <2>8
    <3> QED
      BY <3>1, <3>2
  <2>10. \A i \in AcctIds : AcctLive(i)' => AcctSessionKept(i)
    <3> SUFFICES ASSUME NEW i \in AcctIds, AcctLive(i)' PROVE AcctSessionKept(i)
      OBVIOUS
    <3>1. CASE i = id
      BY <3>1, <2>6, <2>7 DEF AcctSessionKept
    <3>2. CASE i # id
      BY <3>2, <2>5, <2>8 DEF AcctSessionKept, AcctLive, AcctRecords
    <3> QED
      BY <3>1, <3>2
  <2>11. AcctTablesTyped'
    BY <1>1, <2>9 DEF AcctSpendInv, AcctTyped, AcctTablesTyped
  <2>12. AcctBorn(id) /\ acctSession'[id].gen > gen /\ \A d \in AcctCall : acctReq[d] # r
    <3>1. AcctBorn(id) /\ acctSession'[id].gen > gen
      BY <2>6, <2>7 DEF AcctSpendInv, AcctIdsBorn
    <3>2. ASSUME NEW d \in AcctCall, acctReq[d] = r PROVE FALSE
      <4>1. acctSession[id].gen > gen
        BY <2>3, <2>6, <3>2 DEF AcctSpendInv, AcctGenerations
      <4> QED
        BY <4>1, <2>6
    <3> QED
      BY <3>1, <3>2
  <2>13. q.at # "done" /\ q.at \notin AcctCovers
    BY <1>1 DEF AcctCovers
  <2> HIDE DEF r
  <2>14. AcctTyped' /\ AcctIdsBorn' /\ AcctGenerations'
    BY <2>2, <2>3, <2>4, <2>10, <2>11, <2>12, <2>13, AcctSpendKeeps DEF AcctSessionKept
  <2>15. AcctOneClaim'
    BY <1>1, <2>2, <2>3, <2>4, AcctClaimKeeps
  <2>16. AcctFreshInv'
    BY <1>1, <2>2, <2>4, <2>10, <2>13, AcctFreshKeeps DEF AcctSessionKept
  <2> QED
    BY <2>14, <2>15, <2>16 DEF AcctSpendInv
<1> QED
  BY <1>3, <1>4

\* The statements that write the pairing code, as far as the other tables go.
LEMMA AcctCodeKeeps ==
    ASSUME AcctSpendInv, AcctFreshInv, NEW c \in AcctCall, NEW r \in AcctShapes, AcctGoes(c, r),
           acctReq[c].at \notin AcctCovers \cup {"done"}, r.at \notin AcctCovers,
           r \notin AcctSpent \cup AcctChanges,
           UNCHANGED <<acctProof, acctLife, acctSession, acctService, acctAcl>>,
           acctCode' = acctCode \/ \E status \in {"approved", "expired"}, user \in AcctNames \cup {AcctNone} :
              acctCode' = [acctCode EXCEPT !.status = status, !.user = user]
    PROVE  AcctTyped' /\ AcctIdsBorn' /\ AcctGenerations' /\ AcctFreshInv'
<1>1. \A i \in AcctIds : AcctLive(i)' => AcctSessionKept(i)
  BY AcctKeptAll
<1>2. AcctTablesTyped'
  BY DEF AcctSpendInv, AcctTyped, AcctTablesTyped
<1> QED
  BY <1>1, <1>2, AcctSpendKeeps, AcctFreshKeeps DEF AcctSessionKept

\* An approval is claimed by an UPDATE on its status, and put back only by who claimed it.
LEMMA AcctPairingKeeps ==
    ASSUME AcctSpendInv, AcctFreshInv, NEW c \in AcctCall,
           AcctApproves(c) \/ AcctRunsOut(c) \/ AcctClaims(c) \/ AcctPutsBack(c)
    PROVE  AcctSpendInv' /\ AcctFreshInv'
<1> DEFINE q == acctReq[c]
<1>0. /\ q.at \in {"approve", "runOut", "claim", "putBack"}
      /\ UNCHANGED <<acctProof, acctLife, acctSession, acctService, acctAcl>>
      /\ AcctEnds(c) \/ (q.at = "claim" /\ AcctOn(c, "scope"))
  BY DEF AcctApproves, AcctRunsOut, AcctClaims, AcctPutsBack, AcctAt
<1>1. q.at \notin AcctCovers \cup {"done"}
  BY <1>0 DEF AcctCovers
<1>2. q \in AcctShapes /\ AcctTyped
  BY DEF AcctSpendInv, AcctTyped
<1>3. PICK r \in AcctShapes :
         /\ AcctGoes(c, r) /\ r.at \notin AcctCovers /\ r \notin AcctSpent \cup AcctChanges
         /\ \/ r = AcctDone
            \/ q.at = "claim" /\ AcctOn(c, "scope") /\ r \in AcctPolls
  <2>1. CASE AcctEnds(c)
    BY <2>1, AcctEndsQuietly
  <2>2. CASE q.at = "claim" /\ AcctOn(c, "scope")
    <3>1. PICK r : AcctGoes(c, r) /\ r.at = "scope" /\ r \in AcctPolls
      BY <2>2, <1>2, AcctShapeAt, AcctContinues DEF AcctPlaced
    <3> QED
      BY <3>1, <2>2, AcctShapeIs DEF AcctShapes, AcctCovers
  <2> QED
    BY <1>0, <2>1, <2>2
<1>4. acctReq'[c] = r /\ \A d \in AcctCall : d # c => acctReq'[d] = acctReq[d]
  BY <1>2, <1>3, AcctGoesOn
<1>5. r = AcctDone => ~AcctClaimed(c)' /\ r \notin AcctPolls
  BY <1>4, AcctShapeIs DEF AcctClaimed, AcctDone
<1>6. /\ \A d \in AcctCall : AcctClaimed(d)' => d = c \/ AcctClaimed(d)
      /\ AcctClaimed(c)' => r \in AcctPolls
      /\ \A d \in AcctCall : acctReq'[d] \in AcctPolls => d = c \/ acctReq[d] \in AcctPolls
  BY <1>3, <1>4, <1>5 DEF AcctClaimed
<1>7. acctCode \in [status : {"none", "pending", "approved", "expired"},
                    user : AcctNames \cup {AcctNone}, ripe : BOOLEAN]
  BY <1>2 DEF AcctTyped, AcctTablesTyped
<1>8. CASE AcctApproves(c)
  <2>1. q.who \in AcctNames
    BY <1>2, <1>8, AcctShapeAt DEF AcctApproves, AcctAt, AcctPlaced, AcctVerifications
  <2>2. r = AcctDone
    BY <1>3, <1>8 DEF AcctApproves, AcctAt
  <2>3. CASE acctCode' = acctCode
    <3>1. AcctOneClaim'
      BY <1>4, <1>5, <1>6, <2>2, <2>3 DEF AcctSpendInv, AcctOneClaim
    <3> QED
      BY <1>1, <1>3, <1>0, <2>3, <3>1, AcctCodeKeeps DEF AcctSpendInv
  <2>4. CASE /\ acctCode.status = "pending"
             /\ acctCode' = [acctCode EXCEPT !.status = "approved", !.user = q.who]
    <3>1. acctCode'.status = "approved" /\ acctCode'.user = q.who
      BY <2>4, <1>7
    <3>2. \A d \in AcctCall : ~AcctClaimed(d)'
      BY <2>2, <2>4, <1>5, <1>6 DEF AcctSpendInv, AcctOneClaim
    <3>3. AcctOneClaim'
      BY <3>1, <3>2, <2>1 DEF AcctOneClaim
    <3> QED
      BY <1>1, <1>3, <1>0, <2>1, <2>4, <3>3, AcctCodeKeeps DEF AcctSpendInv
  <2> QED
    BY <1>8, <2>3, <2>4 DEF AcctApproves
<1>9. CASE AcctRunsOut(c)
  <2>1. r = AcctDone
    BY <1>3, <1>9 DEF AcctRunsOut, AcctAt
  <2>2. acctCode' = [acctCode EXCEPT !.status = "expired", !.user = acctCode.user]
        /\ acctCode.user \in AcctNames \cup {AcctNone}
    BY <1>7, <1>9 DEF AcctRunsOut
  <2>3. acctCode'.status = "expired" /\ acctCode'.user = acctCode.user
    BY <2>2, <1>7
  <2>4. AcctOneClaim'
    BY <2>1, <2>3, <1>4, <1>5, <1>6 DEF AcctSpendInv, AcctOneClaim
  <2> QED
    BY <1>1, <1>3, <1>0, <2>2, <2>4, AcctCodeKeeps DEF AcctSpendInv
<1>10. CASE AcctClaims(c)
  <2>1. q \in AcctPolls /\ acctCode.user \in AcctNames
    BY <1>2, <1>10, AcctShapeAt DEF AcctClaims, AcctAt, AcctPlaced, AcctSpendInv, AcctOneClaim
  <2>2. CASE acctCode.status = "approved" /\ acctCode' = [acctCode EXCEPT !.status = "expired"]
    <3>1. acctCode' = [acctCode EXCEPT !.status = "expired", !.user = acctCode.user]
      BY <2>2, <1>7
    <3>2. acctCode'.status = "expired" /\ acctCode'.user = acctCode.user
      BY <3>1, <1>7
    <3>3. \A d \in AcctCall : ~AcctClaimed(d)
      BY <2>2 DEF AcctSpendInv, AcctOneClaim
    <3>4. AcctOneClaim'
      BY <3>2, <3>3, <2>1, <1>6 DEF AcctOneClaim
    <3> QED
      BY <1>1, <1>3, <1>0, <2>1, <3>1, <3>4, AcctCodeKeeps DEF AcctSpendInv
  <2>3. CASE acctCode' = acctCode /\ AcctEnds(c)
    <3>1. ~AcctClaimed(c)'
      BY <1>2, <2>3, AcctEndsQuietly, AcctGoesOn DEF AcctClaimed
    <3>2. AcctOneClaim'
      BY <3>1, <2>1, <2>3, <1>6 DEF AcctSpendInv, AcctOneClaim
    <3> QED
      BY <1>1, <1>3, <1>0, <2>3, <3>2, AcctCodeKeeps DEF AcctSpendInv
  <2> QED
    BY <1>10, <2>2, <2>3 DEF AcctClaims, AcctClaimable
<1>11. CASE AcctPutsBack(c)
  <2>1. q \in AcctPolls /\ acctCode.user \in AcctNames /\ AcctClaimed(c)
    BY <1>2, <1>11, AcctShapeAt, AcctShapeIs
    DEF AcctPutsBack, AcctAt, AcctPlaced, AcctClaimed, AcctSpendInv, AcctOneClaim
  <2>2. r = AcctDone
    BY <1>3, <1>11 DEF AcctPutsBack, AcctAt
  <2>3. acctCode.status = "expired" /\ \A d \in AcctCall : AcctClaimed(d) => d = c
    BY <2>1 DEF AcctSpendInv, AcctOneClaim
  <2>4. acctCode' = [acctCode EXCEPT !.status = "approved", !.user = acctCode.user]
    BY <2>3, <1>7, <1>11 DEF AcctPutsBack
  <2>5. acctCode'.status = "approved" /\ acctCode'.user = acctCode.user
    BY <2>4, <1>7
  <2>6. AcctOneClaim'
    BY <2>1, <2>2, <2>3, <2>5, <1>5, <1>6 DEF AcctOneClaim
  <2> QED
    BY <1>1, <1>3, <1>0, <2>1, <2>4, <2>6, AcctCodeKeeps DEF AcctSpendInv
<1> QED
  BY <1>8, <1>9, <1>10, <1>11

\* The creation of the code, expiries and the cleanup take nothing out of use.
LEMMA AcctTimeKeeps ==
    ASSUME AcctSpendInv, AcctFreshInv, AcctCodeCreated \/ AcctTime
    PROVE  AcctSpendInv' /\ AcctFreshInv'
<1>1. UNCHANGED <<acctProof, acctLife, acctService, acctAcl, acctReq>>
  BY DEF AcctCodeCreated, AcctTime
<1>2. /\ acctCode'.user = acctCode.user
      /\ acctCode'.status = acctCode.status \/ (acctCode.status = "none" /\ acctCode'.status = "pending")
      /\ acctCode' \in [status : {"none", "pending", "approved", "expired"},
                        user : AcctNames \cup {AcctNone}, ripe : BOOLEAN]
  <2>1. acctCode \in [status : {"none", "pending", "approved", "expired"},
                      user : AcctNames \cup {AcctNone}, ripe : BOOLEAN]
    BY DEF AcctSpendInv, AcctTyped, AcctTablesTyped
  <2>2. CASE acctCode.status = "none" /\ acctCode' = [acctCode EXCEPT !.status = "pending"]
    BY <2>1, <2>2
  <2>3. CASE acctCode' = [acctCode EXCEPT !.ripe = TRUE]
    BY <2>1, <2>3
  <2>4. CASE acctCode' = acctCode
    BY <2>1, <2>4
  <2> QED
    BY <2>2, <2>3, <2>4 DEF AcctCodeCreated, AcctTime
<1>3. /\ \A i \in AcctIds : AcctLive(i)' => AcctSessionKept(i)
      /\ acctSession' \in [AcctIds -> AcctRecords \cup {AcctNone}]
  <2> DEFINE Kept == /\ \A i \in AcctIds : AcctLive(i)' => AcctSessionKept(i)
                     /\ acctSession' \in [AcctIds -> AcctRecords \cup {AcctNone}]
  <2>0. acctSession \in [AcctIds -> AcctRecords \cup {AcctNone}]
    BY DEF AcctSpendInv, AcctTyped, AcctTablesTyped
  <2>1. CASE acctSession' = acctSession
    BY <2>0, <2>1, AcctKeptAll
  <2>2. ASSUME NEW S, AcctDrop(S) PROVE  Kept
    BY <2>2, AcctDropKept
  <2>3. ASSUME NEW i \in AcctIds, AcctLive(i),
               \/ acctSession' = [acctSession EXCEPT ![i].expired = TRUE]
               \/ acctSession' = [acctSession EXCEPT ![i].graceOver = TRUE]
        PROVE  Kept
    <3>1. acctSession[i] \in AcctRecords
      BY <2>0, <2>3 DEF AcctLive
    <3>2. PICK y \in AcctRecords :
             /\ acctSession' = [acctSession EXCEPT ![i] = y]
             /\ y.user = acctSession[i].user /\ y.gen = acctSession[i].gen
             /\ y.proof = acctSession[i].proof /\ y.late = acctSession[i].late
      <4>1. ASSUME NEW x \in AcctRecords
            PROVE  /\ [x EXCEPT !.expired = TRUE] \in AcctRecords
                   /\ [x EXCEPT !.expired = TRUE].user = x.user
                   /\ [x EXCEPT !.expired = TRUE].gen = x.gen
                   /\ [x EXCEPT !.expired = TRUE].proof = x.proof
                   /\ [x EXCEPT !.expired = TRUE].late = x.late
                   /\ [x EXCEPT !.graceOver = TRUE] \in AcctRecords
                   /\ [x EXCEPT !.graceOver = TRUE].user = x.user
                   /\ [x EXCEPT !.graceOver = TRUE].gen = x.gen
                   /\ [x EXCEPT !.graceOver = TRUE].proof = x.proof
                   /\ [x EXCEPT !.graceOver = TRUE].late = x.late
        BY DEF AcctRecords
      <4> QED
        BY <2>3, <3>1, <4>1
    <3>3. \A j \in AcctIds : AcctLive(j) => acctSession[j].gen \in Nat
      BY <2>0 DEF AcctLive, AcctRecords
    <3> QED
      BY <2>0, <2>3, <3>2, <3>3 DEF AcctSessionKept, AcctLive
  <2> QED
    BY <2>1, <2>2, <2>3 DEF AcctCodeCreated, AcctTime
<1>4. AcctTyped'
  BY <1>1, <1>2, <1>3 DEF AcctSpendInv, AcctTyped, AcctTablesTyped
<1>5. AcctIdsBorn' /\ AcctGenerations'
  <2>1. AcctIdsBorn'
    <3>1. \A i : AcctBorn(i)' <=> AcctBorn(i)
      BY <1>1 DEF AcctBorn
    <3>2. \A d \in AcctCall : acctReq[d] \in AcctChanges => acctReq[d].id \in AcctIds
      BY AcctShapeIs
    <3> QED
      BY <1>1, <1>3, <3>1, <3>2 DEF AcctSpendInv, AcctIdsBorn, AcctSessionKept
  <2>2. ASSUME NEW d \in AcctCall, NEW q \in AcctSpent, acctReq'[d] = q, AcctLive(q.id)'
        PROVE  acctSession'[q.id].gen > q.gen
    <3>1. q.id \in AcctIds /\ q.gen \in Nat
      BY AcctShapeIs
    <3>2. AcctLive(q.id) /\ acctSession'[q.id].gen >= acctSession[q.id].gen
      BY <1>3, <2>2, <3>1 DEF AcctSessionKept
    <3>3. acctSession[q.id].gen > q.gen
      BY <1>1, <2>2, <3>2 DEF AcctSpendInv, AcctGenerations
    <3>4. acctSession[q.id].gen \in Nat /\ acctSession'[q.id].gen \in Nat
      BY <1>3, <2>2, <3>1, <3>2
      DEF AcctSpendInv, AcctTyped, AcctTablesTyped, AcctLive, AcctRecords
    <3> QED
      BY <3>1, <3>2, <3>3, <3>4
  <2> QED
    BY <1>1, <2>1, <2>2 DEF AcctSpendInv, AcctGenerations
<1>6. AcctOneClaim'
  BY <1>1, <1>2 DEF AcctSpendInv, AcctOneClaim, AcctClaimed
<1>7. AcctFreshInv'
  <2>1. \A i \in AcctIds : AcctLive(i)' => AcctLive(i) /\ (AcctFresh(i)' <=> AcctFresh(i))
                                           /\ acctSession'[i].user = acctSession[i].user
    BY <1>1, <1>3 DEF AcctSessionKept, AcctFresh
  <2>2. \A d \in AcctCall : acctReq[d].at = "others" => acctReq[d].id \in AcctIds
    BY AcctShapeAt, AcctShapeIs DEF AcctPlaced, AcctSpendInv, AcctTyped
  <2>3. \A d, i, u : AcctWillRevoke(d, i, u)' <=> AcctWillRevoke(d, i, u)
    BY <1>1 DEF AcctWillRevoke
  <2>4. AcctSparedFresh'
    BY <1>1, <2>1, <2>2, <2>3 DEF AcctFreshInv, AcctSparedFresh
  <2>5. AcctSessionsFresh'
    BY <1>1, <2>1 DEF AcctFreshInv, AcctSessionsFresh
  <2>6. AcctGrantsFresh'
    BY <1>1 DEF AcctFreshInv, AcctGrantsFresh, AcctWillClear
  <2> QED
    BY <2>4, <2>5, <2>6 DEF AcctFreshInv
<1> QED
  BY <1>4, <1>5, <1>6, <1>7 DEF AcctSpendInv

-----------------------------------------------------------------------------
(* The statements that take a password or an account out of use, and those *)
(* that revoke what was granted on it.                                     *)

\* The changed password goes into the session that is spared; every other session of
\* the user is now to be revoked by this request.
LEMMA AcctMineKeeps ==
    ASSUME AcctSpendInv, AcctFreshInv, NEW c \in AcctCall, AcctMineUpdates(c)
    PROVE  AcctSpendInv' /\ AcctFreshInv'
<1> DEFINE q == acctReq[c]
<1>1. /\ q.at = "mine" /\ AcctOn(c, "others")
      /\ UNCHANGED <<acctLife, acctService, acctAcl, acctCode>>
  BY DEF AcctMineUpdates, AcctAt
<1>2. q \in AcctChanges /\ q.who \in AcctNames /\ q.id \in AcctIds
  BY <1>1, AcctShapeAt, AcctShapeIs DEF AcctPlaced, AcctSpendInv, AcctTyped
<1>3. PICK r : /\ AcctGoes(c, r) /\ r.at = "others" /\ r \in AcctChanges
               /\ r.id = q.id /\ r.who = q.who
  BY <1>1, <1>2, AcctContinues DEF AcctSpendInv
<1>4. r \in AcctShapes /\ r \notin AcctSpent \cup AcctPolls /\ r.op = "password"
      /\ r.who \in AcctNames /\ r.id \in AcctIds
  BY <1>3, AcctShapeIs DEF AcctShapes
<1>5. acctReq'[c] = r /\ \A d \in AcctCall : d # c => acctReq'[d] = acctReq[d]
  BY <1>3, <1>4, AcctGoesOn DEF AcctSpendInv
<1>6. /\ acctProof' \in [AcctNames -> Nat]
      /\ \A u \in AcctNames : u # r.who => acctProof'[u] = acctProof[u]
  BY <1>2, <1>3 DEF AcctMineUpdates, AcctSetPassword, AcctSpendInv, AcctTyped, AcctTablesTyped
<1>7. acctSession \in [AcctIds -> AcctRecords \cup {AcctNone}]
  BY DEF AcctSpendInv, AcctTyped, AcctTablesTyped
<1>8. acctSession' = [acctSession EXCEPT ![r.id] =
                        IF @ = AcctNone THEN @ ELSE [@ EXCEPT !.proof = acctProof'[r.who]]]
  BY <1>3 DEF AcctMineUpdates
<1>9. ASSUME NEW x \in AcctRecords, NEW n \in Nat
      PROVE  /\ [x EXCEPT !.proof = n] \in AcctRecords /\ [x EXCEPT !.proof = n].proof = n
             /\ [x EXCEPT !.proof = n].user = x.user /\ [x EXCEPT !.proof = n].gen = x.gen
             /\ [x EXCEPT !.proof = n].late = x.late
  BY DEF AcctRecords
<1>10. acctProof'[r.who] \in Nat
  BY <1>4, <1>6
<1>11. \A i \in AcctIds : i # r.id => acctSession'[i] = acctSession[i]
  BY <1>7, <1>8
<1>12. ASSUME AcctLive(r.id)'
       PROVE  /\ AcctLive(r.id) /\ acctSession'[r.id] \in AcctRecords
              /\ acctSession'[r.id].user = acctSession[r.id].user
              /\ acctSession'[r.id].gen = acctSession[r.id].gen
              /\ acctSession'[r.id].proof = acctProof'[r.who]
  <2>1. AcctLive(r.id) /\ acctSession'[r.id] = [acctSession[r.id] EXCEPT !.proof = acctProof'[r.who]]
    BY <1>4, <1>7, <1>8, <1>12 DEF AcctLive
  <2>2. acctSession[r.id] \in AcctRecords
    BY <1>4, <1>7, <2>1 DEF AcctLive
  <2> QED
    BY <2>1, <2>2, <1>9, <1>10
<1>13. AcctTablesTyped'
  <2>1. acctSession' \in [AcctIds -> AcctRecords \cup {AcctNone}]
    BY <1>4, <1>7, <1>8, <1>11, <1>12 DEF AcctLive
  <2> QED
    BY <1>1, <1>6, <2>1 DEF AcctSpendInv, AcctTyped, AcctTablesTyped
<1>14. ASSUME NEW i \in AcctIds, AcctLive(i)'
       PROVE  /\ AcctLive(i) /\ acctSession'[i].user = acctSession[i].user
              /\ acctSession'[i].gen >= acctSession[i].gen
              /\ acctSession[i].user \in AcctNames
  <2>1. AcctLive(i) /\ acctSession'[i].user = acctSession[i].user
        /\ acctSession'[i].gen = acctSession[i].gen
    BY <1>11, <1>12, <1>14 DEF AcctLive
  <2>2. acctSession[i].gen \in Nat /\ acctSession[i].user \in AcctNames
    BY <1>7, <2>1 DEF AcctLive, AcctRecords
  <2> QED
    BY <2>1, <2>2
<1>15. AcctBorn(r.id) /\ (AcctLive(r.id) => acctSession[r.id].user = r.who)
  BY <1>2, <1>3 DEF AcctSpendInv, AcctIdsBorn
<1>16. AcctTyped' /\ AcctIdsBorn' /\ AcctGenerations'
  BY <1>1, <1>3, <1>4, <1>13, <1>14, <1>15, AcctSpendKeeps
<1>17. AcctOneClaim'
  BY <1>1, <1>3, <1>4, AcctClaimKeeps
<1>18. ASSUME NEW i \in AcctIds, AcctLive(i)', acctSession[i].user # r.who
       PROVE  AcctFresh(i)' <=> AcctFresh(i)
  <2>1. i # r.id
    BY <1>14, <1>15, <1>18
  <2> QED
    BY <2>1, <1>6, <1>11, <1>14, <1>18 DEF AcctFresh
<1>19. AcctSessionsFresh'
  <2> SUFFICES ASSUME NEW i \in AcctIds, AcctLive(i)'
               PROVE  \/ AcctFresh(i)'
                      \/ \E d \in AcctCall : /\ acctReq'[d].at \in {"others", "all", "tokens"}
                                             /\ acctReq'[d].who = acctSession'[i].user
    BY DEF AcctSessionsFresh
  <2>1. CASE acctSession[i].user = r.who
    BY <1>3, <1>5, <1>14, <2>1
  <2>2. CASE acctSession[i].user # r.who
    <3>1. \A d \in AcctCall : acctReq[d].at \in {"others", "all", "tokens"} => d # c
      BY <1>1
    <3> QED
      BY <3>1, <1>5, <1>14, <1>18, <2>2 DEF AcctFreshInv, AcctSessionsFresh
  <2> QED
    BY <2>1, <2>2
<1>20. ASSUME NEW d \in AcctCall, NEW p \in AcctShapes, acctReq'[d] = p, p.at = "others",
              AcctLive(p.id)', ~AcctFresh(p.id)'
       PROVE  \E e \in AcctCall : AcctWillRevoke(e, p.id, p.who)'
  <2>0. p.id \in AcctIds /\ p \in AcctChanges
    BY <1>20, AcctShapeAt, AcctShapeIs DEF AcctPlaced
  <2>1. p.id # r.id
    <3> SUFFICES ASSUME p.id = r.id PROVE FALSE
      OBVIOUS
    <3>1. acctSession'[p.id].proof = acctProof'[acctSession'[p.id].user]
      BY <1>12, <1>15, <1>20
    <3> QED
      BY <3>1, <1>20 DEF AcctFresh
  <2>2. acctReq[d] = p
    BY <1>5, <1>20, <2>1
  <2>3. CASE p.who = r.who
    <3>1. AcctWillRevoke(c, p.id, p.who)'
      BY <1>3, <1>5, <2>1, <2>3 DEF AcctWillRevoke
    <3> QED
      BY <3>1
  <2>4. CASE p.who # r.who
    <3>1. AcctLive(p.id) /\ acctSession[p.id].user = p.who
      BY <1>14, <1>20, <2>0, <2>2 DEF AcctSpendInv, AcctIdsBorn
    <3>2. PICK e \in AcctCall : AcctWillRevoke(e, p.id, p.who)
      BY <3>1, <1>18, <1>20, <2>0, <2>2, <2>4 DEF AcctFreshInv, AcctSparedFresh
    <3>3. acctReq'[e] = acctReq[e]
      BY <1>1, <1>5, <3>2 DEF AcctWillRevoke
    <3> QED
      BY <3>2, <3>3 DEF AcctWillRevoke
  <2> QED
    BY <2>3, <2>4
<1>21. AcctSparedFresh'
  BY <1>16, <1>20 DEF AcctTyped, AcctSparedFresh
<1>22. AcctGrantsFresh'
  <2>1. \A d \in AcctCall : acctReq[d].at \in {"tokens", "services", "acl"} => acctReq'[d] = acctReq[d]
    BY <1>1, <1>5
  <2>2. \A u, ats : ats \subseteq {"tokens", "services", "acl"} =>
           (AcctWillClear(u, ats) => AcctWillClear(u, ats)')
    BY <2>1 DEF AcctWillClear
  <2> QED
    BY <1>1, <2>2 DEF AcctFreshInv, AcctGrantsFresh
<1> QED
  BY <1>16, <1>17, <1>19, <1>21, <1>22 DEF AcctSpendInv, AcctFreshInv

\* A reset or a deletion: all sessions of the user are now to be revoked by this request, and
\* all grants when the account is gone.
LEMMA AcctTakesOut ==
    ASSUME AcctSpendInv, AcctFreshInv, NEW c \in AcctCall, NEW r \in AcctShapes, AcctGoes(c, r),
           acctReq[c].at \notin AcctCovers \cup {"done"}, r.at \in {"all", "tokens"},
           UNCHANGED <<acctSession, acctService, acctAcl, acctCode>>,
           acctProof' \in [AcctNames -> Nat], acctLife' \in [AcctNames -> Nat],
           \A u \in AcctNames : u # r.who => acctProof'[u] = acctProof[u] /\ acctLife'[u] = acctLife[u],
           acctLife' = acctLife \/ r.at = "tokens"
    PROVE  AcctSpendInv' /\ AcctFreshInv'
<1>1. acctReq'[c] = r /\ \A d \in AcctCall : d # c => acctReq'[d] = acctReq[d]
  BY AcctGoesOn DEF AcctSpendInv
<1>2. r \notin AcctSpent \cup AcctChanges \cup AcctPolls
      /\ r.at \notin {"scope", "mint", "putBack", "done"}
  BY AcctShapeIs
<1>3. AcctTablesTyped'
  BY DEF AcctSpendInv, AcctTyped, AcctTablesTyped
<1>4. \A i \in AcctIds : AcctLive(i)' => AcctSessionKept(i)
  BY AcctKeptAll
<1>5. AcctTyped' /\ AcctIdsBorn' /\ AcctGenerations'
  BY <1>2, <1>3, <1>4, AcctSpendKeeps DEF AcctSessionKept
<1>6. AcctOneClaim'
  BY <1>2, AcctClaimKeeps
<1>7. \A d \in AcctCall : acctReq[d].at \in AcctCovers => acctReq'[d] = acctReq[d]
  BY <1>1
<1>8. ASSUME NEW i \in AcctIds, AcctLive(i)
      PROVE  /\ acctSession[i].user \in AcctNames
             /\ acctSession[i].user # r.who => (AcctFresh(i)' <=> AcctFresh(i))
  <2>1. acctSession[i].user \in AcctNames
    BY <1>8 DEF AcctSpendInv, AcctTyped, AcctTablesTyped, AcctLive, AcctRecords
  <2> QED
    BY <2>1 DEF AcctFresh
<1>9. AcctSessionsFresh'
  <2> SUFFICES ASSUME NEW i \in AcctIds, AcctLive(i)
               PROVE  \/ AcctFresh(i)'
                      \/ \E d \in AcctCall : /\ acctReq'[d].at \in {"others", "all", "tokens"}
                                             /\ acctReq'[d].who = acctSession[i].user
    BY DEF AcctSessionsFresh, AcctLive
  <2>1. CASE acctSession[i].user = r.who
    BY <1>1, <2>1
  <2>2. CASE acctSession[i].user # r.who
    BY <1>7, <1>8, <2>2 DEF AcctFreshInv, AcctSessionsFresh, AcctCovers
  <2> QED
    BY <2>1, <2>2
<1>10. ASSUME NEW d \in AcctCall, NEW p \in AcctShapes, acctReq'[d] = p, p.at = "others",
              AcctLive(p.id), ~AcctFresh(p.id)'
       PROVE  \E e \in AcctCall : AcctWillRevoke(e, p.id, p.who)'
  <2>1. p.id \in AcctIds /\ p \in AcctChanges
    BY <1>10, AcctShapeAt, AcctShapeIs DEF AcctPlaced
  <2>2. acctReq[d] = p
    BY <1>1, <1>10
  <2>3. CASE p.who = r.who
    <3>1. AcctWillRevoke(c, p.id, p.who)'
      BY <1>1, <2>3 DEF AcctWillRevoke
    <3> QED
      BY <3>1
  <2>4. CASE p.who # r.who
    <3>1. acctSession[p.id].user = p.who
      BY <1>10, <2>1, <2>2 DEF AcctSpendInv, AcctIdsBorn
    <3>2. PICK e \in AcctCall : AcctWillRevoke(e, p.id, p.who)
      BY <3>1, <1>8, <1>10, <2>1, <2>2, <2>4 DEF AcctFreshInv, AcctSparedFresh
    <3>3. acctReq'[e] = acctReq[e]
      BY <1>7, <3>2 DEF AcctWillRevoke, AcctCovers
    <3> QED
      BY <3>2, <3>3 DEF AcctWillRevoke
  <2> QED
    BY <2>3, <2>4
<1>11. AcctSparedFresh'
  BY <1>5, <1>10 DEF AcctTyped, AcctSparedFresh, AcctLive
<1>12. \A u, ats : ats \subseteq AcctCovers => (AcctWillClear(u, ats) => AcctWillClear(u, ats)')
  BY <1>7 DEF AcctWillClear
<1>13. ASSUME acctLife' # acctLife
       PROVE  /\ AcctWillClear(r.who, {"tokens", "services"})'
              /\ AcctWillClear(r.who, {"tokens", "services", "acl"})'
  BY <1>1, <1>13 DEF AcctWillClear
<1>14. \A x \in acctService \cup acctAcl : x.user \in AcctNames
  BY DEF AcctSpendInv, AcctTyped, AcctTablesTyped, AcctGrants
<1>15. AcctGrantsFresh'
  <2>1. ASSUME NEW x \in acctService
        PROVE  x.life = acctLife'[x.user] \/ x.late \/ AcctWillClear(x.user, {"tokens", "services"})'
    BY <1>12, <1>13, <1>14 DEF AcctFreshInv, AcctGrantsFresh, AcctCovers
  <2>2. ASSUME NEW x \in acctAcl
        PROVE  x.life = acctLife'[x.user] \/ x.late
                  \/ AcctWillClear(x.user, {"tokens", "services", "acl"})'
    BY <1>12, <1>13, <1>14 DEF AcctFreshInv, AcctGrantsFresh, AcctCovers
  <2> QED
    BY <2>1, <2>2 DEF AcctGrantsFresh
<1> QED
  BY <1>5, <1>6, <1>9, <1>11, <1>15 DEF AcctSpendInv, AcctFreshInv

LEMMA AcctResetKeeps ==
    ASSUME AcctSpendInv, AcctFreshInv, NEW c \in AcctCall, AcctResetUpdates(c)
    PROVE  AcctSpendInv' /\ AcctFreshInv'
<1> DEFINE q == acctReq[c]
<1>1. /\ q.at = "reset" /\ AcctSetPassword(q.who, q.must)
      /\ UNCHANGED <<acctLife, acctSession, acctService, acctAcl, acctCode>>
  BY DEF AcctResetUpdates, AcctAt
<1>2. q \in AcctResets /\ q.who \in AcctNames
  BY <1>1, AcctShapeAt DEF AcctPlaced, AcctSpendInv, AcctTyped, AcctResets
<1>3. q.at \notin AcctCovers \cup {"done"}
  BY <1>1 DEF AcctCovers
<1>4. acctProof \in [AcctNames -> Nat] /\ acctLife \in [AcctNames -> Nat]
  BY DEF AcctSpendInv, AcctTyped, AcctTablesTyped
<1>5. CASE AcctExists(q.who)
  <2>1. AcctOn(c, "all")
    BY <1>5 DEF AcctResetUpdates
  <2>2. PICK r : AcctGoes(c, r) /\ r.at = "all" /\ r \in AcctResets /\ r.who = q.who
    BY <1>2, <2>1, AcctContinues DEF AcctSpendInv
  <2>3. r \in AcctShapes
    BY <2>2 DEF AcctShapes
  <2>4. acctProof' \in [AcctNames -> Nat] /\ \A u \in AcctNames : u # q.who => acctProof'[u] = acctProof[u]
    BY <1>1, <1>2, <1>4 DEF AcctSetPassword
  <2> QED
    BY <1>1, <1>3, <1>4, <2>2, <2>3, <2>4, AcctTakesOut
<1>6. CASE ~AcctExists(q.who)
  <2>1. AcctEnds(c)
    BY <1>6 DEF AcctResetUpdates
  <2>2. acctProof' = acctProof
    BY <1>1, <1>2, <1>4, <1>6 DEF AcctSetPassword
  <2> QED
    BY <1>1, <1>3, <2>1, <2>2, AcctEndsKeeps
<1> QED
  BY <1>5, <1>6

LEMMA AcctDeleteKeeps ==
    ASSUME AcctSpendInv, AcctFreshInv, NEW c \in AcctCall, AcctDeletes(c)
    PROVE  AcctSpendInv' /\ AcctFreshInv'
<1> DEFINE q == acctReq[c]
<1>1. q.at = "delete" /\ UNCHANGED <<acctSession, acctService, acctAcl, acctCode>>
  BY DEF AcctDeletes, AcctAt
<1>2. q \in AcctDeletions /\ q.who \in AcctNames
  BY <1>1, AcctShapeAt DEF AcctPlaced, AcctSpendInv, AcctTyped, AcctDeletions
<1>3. q.at \notin AcctCovers \cup {"done"}
  BY <1>1 DEF AcctCovers
<1>4. acctProof \in [AcctNames -> Nat] /\ acctLife \in [AcctNames -> Nat]
  BY DEF AcctSpendInv, AcctTyped, AcctTablesTyped
<1>5. CASE /\ AcctOn(c, "tokens")
           /\ acctLife' = [acctLife EXCEPT ![q.who] = @ + 1]
           /\ acctProof' = [acctProof EXCEPT ![q.who] = @ + 1]
  <2>1. PICK r : AcctGoes(c, r) /\ r.at = "tokens" /\ r \in AcctDeletions /\ r.who = q.who
    BY <1>2, <1>5, AcctContinues DEF AcctSpendInv
  <2>2. r \in AcctShapes
    BY <2>1 DEF AcctShapes
  <2>3. /\ acctProof' \in [AcctNames -> Nat] /\ acctLife' \in [AcctNames -> Nat]
        /\ \A u \in AcctNames : u # q.who => acctProof'[u] = acctProof[u] /\ acctLife'[u] = acctLife[u]
    BY <1>2, <1>4, <1>5
  <2> QED
    BY <1>1, <1>3, <2>1, <2>2, <2>3, AcctTakesOut
<1>6. CASE AcctEnds(c) /\ UNCHANGED <<acctProof, acctLife>>
  BY <1>1, <1>3, <1>6, AcctEndsKeeps
<1> QED
  BY <1>5, <1>6 DEF AcctDeletes

\* The revocation itself: what it spares is fresh, or another request comes for it.
LEMMA AcctRevokeKeeps ==
    ASSUME AcctSpendInv, AcctFreshInv, NEW c \in AcctCall, AcctRevokes(c)
    PROVE  AcctSpendInv' /\ AcctFreshInv'
<1> DEFINE q == acctReq[c]
<1>1. /\ q.at \in {"others", "all", "tokens"} /\ AcctDrop(AcctRevoked(q))
      /\ IF q.at = "tokens" THEN AcctOn(c, "services") ELSE AcctEnds(c)
      /\ UNCHANGED <<acctLife, acctProof, acctService, acctAcl, acctCode>>
  BY DEF AcctRevokes, AcctAt
<1>2. PICK r \in AcctShapes :
         /\ AcctGoes(c, r) /\ r \notin AcctSpent \cup AcctChanges \cup AcctPolls /\ r.op # "poll"
         /\ r.at \in {"services", "done"} /\ (q.at = "tokens" => r.at = "services" /\ r.who = q.who)
  <2>1. CASE q.at = "tokens"
    <3>1. q \in AcctDeletions
      BY <2>1, AcctShapeAt DEF AcctPlaced, AcctSpendInv, AcctTyped
    <3>2. PICK r : AcctGoes(c, r) /\ r.at = "services" /\ r \in AcctDeletions /\ r.who = q.who
      BY <1>1, <2>1, <3>1, AcctContinues DEF AcctSpendInv
    <3>3. r.op # "poll" /\ r \in AcctShapes
      BY <3>2 DEF AcctDeletions, AcctShapes
    <3> QED
      BY <2>1, <3>2, <3>3, AcctShapeIs
  <2>2. CASE q.at # "tokens"
    BY <1>1, <2>2, AcctEndsQuietly
  <2> QED
    BY <2>1, <2>2
<1>3. acctReq'[c] = r /\ \A d \in AcctCall : d # c => acctReq'[d] = acctReq[d]
  BY <1>2, AcctGoesOn DEF AcctSpendInv
<1>4. /\ \A i \in AcctIds : AcctLive(i)' => AcctSessionKept(i) /\ i \notin AcctRevoked(q)
      /\ acctSession' \in [AcctIds -> AcctRecords \cup {AcctNone}]
  BY <1>1, AcctDropKept
<1>5. AcctTablesTyped'
  BY <1>1, <1>4 DEF AcctSpendInv, AcctTyped, AcctTablesTyped
<1>6. AcctTyped' /\ AcctIdsBorn' /\ AcctGenerations'
  BY <1>1, <1>2, <1>4, <1>5, AcctSpendKeeps DEF AcctSessionKept
<1>7. AcctOneClaim'
  BY <1>1, <1>2, AcctClaimKeeps
<1>8. ASSUME NEW i \in AcctIds, AcctLive(i)'
      PROVE  /\ AcctLive(i) /\ acctSession'[i].user = acctSession[i].user
             /\ AcctFresh(i) => AcctFresh(i)'
             /\ acctSession[i].user = q.who => q.at = "others" /\ i = q.id
  BY <1>1, <1>4, <1>8 DEF AcctSessionKept, AcctFresh, AcctRevoked, AcctOthers, AcctOf
<1>9. AcctSessionsFresh'
  <2> SUFFICES ASSUME NEW i \in AcctIds, AcctLive(i)', ~AcctFresh(i)
               PROVE  \E d \in AcctCall : /\ acctReq'[d].at \in {"others", "all", "tokens"}
                                          /\ acctReq'[d].who = acctSession[i].user
    BY <1>8 DEF AcctSessionsFresh
  <2>1. CASE acctSession[i].user = q.who
    <3>1. q.at = "others" /\ i = q.id
      BY <1>8, <2>1
    <3>2. PICK d \in AcctCall : AcctWillRevoke(d, i, q.who)
      BY <1>8, <3>1 DEF AcctFreshInv, AcctSparedFresh
    <3>3. d # c
      BY <3>1, <3>2 DEF AcctWillRevoke
    <3> QED
      BY <1>3, <2>1, <3>2, <3>3 DEF AcctWillRevoke
  <2>2. CASE acctSession[i].user # q.who
    <3>1. PICK d \in AcctCall : /\ acctReq[d].at \in {"others", "all", "tokens"}
                                /\ acctReq[d].who = acctSession[i].user
      BY <1>8 DEF AcctFreshInv, AcctSessionsFresh
    <3> QED
      BY <1>3, <2>2, <3>1
  <2> QED
    BY <2>1, <2>2
<1>10. ASSUME NEW d \in AcctCall, NEW p \in AcctShapes, acctReq'[d] = p, p.at = "others",
              AcctLive(p.id)', ~AcctFresh(p.id)'
       PROVE  \E e \in AcctCall : AcctWillRevoke(e, p.id, p.who)'
  <2>1. p.id \in AcctIds /\ p \in AcctChanges
    BY <1>10, AcctShapeAt, AcctShapeIs DEF AcctPlaced
  <2>2. acctReq[d] = p
    BY <1>2, <1>3, <1>10
  <2>3. AcctLive(p.id) /\ ~AcctFresh(p.id) /\ acctSession[p.id].user = p.who
    BY <1>8, <1>10, <2>1, <2>2 DEF AcctSpendInv, AcctIdsBorn
  <2>4. PICK e \in AcctCall : AcctWillRevoke(e, p.id, p.who)
    BY <1>10, <2>2, <2>3 DEF AcctFreshInv, AcctSparedFresh
  <2>5. e # c
    BY <1>8, <1>10, <2>1, <2>3, <2>4 DEF AcctWillRevoke
  <2> QED
    BY <1>3, <2>4, <2>5 DEF AcctWillRevoke
<1>11. AcctSparedFresh'
  BY <1>6, <1>10 DEF AcctTyped, AcctSparedFresh
<1>12. \A u : /\ AcctWillClear(u, {"tokens", "services"}) => AcctWillClear(u, {"tokens", "services"})'
              /\ AcctWillClear(u, {"tokens", "services", "acl"}) =>
                    AcctWillClear(u, {"tokens", "services", "acl"})'
  BY <1>1, <1>2, <1>3 DEF AcctWillClear
<1>13. AcctGrantsFresh'
  BY <1>1, <1>12 DEF AcctFreshInv, AcctGrantsFresh
<1> QED
  BY <1>6, <1>7, <1>9, <1>11, <1>13 DEF AcctSpendInv, AcctFreshInv

\* What a deletion has cleared needs it no more.
LEMMA AcctClearKeeps ==
    ASSUME AcctSpendInv, AcctFreshInv, NEW c \in AcctCall, AcctClears(c)
    PROVE  AcctSpendInv' /\ AcctFreshInv'
<1> DEFINE q == acctReq[c]
<1>1. /\ UNCHANGED <<acctLife, acctProof, acctSession, acctCode>>
      /\ \/ /\ q.at = "services" /\ AcctOn(c, "acl") /\ acctAcl' = acctAcl
            /\ acctService' = {x \in acctService : x.user # q.who}
         \/ /\ q.at = "acl" /\ AcctEnds(c) /\ acctService' = acctService
            /\ acctAcl' = {x \in acctAcl : x.user # q.who}
  BY DEF AcctClears, AcctKept, AcctAt
<1>2. PICK r \in AcctShapes :
         /\ AcctGoes(c, r) /\ r \notin AcctSpent \cup AcctChanges \cup AcctPolls /\ r.op # "poll"
         /\ r.at \in {"acl", "done"} /\ (q.at = "services" => r.at = "acl" /\ r.who = q.who)
  <2>1. CASE q.at = "services"
    <3>1. q \in AcctDeletions
      BY <2>1, AcctShapeAt DEF AcctPlaced, AcctSpendInv, AcctTyped
    <3>2. PICK r : AcctGoes(c, r) /\ r.at = "acl" /\ r \in AcctDeletions /\ r.who = q.who
      BY <1>1, <2>1, <3>1, AcctContinues DEF AcctSpendInv
    <3>3. r.op # "poll" /\ r \in AcctShapes
      BY <3>2 DEF AcctDeletions, AcctShapes
    <3> QED
      BY <2>1, <3>2, <3>3, AcctShapeIs
  <2>2. CASE q.at # "services"
    BY <1>1, <2>2, AcctEndsQuietly
  <2> QED
    BY <2>1, <2>2
<1>3. acctReq'[c] = r /\ \A d \in AcctCall : d # c => acctReq'[d] = acctReq[d]
  BY <1>2, AcctGoesOn DEF AcctSpendInv
<1>4. AcctTablesTyped' /\ \A i \in AcctIds : AcctLive(i)' => AcctSessionKept(i)
  BY <1>1, AcctKeptAll DEF AcctSpendInv, AcctTyped, AcctTablesTyped
<1>5. AcctTyped' /\ AcctIdsBorn' /\ AcctGenerations'
  BY <1>1, <1>2, <1>4, AcctSpendKeeps DEF AcctSessionKept
<1>6. AcctOneClaim'
  BY <1>1, <1>2, AcctClaimKeeps
<1>7. \A d \in AcctCall : acctReq[d].at \in {"others", "all", "tokens"} => acctReq'[d] = acctReq[d]
  BY <1>1, <1>3
<1>8. AcctSessionsFresh'
  BY <1>1, <1>7 DEF AcctFreshInv, AcctSessionsFresh, AcctLive, AcctFresh
<1>9. ASSUME NEW d \in AcctCall, NEW p \in AcctShapes, acctReq'[d] = p, p.at = "others",
              AcctLive(p.id)', ~AcctFresh(p.id)'
      PROVE  \E e \in AcctCall : AcctWillRevoke(e, p.id, p.who)'
  <2>1. acctReq[d] = p
    BY <1>2, <1>3, <1>9
  <2>2. PICK e \in AcctCall : AcctWillRevoke(e, p.id, p.who)
    BY <1>1, <1>9, <2>1 DEF AcctFreshInv, AcctSparedFresh, AcctLive, AcctFresh
  <2> QED
    BY <1>7, <2>2 DEF AcctWillRevoke
<1>10. AcctSparedFresh'
  BY <1>5, <1>9 DEF AcctTyped, AcctSparedFresh
<1>11. \A d \in AcctCall : d # c /\ acctReq[d].at \in {"tokens", "services", "acl"} =>
          acctReq'[d] = acctReq[d]
  BY <1>3
<1>12. \A u : /\ u # q.who \/ q.at = "acl" =>
                    (AcctWillClear(u, {"tokens", "services"}) => AcctWillClear(u, {"tokens", "services"})')
              /\ u # q.who \/ q.at = "services" =>
                    (AcctWillClear(u, {"tokens", "services", "acl"}) =>
                        AcctWillClear(u, {"tokens", "services", "acl"})')
  BY <1>2, <1>3, <1>11 DEF AcctWillClear
<1>13. AcctGrantsFresh'
  <2>1. CASE q.at = "services"
    BY <1>1, <1>12, <2>1 DEF AcctFreshInv, AcctGrantsFresh
  <2>2. CASE q.at = "acl"
    BY <1>1, <1>12, <2>2 DEF AcctFreshInv, AcctGrantsFresh
  <2> QED
    BY <1>1, <2>1, <2>2
<1> QED
  BY <1>5, <1>6, <1>8, <1>10, <1>13 DEF AcctSpendInv, AcctFreshInv

-----------------------------------------------------------------------------

LEMMA AcctKeepsInit ==
    ASSUME AcctInit
    PROVE  AcctSpendInv /\ AcctFreshInv
<1> DEFINE me == CHOOSE u \in AcctNames : TRUE
<1>1. me \in AcctNames
  BY AcctAssumption
<1>2. AcctNew(me, AcctNone, 0, FALSE) \in AcctRecords
      /\ AcctNew(me, AcctNone, 0, FALSE).proof = 0 /\ AcctNew(me, AcctNone, 0, FALSE).user = me
  BY <1>1 DEF AcctNew, AcctRecords, AcctOvers
<1>3. /\ acctProof = [u \in AcctNames |-> 0] /\ acctLife = [u \in AcctNames |-> 0]
      /\ acctSession = [i \in AcctIds |-> IF i = 1 THEN AcctNew(me, AcctNone, 0, FALSE) ELSE AcctNone]
      /\ acctService = {} /\ acctAcl = {}
      /\ acctCode = [status |-> "none", user |-> AcctNone, ripe |-> FALSE]
      /\ acctReq = [c \in AcctCall |-> AcctIdle]
  BY DEF AcctInit
<1> HIDE DEF me
<1>4. AcctIdle \in AcctPlain /\ AcctIdle.at = "idle" /\ AcctIdle.op = "none"
      /\ AcctIdle \notin AcctSpent \cup AcctChanges \cup AcctPolls
  BY DEF AcctIdle, AcctPlain, AcctSpent, AcctChanges, AcctPolls
<1>5. AcctTyped
  <2>1. AcctTablesTyped
    BY <1>2, <1>3 DEF AcctTablesTyped
  <2> QED
    BY <1>3, <1>4, <2>1 DEF AcctTyped, AcctShapes
<1>6. \A i \in AcctIds : AcctLive(i) => i = 1 /\ AcctFresh(i)
  BY <1>1, <1>2, <1>3 DEF AcctLive, AcctFresh
<1>7. \A c \in AcctCall : acctReq[c] = AcctIdle
  BY <1>3
<1>8. AcctSpendInv
  BY <1>3, <1>4, <1>5, <1>6, <1>7
  DEF AcctSpendInv, AcctIdsBorn, AcctBorn, AcctGenerations, AcctOneClaim, AcctClaimed
<1>9. AcctFreshInv
  BY <1>3, <1>4, <1>6, <1>7
  DEF AcctFreshInv, AcctSparedFresh, AcctSessionsFresh, AcctGrantsFresh
<1> QED
  BY <1>8, <1>9

LEMMA AcctKeepsNext ==
    ASSUME AcctUsers, AcctSpendInv, AcctFreshInv, [AcctNext]_acctVars
    PROVE  AcctSpendInv' /\ AcctFreshInv'
<1>1. ASSUME NEW c \in AcctCall, AcctRequest(c) PROVE AcctSpendInv' /\ AcctFreshInv'
  BY <1>1, AcctRequestKeeps
<1>2. ASSUME NEW c \in AcctCall, AcctStep(c) PROVE AcctSpendInv' /\ AcctFreshInv'
  BY <1>2, AcctLoginKeeps, AcctPlainSteps, AcctOverrideKeeps, AcctGrantKeeps, AcctScopeKeeps,
     AcctMintKeeps, AcctRotateKeeps, AcctPairingKeeps, AcctMineKeeps, AcctResetKeeps,
     AcctDeleteKeeps, AcctRevokeKeeps, AcctClearKeeps DEF AcctStep
<1>3. CASE AcctCodeCreated \/ AcctTime
  BY <1>3, AcctTimeKeeps
<1>4. CASE UNCHANGED acctVars
  BY <1>4
  DEF acctVars, acctTables, AcctSpendInv, AcctTyped, AcctTablesTyped, AcctIdsBorn, AcctBorn,
     AcctGenerations, AcctOneClaim, AcctClaimed, AcctFreshInv, AcctSparedFresh, AcctSessionsFresh,
     AcctGrantsFresh, AcctWillRevoke, AcctWillClear, AcctFresh, AcctLive
<1> QED
  BY <1>1, <1>2, <1>3, <1>4 DEF AcctNext

\* The inductive invariant: types and users, what is spent once, what is fresh.
THEOREM AcctInvariant == AcctSpec => [](AcctIInv /\ AcctSpendInv /\ AcctFreshInv)
<1>1. AcctInit => AcctIInv /\ AcctSpendInv /\ AcctFreshInv
  BY AcctIInit, AcctKeepsInit
<1>2. AcctIInv /\ AcctSpendInv /\ AcctFreshInv /\ [AcctNext]_acctVars =>
         (AcctIInv /\ AcctSpendInv /\ AcctFreshInv)'
  BY AcctINext, AcctKeepsNext DEF AcctIInv
<1> QED
  BY <1>1, <1>2, PTL DEF AcctSpec

\* The tables of the account database and what requests hold of them keep their types,
\* whatever handlers interleave.
THEOREM TypesHold == AcctSpec => []AcctTypeOK
<1>1. AcctIInv /\ AcctSpendInv => AcctTypeOK
  BY DEF AcctIInv, AcctUsers, AcctRows, AcctSpendInv, AcctTyped, AcctTablesTyped, AcctRecords,
     AcctOvers, AcctGrants, AcctTypeOK
<1> QED
  BY <1>1, AcctInvariant, PTL

\* Any number of requests that present one refresh token, or poll one approved code, buy
\* one new pair (rotateToken's conditional UPDATE) and one session (the claim of the
\* approval, put back only by the poll that claimed it).
THEOREM SpentOnce == AcctSpec => []AcctSpentOnce
<1>1. AcctSpendInv => AcctSpentOnce
  <2> SUFFICES ASSUME AcctSpendInv, NEW c \in AcctCall, NEW d \in AcctCall,
                      acctReq[c].at = "done", acctReq[c].op # "none", acctReq[c] = acctReq[d]
               PROVE  c = d
    BY DEF AcctSpentOnce
  <2>1. acctReq[c] \in AcctPlain \cup AcctSpent
    BY AcctShapeAt DEF AcctPlaced, AcctSpendInv, AcctTyped
  <2>2. CASE acctReq[c] \in AcctSpent
    BY <2>2 DEF AcctSpendInv, AcctGenerations
  <2>3. CASE acctReq[c] \in AcctPlain
    BY <2>3, AcctShapeIs DEF AcctSpendInv, AcctOneClaim, AcctClaimed
  <2> QED
    BY <2>1, <2>2, <2>3
<1> QED
  BY <1>1, AcctInvariant, PTL

\* However password changes, resets and deletions (handlers_auth.go, handlers_users.go)
\* interleave with each other and with whatever creates rows, nothing granted on a password
\* or an account that is gone is left behind, but what is still to be revoked or was written
\* by a request that had read the old row.
THEOREM NothingOutlives == AcctSpec => []AcctNothingOutlives
<1>1. AcctFreshInv => AcctNothingOutlives
  <2> SUFFICES ASSUME AcctFreshInv PROVE AcctNothingOutlives
    OBVIOUS
  <2>1. ASSUME NEW x \in acctService \cup acctAcl
        PROVE  \/ x.life = acctLife[x.user] \/ x.late
               \/ AcctWillClear(x.user, {"tokens", "services", "acl"})
    BY DEF AcctFreshInv, AcctGrantsFresh, AcctWillClear
  <2> QED
    BY <2>1 DEF AcctFreshInv, AcctSessionsFresh, AcctFresh, AcctWillClear, AcctNothingOutlives
<1> QED
  BY <1>1, AcctInvariant, PTL

-----------------------------------------------------------------------------
(* The throttle of failed authentications.                                 *)

\* The addresses from which a check on u runs.
ThrSources(u) == {ip \in ThrAddresses : \E a \in ThrAttempts : thrCheck[a] = {ip, u}}

ThrTypes ==
    /\ thrStrikes \in [ThrKeys -> Nat] /\ thrInflight \in [ThrKeys -> Nat]
    /\ thrCheck \in [ThrAttempts -> SUBSET ThrKeys]

\* A check is of one address and one name.
ThrPairs ==
    \A a \in ThrAttempts :
        thrCheck[a] = {} \/ \E ip \in ThrAddresses, u \in ThrNames : thrCheck[a] = {ip, u}

\* Every reservation belongs to a running check.
ThrReserved == \A k \in ThrKeys : thrInflight[k] = Cardinality(ThrChecking(k))

ThrCapped == \A ip \in ThrAddresses : thrStrikes[ip] + thrInflight[ip] <= MaxFailsPerIP

\* Beyond the cap of a name only the first check of an address is let in.
ThrSpread == \A u \in ThrNames : thrInflight[u] - Cardinality(ThrSources(u)) < MaxFailsPerUser

ThrIInv == ThrTypes /\ ThrPairs /\ ThrReserved /\ ThrCapped /\ ThrSpread

\* The sets that are counted are finite.
LEMMA ThrFinite ==
    ASSUME NEW k, NEW u
    PROVE  /\ IsFiniteSet(ThrChecking(k)) /\ Cardinality(ThrChecking(k)) \in Nat
           /\ IsFiniteSet(ThrSources(u)) /\ Cardinality(ThrSources(u)) \in Nat
           /\ Cardinality(ThrSources(u)) <= Cardinality(ThrAddresses)
           /\ Cardinality(ThrAddresses) \in Nat
<1>1. IsFiniteSet(ThrChecking(k)) /\ Cardinality(ThrChecking(k)) \in Nat
  <2>1. ThrChecking(k) \subseteq ThrAttempts
    BY DEF ThrChecking
  <2> QED
    BY <2>1, ThrAssumption, FS_Subset, FS_CardinalityType
<1>2. ThrSources(u) \subseteq ThrAddresses
  BY DEF ThrSources
<1> QED
  BY <1>1, <1>2, ThrAssumption, FS_Subset, FS_CardinalityType

\* The same of the next state.
LEMMA ThrFiniteNext ==
    ASSUME NEW k, NEW u
    PROVE  /\ IsFiniteSet(ThrChecking(k)') /\ Cardinality(ThrChecking(k)') \in Nat
           /\ IsFiniteSet(ThrSources(u)') /\ Cardinality(ThrSources(u)') \in Nat
<1>1. ThrChecking(k)' \subseteq ThrAttempts
  BY DEF ThrChecking
<1>2. ThrSources(u)' \subseteq ThrAddresses
  BY DEF ThrSources
<1> QED
  BY <1>1, <1>2, ThrAssumption, FS_Subset, FS_CardinalityType

\* Nothing is counted at the start.
LEMMA ThrInitHolds == ThrInit => ThrIInv
<1> SUFFICES ASSUME ThrInit PROVE ThrIInv
  OBVIOUS
<1>1. ThrTypes /\ ThrPairs
  BY DEF ThrInit, ThrTypes, ThrPairs
<1>2. \A k \in ThrKeys : ThrChecking(k) = {}
  BY DEF ThrInit, ThrChecking
<1>3. \A u \in ThrNames : ThrSources(u) = {}
  BY DEF ThrInit, ThrSources
<1>4. ThrReserved
  BY <1>2, FS_EmptySet DEF ThrReserved, ThrInit
<1>5. ThrCapped
  BY ThrAssumption DEF ThrCapped, ThrInit, ThrKeys
<1>6. ThrSpread
  BY <1>3, FS_EmptySet, ThrAssumption DEF ThrSpread, ThrInit, ThrKeys
<1> QED
  BY <1>1, <1>4, <1>5, <1>6 DEF ThrIInv

\* An attempt that is reserved: the caps leave room for it.
LEMMA ThrBeginKeeps ==
    ASSUME ThrIInv, NEW a \in ThrAttempts, NEW ip \in ThrAddresses, NEW u \in ThrNames,
           ThrBegin(a, ip, u)
    PROVE  ThrIInv'
<1> USE DEF ThrIInv
<1>1. ip \in ThrKeys /\ u \in ThrKeys /\ ip \notin ThrNames /\ u \notin ThrAddresses
  BY ThrAssumption DEF ThrKeys
<1>2. thrCheck[a] = {} /\ thrCheck' = [thrCheck EXCEPT ![a] = {ip, u}]
  BY DEF ThrBegin
<1>3. \A k \in ThrKeys : thrInflight'[k] = IF k \in {ip, u} THEN thrInflight[k] + 1 ELSE thrInflight[k]
  BY DEF ThrBegin, ThrAdd
<1>4. ThrTypes'
  BY <1>1, <1>2 DEF ThrBegin, ThrAdd, ThrTypes
<1>5. ThrPairs'
  BY <1>2 DEF ThrPairs, ThrTypes
<1>6. ThrReserved'
  <2> SUFFICES ASSUME NEW k \in ThrKeys PROVE thrInflight'[k] = Cardinality(ThrChecking(k)')
    BY DEF ThrReserved
  <2>1. CASE k \in {ip, u}
    <3>1. ThrChecking(k)' = ThrChecking(k) \cup {a} /\ a \notin ThrChecking(k)
      BY <1>2, <2>1 DEF ThrChecking, ThrTypes
    <3>2. Cardinality(ThrChecking(k) \cup {a}) = Cardinality(ThrChecking(k)) + 1
      BY <3>1, ThrFinite, FS_AddElement
    <3> QED
      BY <3>1, <3>2, <1>3, <2>1 DEF ThrReserved
  <2>2. CASE k \notin {ip, u}
    <3>1. ThrChecking(k)' = ThrChecking(k)
      BY <1>2, <2>2 DEF ThrChecking, ThrTypes
    <3> QED
      BY <3>1, <1>3, <2>2 DEF ThrReserved
  <2> QED
    BY <2>1, <2>2
<1>7. ThrCapped'
  <2> SUFFICES ASSUME NEW i \in ThrAddresses
               PROVE  thrStrikes'[i] + thrInflight'[i] <= MaxFailsPerIP
    BY DEF ThrCapped
  <2>1. i \in ThrKeys /\ thrStrikes'[i] = thrStrikes[i]
        /\ thrStrikes[i] + thrInflight[i] <= MaxFailsPerIP
        /\ thrStrikes[i] \in Nat /\ thrInflight[i] \in Nat
    BY DEF ThrKeys, ThrBegin, ThrCapped, ThrTypes
  <2>2. i = ip => thrStrikes[i] + thrInflight[i] < MaxFailsPerIP
    BY <2>1, ThrAssumption DEF ThrBegin, ThrAddressFull
  <2>3. i # ip => i \notin {ip, u}
    BY <1>1
  <2> QED
    BY <2>1, <2>2, <2>3, <1>3, ThrAssumption
<1>8. ThrSpread'
  <2> SUFFICES ASSUME NEW v \in ThrNames
               PROVE  thrInflight'[v] - Cardinality(ThrSources(v)') < MaxFailsPerUser
    BY DEF ThrSpread
  <2>1. v \in ThrKeys /\ thrInflight[v] \in Nat
        /\ thrInflight[v] - Cardinality(ThrSources(v)) < MaxFailsPerUser
    BY DEF ThrKeys, ThrSpread, ThrTypes
  <2>2. CASE v = u
    <3>1. ThrSources(u)' = ThrSources(u) \cup {ip}
      BY <1>1, <1>2 DEF ThrSources, ThrTypes
    <3>2. thrInflight'[u] = thrInflight[u] + 1
      BY <1>1, <1>3
    <3>3. CASE ip \notin ThrSources(u)
      <4>1. Cardinality(ThrSources(u)') = Cardinality(ThrSources(u)) + 1
            /\ Cardinality(ThrSources(u)) \in Nat
        BY <3>1, <3>3, ThrFinite, FS_AddElement
      <4> QED
        BY <4>1, <3>2, <2>1, <2>2, ThrAssumption
    <3>4. CASE ip \in ThrSources(u)
      <4>1. PICK b \in ThrAttempts : thrCheck[b] = {ip, u}
        BY <3>4 DEF ThrSources
      <4>2. ThrChecking(ip) # {}
        BY <4>1 DEF ThrChecking
      <4>3. thrInflight[ip] > 0
        BY <4>2, <1>1, ThrFinite, FS_EmptySet DEF ThrReserved
      <4>4. thrStrikes[u] + thrInflight[u] < MaxFailsPerUser
        BY <4>3, <1>1, ThrAssumption DEF ThrBegin, ThrNameFull, ThrTypes
      <4>5. ThrSources(u)' # {} /\ Cardinality(ThrSources(u)') > 0
        BY <3>1, ThrFiniteNext, FS_EmptySet
      <4>6. thrStrikes[u] \in Nat /\ thrInflight[u] \in Nat /\ Cardinality(ThrSources(u)') \in Nat
        BY <1>1, ThrFiniteNext DEF ThrTypes
      <4> QED
        BY <4>4, <4>5, <4>6, <3>2, <2>2, ThrAssumption
    <3> QED
      BY <3>3, <3>4
  <2>3. CASE v # u
    <3>1. ThrSources(v)' = ThrSources(v)
      BY <1>1, <1>2, <2>3, ThrAssumption DEF ThrSources, ThrTypes
    <3>2. v \notin {ip, u}
      BY <1>1, <2>3
    <3> QED
      BY <3>1, <3>2, <2>1, <1>3
  <2> QED
    BY <2>2, <2>3
<1> QED
  BY <1>4, <1>5, <1>6, <1>7, <1>8

\* An attempt that is released gives both its reservations back.
LEMMA ThrFinishKeeps ==
    ASSUME ThrIInv, NEW a \in ThrAttempts, NEW failed \in BOOLEAN, ThrFinish(a, failed)
    PROVE  ThrIInv'
<1> USE DEF ThrIInv
<1>1. PICK ip \in ThrAddresses, u \in ThrNames : thrCheck[a] = {ip, u}
  BY DEF ThrPairs, ThrFinish
<1>2. ip \in ThrKeys /\ u \in ThrKeys /\ ip \notin ThrNames /\ u \notin ThrAddresses
  BY ThrAssumption DEF ThrKeys
<1>3. thrCheck' = [thrCheck EXCEPT ![a] = {}]
  BY DEF ThrFinish
<1>4. \A k \in ThrKeys : thrInflight'[k] = IF k \in {ip, u} THEN thrInflight[k] - 1 ELSE thrInflight[k]
  BY <1>1 DEF ThrFinish
<1>5. \A k \in {ip, u} : ThrChecking(k)' = ThrChecking(k) \ {a} /\ a \in ThrChecking(k)
  BY <1>1, <1>3 DEF ThrChecking, ThrTypes
<1>6. \A k \in {ip, u} : thrInflight[k] > 0
  BY <1>2, <1>5, ThrFinite, FS_EmptySet DEF ThrReserved
<1>7. ThrTypes'
  <2>1. thrInflight' = [k \in ThrKeys |-> IF k \in {ip, u} THEN thrInflight[k] - 1 ELSE thrInflight[k]]
    BY <1>1 DEF ThrFinish
  <2>2. thrInflight' \in [ThrKeys -> Nat]
    BY <2>1, <1>6 DEF ThrTypes
  <2>3. thrStrikes' \in [ThrKeys -> Nat]
    BY DEF ThrFinish, ThrAdd, ThrTypes
  <2> QED
    BY <2>2, <2>3, <1>3 DEF ThrTypes
<1>8. ThrPairs'
  BY <1>3 DEF ThrPairs, ThrTypes
<1>9. ThrReserved'
  <2> SUFFICES ASSUME NEW k \in ThrKeys PROVE thrInflight'[k] = Cardinality(ThrChecking(k)')
    BY DEF ThrReserved
  <2>1. CASE k \in {ip, u}
    BY <2>1, <1>4, <1>5, ThrFinite, FS_RemoveElement DEF ThrReserved
  <2>2. CASE k \notin {ip, u}
    <3>1. ThrChecking(k)' = ThrChecking(k)
      BY <1>1, <1>3, <2>2 DEF ThrChecking, ThrTypes
    <3> QED
      BY <3>1, <1>4, <2>2 DEF ThrReserved
  <2> QED
    BY <2>1, <2>2
<1>10. ThrCapped'
  <2> SUFFICES ASSUME NEW i \in ThrAddresses
               PROVE  thrStrikes'[i] + thrInflight'[i] <= MaxFailsPerIP
    BY DEF ThrCapped
  <2>1. i \in ThrKeys /\ i \notin ThrNames /\ i # u
        /\ thrStrikes[i] + thrInflight[i] <= MaxFailsPerIP
        /\ thrStrikes[i] \in Nat /\ thrInflight[i] \in Nat
    BY <1>2, ThrAssumption DEF ThrKeys, ThrCapped, ThrTypes
  <2>2. thrStrikes'[i] = thrStrikes[i] \/ (i = ip /\ thrStrikes'[i] = thrStrikes[i] + 1)
    BY <1>1, <2>1 DEF ThrFinish, ThrAdd
  <2> QED
    BY <2>1, <2>2, <1>4, ThrAssumption
<1>11. ThrSpread'
  <2> SUFFICES ASSUME NEW v \in ThrNames
               PROVE  thrInflight'[v] - Cardinality(ThrSources(v)') < MaxFailsPerUser
    BY DEF ThrSpread
  <2>1. v \in ThrKeys /\ thrInflight[v] \in Nat
        /\ thrInflight[v] - Cardinality(ThrSources(v)) < MaxFailsPerUser
    BY DEF ThrKeys, ThrSpread, ThrTypes
  <2>2. CASE v = u
    <3>1. ThrSources(u) \ {ip} \subseteq ThrSources(u)'
      BY <1>1, <1>2, <1>3, ThrAssumption DEF ThrSources, ThrTypes
    <3>2. Cardinality(ThrSources(u) \ {ip}) <= Cardinality(ThrSources(u)')
      BY <3>1, ThrFiniteNext, FS_Subset
    <3>3. Cardinality(ThrSources(u) \ {ip}) >= Cardinality(ThrSources(u)) - 1
          /\ Cardinality(ThrSources(u) \ {ip}) \in Int
      <4>1. IsFiniteSet(ThrSources(u)) /\ Cardinality(ThrSources(u)) \in Nat
        BY ThrFinite
      <4>2. Cardinality(ThrSources(u) \ {ip}) =
              IF ip \in ThrSources(u) THEN Cardinality(ThrSources(u)) - 1 ELSE Cardinality(ThrSources(u))
        BY <4>1, FS_RemoveElement
      <4> QED
        BY <4>1, <4>2
    <3>4. thrInflight'[u] = thrInflight[u] - 1
      BY <1>2, <1>4
    <3>5. Cardinality(ThrSources(u)) \in Nat /\ Cardinality(ThrSources(u)') \in Nat
      BY ThrFinite, ThrFiniteNext
    <3> QED
      BY <3>2, <3>3, <3>4, <3>5, <2>1, <2>2, ThrAssumption
  <2>3. CASE v # u
    <3>1. ThrSources(v)' = ThrSources(v)
      BY <1>1, <1>2, <1>3, <2>3, ThrAssumption DEF ThrSources, ThrTypes
    <3>2. v \notin {ip, u}
      BY <1>2, <2>3
    <3> QED
      BY <3>1, <3>2, <2>1, <1>4
  <2> QED
    BY <2>2, <2>3
<1> QED
  BY <1>7, <1>8, <1>9, <1>10, <1>11

\* The end of a window only takes strikes away.
LEMMA ThrWindowKeeps ==
    ASSUME ThrIInv, NEW k \in ThrKeys, ThrWindowEnds(k)
    PROVE  ThrIInv'
<1>1. ThrTypes' /\ ThrPairs' /\ ThrReserved' /\ ThrSpread'
  BY DEF ThrIInv, ThrWindowEnds, ThrTypes, ThrPairs, ThrReserved, ThrSpread, ThrChecking, ThrSources
<1>2. ThrCapped'
  <2> SUFFICES ASSUME NEW i \in ThrAddresses
               PROVE  thrStrikes'[i] + thrInflight'[i] <= MaxFailsPerIP
    BY DEF ThrCapped
  <2>1. i \in ThrKeys /\ thrStrikes[i] + thrInflight[i] <= MaxFailsPerIP
        /\ thrStrikes[i] \in Nat /\ thrInflight[i] \in Nat
    BY DEF ThrKeys, ThrIInv, ThrCapped, ThrTypes
  <2>2. thrStrikes'[i] \in {0, thrStrikes[i]} /\ thrInflight'[i] = thrInflight[i]
    BY <2>1 DEF ThrWindowEnds, ThrIInv, ThrTypes
  <2> QED
    BY <2>1, <2>2, ThrAssumption
<1> QED
  BY <1>1, <1>2 DEF ThrIInv

\* However requests burst and whatever windows end while they are checked, the
\* throttle of ratelimit.go admits no check beyond the cap of its address, and on
\* one name at most one check from each address beyond the cap of the name.
THEOREM ChecksAreBounded == ThrSpec => []ThrChecksBounded
<1>1. ThrIInv /\ [ThrNext]_thrVars => ThrIInv'
  <2> SUFFICES ASSUME ThrIInv, [ThrNext]_thrVars PROVE ThrIInv'
    OBVIOUS
  <2>1. CASE UNCHANGED thrVars
    BY <2>1 DEF thrVars, ThrIInv, ThrTypes, ThrPairs, ThrReserved, ThrCapped, ThrSpread, ThrChecking, ThrSources
  <2>2. CASE ThrNext
    BY <2>2, ThrBeginKeeps, ThrFinishKeeps, ThrWindowKeeps DEF ThrNext
  <2> QED
    BY <2>1, <2>2
<1>2. ThrIInv => ThrChecksBounded
  <2> SUFFICES ASSUME ThrIInv, NEW u \in ThrNames
               PROVE  thrInflight[u] < MaxFailsPerUser + Cardinality(ThrAddresses)
    BY DEF ThrIInv, ThrChecksBounded, ThrReserved, ThrCapped
  <2>1. thrInflight[u] \in Nat /\ thrInflight[u] - Cardinality(ThrSources(u)) < MaxFailsPerUser
    BY DEF ThrIInv, ThrTypes, ThrSpread, ThrKeys
  <2> QED
    BY <2>1, ThrFinite, ThrAssumption
<1> QED
  BY <1>1, <1>2, ThrInitHolds, PTL DEF ThrSpec

=============================================================================
