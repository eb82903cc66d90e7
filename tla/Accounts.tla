------------------------------ MODULE Accounts ------------------------------
(***************************************************************************)
(* Users, sessions, service tokens, camera ACLs and TV pairing: the four   *)
(* tables of the account database and the handlers that write them         *)
(* (server/handlers_auth.go, handlers_users.go, handlers_service_tokens.go, *)
(* acl.go, servicetoken/).  A statement of SQLite is atomic and a handler   *)
(* is a sequence of statements without a transaction, except that of the   *)
(* ACL; handlers of several clients interleave between the statements.     *)
(* The reads a handler makes one after another before its first write are  *)
(* one step.                                                               *)
(*                                                                         *)
(* Passwords, secrets and names of devices are left out; a pair of access  *)
(* and refresh token is its generation in its row.  A password check that  *)
(* fails ends the request and changes no table (AuthThrottle has its       *)
(* effect), so only the others are actions here.  acctLife and acctProof   *)
(* are history: which account of a name, and which password of it, a row   *)
(* was granted on.                                                         *)
(***************************************************************************)
EXTENDS Naturals, FiniteSets

CONSTANTS
    AcctNames,      \* usernames
    AcctRoles,      \* the roles the administrator hands out
    AcctFlags,      \* whether a reset flags the account: a set of BOOLEAN
    AcctCalls,      \* bound: requests of one behavior
    AcctTicks,      \* bound: expiries and runs of the cleanup
    AcctNone        \* no row, no user

ASSUME AcctAssumption ==
    /\ AcctRoles \subseteq {"admin", "user", "viewer", "monitor"}
    /\ "admin" \in AcctRoles /\ AcctRoles # {"admin"}
    /\ AcctFlags \subseteq BOOLEAN
    /\ AcctCalls \in Nat /\ AcctTicks \in Nat
    /\ AcctNames # {} /\ IsFiniteSet(AcctNames)
    /\ AcctNone \notin AcctNames /\ AcctNone \notin [role : AcctRoles, must : BOOLEAN]

AcctCall == 1 .. AcctCalls

\* Ids of the sessions: one at the start, then one a call can add.
AcctIds == 1 .. AcctCalls + 1

VARIABLES
    acctUser,       \* users: role and must_change_password of a name
    acctLife,       \* history: how often the account of a name was deleted
    acctProof,      \* history: how often its password went out of use
    acctSession,    \* tokens: the session of each id
    acctService,    \* service_tokens that are not revoked
    acctAcl,        \* camera_acl: the rows of a restricted name
    acctCode,       \* device_login: the one pairing code
    acctReq,        \* the request of each call
    acctTicks       \* bound counter

acctTables == <<acctUser, acctLife, acctProof, acctSession, acctService,
                acctAcl, acctCode>>
acctVars == <<acctTables, acctReq, acctTicks>>

AcctIdle == [at |-> "idle", op |-> "none"]

\* A finished request; one that won is remembered with what it spent.
AcctDone == [at |-> "done", op |-> "none"]

AcctNew(user, over, proof, late) ==
    [user |-> user, over |-> over, gen |-> 0, graceOver |-> FALSE,
     expired |-> FALSE, proof |-> proof, late |-> late]

AcctTypeOK ==
    /\ acctUser \in [AcctNames -> [role : AcctRoles, must : BOOLEAN]
                                     \cup {AcctNone}]
    /\ acctLife \in [AcctNames -> Nat] /\ acctProof \in [AcctNames -> Nat]
    /\ \A i \in AcctIds : acctSession[i] # AcctNone =>
          acctSession[i] \in
             [user : AcctNames,
              over : {"user", "viewer", "monitor", "admin", AcctNone},
              gen : Nat, graceOver : BOOLEAN, expired : BOOLEAN,
              proof : Nat, late : BOOLEAN]
    /\ acctService \subseteq [user : AcctNames, life : Nat, late : BOOLEAN]
    /\ \A g \in acctAcl : g \in [user : AcctNames, life : Nat, late : BOOLEAN]
    /\ acctCode.status \in {"none", "pending", "approved", "expired"}

-----------------------------------------------------------------------------
\* Reads.

AcctLive(i) == acctSession[i] # AcctNone

AcctExists(u) == acctUser[u] # AcctNone

AcctAdmins == {u \in AcctNames : AcctExists(u) /\ acctUser[u].role = "admin"}

\* The role of a session: its override, or the role its user has now.
AcctRole(i) == IF acctSession[i].over # AcctNone
               THEN acctSession[i].over
               ELSE acctUser[acctSession[i].user].role

\* A session that authenticates: its user exists and it has not expired (the
\* refresh window is over, and the access token with it).
AcctLogged(i) ==
    AcctLive(i) /\ ~acctSession[i].expired /\ AcctExists(acctSession[i].user)

\* The gates.  A user who has to change the password passes only the first.
AcctHumanAny(i) == AcctLogged(i)
AcctHuman(i) == AcctLogged(i) /\ ~acctUser[acctSession[i].user].must
AcctHumanAdmin(i) == AcctHuman(i) /\ AcctRole(i) = "admin"

\* The check made before the statement that demotes or deletes an admin.
AcctLastAdmin(u) == AcctAdmins = {u}

\* The guard that statement repeats.
FaultyAcctNotLast(u) == TRUE
AcctNotLast(u) == u \notin AcctAdmins \/ Cardinality(AcctAdmins) > 1

\* Device sessions are never admin.
AcctClamp(role) == IF role = "admin" THEN "user" ELSE role

-----------------------------------------------------------------------------
\* Writes of one statement.

\* DELETE FROM tokens WHERE ...
AcctDrop(S) ==
    acctSession' = [i \in AcctIds |->
                      IF i \in S THEN AcctNone ELSE acctSession[i]]

AcctOf(u) == {i \in AcctIds : AcctLive(i) /\ acctSession[i].user = u}

\* INSERT INTO tokens, under the next id, after the expired sessions of
\* `gone' were cleaned up.
AcctInsert(c, s, gone) ==
    acctSession' = [i \in AcctIds |->
        IF i = c + 1 THEN s
        ELSE IF i \in gone THEN AcctNone ELSE acctSession[i]]

\* The rows that cleanupExpiredTokens may find past their grace.
AcctStale == {i \in AcctIds : AcctLive(i) /\ acctSession[i].expired}

\* Calls arrive in order; each is one request.
AcctArrives(c) == acctReq[c] = AcctIdle /\ \A d \in 1 .. c - 1 : acctReq[d] # AcctIdle
AcctGoes(c, r) == acctReq' = [acctReq EXCEPT ![c] = r]
AcctEnds(c) == AcctGoes(c, AcctDone)
AcctAt(c, at) == acctReq[c].at = at
AcctOn(c, at) == AcctGoes(c, [acctReq[c] EXCEPT !.at = at])

-----------------------------------------------------------------------------
\* Sessions: log in, refresh, log out, revoke.

\* The password was right: role and hash were read, the session comes later.
AcctLogin(c, u) ==
    /\ AcctArrives(c) /\ AcctExists(u)
    /\ AcctGoes(c, [at |-> "login", op |-> "login", who |-> u,
                    proof |-> acctProof[u]])
    /\ UNCHANGED acctTables

AcctLoginInserts(c) ==
    /\ AcctAt(c, "login")
    /\ LET r == acctReq[c] IN
       \E gone \in SUBSET AcctStale :
          AcctInsert(c, AcctNew(r.who, AcctNone, r.proof,
                                r.proof # acctProof[r.who]), gone)
    /\ AcctEnds(c)
    /\ UNCHANGED <<acctUser, acctLife, acctProof, acctService, acctAcl, acctCode>>

\* A refresh token of generation g is presented: the current one or one that
\* was spent.  `late': it was spent longer ago than the grace of a retry.
AcctRefresh(c, i, g) ==
    /\ AcctArrives(c) /\ AcctLive(i) /\ g <= acctSession[i].gen
    /\ AcctGoes(c, [at |-> "rotate", op |-> "refresh", id |-> i, gen |-> g,
                    late |-> acctSession[i].gen = g + 1
                               /\ acctSession[i].graceOver])
    /\ UNCHANGED acctTables

\* The condition of the UPDATE that rotates the pair.
FaultyAcctCurrent(i, g) ==
    AcctLive(i) /\ acctSession[i].gen \in {g, g + 1} /\ ~acctSession[i].expired
AcctCurrent(i, g) ==
    AcctLive(i) /\ acctSession[i].gen = g /\ ~acctSession[i].expired

AcctRotate(c) ==
    /\ AcctAt(c, "rotate")
    /\ LET r == acctReq[c] IN
       IF AcctCurrent(r.id, r.gen)
       THEN /\ acctSession' = [acctSession EXCEPT ![r.id].gen = @ + 1,
                                                  ![r.id].graceOver = FALSE]
            /\ AcctGoes(c, [at |-> "done", op |-> "refresh",
                            id |-> r.id, gen |-> r.gen])
       ELSE AcctOn(c, "judge") /\ UNCHANGED acctSession
    /\ UNCHANGED <<acctUser, acctLife, acctProof, acctService, acctAcl, acctCode>>

\* Nothing rotated: a token spent by the last rotation is a replay.
AcctJudge(c) ==
    /\ AcctAt(c, "judge")
    /\ LET r == acctReq[c]
           replay == AcctLive(r.id) /\ acctSession[r.id].gen = r.gen + 1
       IN  \/ replay /\ r.late /\ AcctOn(c, "kill")
           \/ replay /\ ~r.late /\ AcctEnds(c)
           \/ ~replay /\ AcctOn(c, "prune")
    /\ UNCHANGED acctTables

\* A late replay ends the session; an expired session is pruned.
AcctRefused(c) ==
    /\ AcctAt(c, "kill") \/ AcctAt(c, "prune")
    /\ LET r == acctReq[c] IN
       AcctDrop({i \in {r.id} : \/ r.at = "kill"
                                \/ /\ i \in AcctStale
                                   /\ acctSession[i].gen = r.gen})
    /\ AcctEnds(c)
    /\ UNCHANGED <<acctUser, acctLife, acctProof, acctService, acctAcl, acctCode>>

\* Log out deletes the row of the token presented, revoke a row by its id.
AcctLogout(c, i) ==
    /\ AcctArrives(c) /\ AcctHumanAny(i)
    /\ \/ AcctGoes(c, [at |-> "logout", op |-> "logout", id |-> i,
                       gen |-> acctSession[i].gen])
       \/ \E j \in AcctOf(acctSession[i].user) :
             AcctGoes(c, [at |-> "revoke", op |-> "logout", id |-> j,
                          who |-> acctSession[i].user])
    /\ UNCHANGED acctTables

AcctLogoutDeletes(c) ==
    /\ AcctAt(c, "logout") \/ AcctAt(c, "revoke")
    /\ LET r == acctReq[c] IN
       AcctDrop({i \in {r.id} : \/ r.at = "revoke"
                                \/ AcctLive(i) /\ acctSession[i].gen = r.gen})
    /\ AcctEnds(c)
    /\ UNCHANGED <<acctUser, acctLife, acctProof, acctService, acctAcl, acctCode>>

-----------------------------------------------------------------------------
\* Passwords.

\* The own password: the current one was right.
AcctChangeMine(c, i) ==
    /\ AcctArrives(c) /\ AcctHumanAny(i)
    /\ AcctGoes(c, [at |-> "mine", op |-> "password", id |-> i,
                    gen |-> acctSession[i].gen, who |-> acctSession[i].user])
    /\ UNCHANGED acctTables

\* The new password of u goes into its row, if the row is there.
AcctSetPassword(u, must) ==
    /\ acctUser' = [acctUser EXCEPT ![u] = IF @ = AcctNone THEN @
                                           ELSE [@ EXCEPT !.must = must]]
    /\ acctProof' = [acctProof EXCEPT ![u] = IF AcctExists(u) THEN @ + 1 ELSE @]

AcctMineUpdates(c) ==
    /\ AcctAt(c, "mine")
    /\ LET r == acctReq[c] IN
       /\ AcctSetPassword(r.who, FALSE)
       /\ acctSession' = [acctSession EXCEPT ![r.id] =
             IF @ = AcctNone THEN @
             ELSE [@ EXCEPT !.proof = acctProof'[r.who]]]
       /\ AcctOn(c, "others")
    /\ UNCHANGED <<acctLife, acctService, acctAcl, acctCode>>

\* Every session of the user but the one with the caller's token.
AcctOthers(r) ==
    {i \in AcctOf(r.who) : ~(i = r.id /\ acctSession[i].gen = r.gen)}

\* By an administrator: UPDATE users, then DELETE FROM tokens.
AcctReset(c, i, u, must) ==
    /\ AcctArrives(c) /\ AcctHumanAdmin(i)
    /\ AcctGoes(c, [at |-> "reset", op |-> "password", who |-> u, must |-> must])
    /\ UNCHANGED acctTables

AcctResetUpdates(c) ==
    /\ AcctAt(c, "reset")
    /\ LET r == acctReq[c] IN
       /\ AcctSetPassword(r.who, r.must)
       /\ IF AcctExists(r.who) THEN AcctOn(c, "all") ELSE AcctEnds(c)
    /\ UNCHANGED <<acctLife, acctSession, acctService, acctAcl, acctCode>>

\* The sessions a password change or a deletion revokes.
AcctRevoked(r) == IF r.at = "others" THEN AcctOthers(r) ELSE AcctOf(r.who)

AcctRevokes(c) ==
    /\ AcctAt(c, "others") \/ AcctAt(c, "all") \/ AcctAt(c, "tokens")
    /\ LET r == acctReq[c] IN
       /\ AcctDrop(AcctRevoked(r))
       /\ IF r.at = "tokens" THEN AcctOn(c, "services") ELSE AcctEnds(c)
    /\ UNCHANGED <<acctUser, acctLife, acctProof, acctService, acctAcl, acctCode>>

-----------------------------------------------------------------------------
\* Accounts: create, change the role, delete.

\* A new account is not flagged; a reset is what flags one here.
AcctCreate(c, i, u, role) ==
    /\ AcctArrives(c) /\ AcctHumanAdmin(i)
    /\ AcctGoes(c, [at |-> "create", op |-> "create", who |-> u,
                    role |-> role])
    /\ UNCHANGED acctTables

AcctCreateInserts(c) ==
    /\ AcctAt(c, "create")
    /\ LET r == acctReq[c] IN
       acctUser' = [acctUser EXCEPT ![r.who] =
                      IF @ = AcctNone THEN [role |-> r.role, must |-> FALSE] ELSE @]
    /\ AcctEnds(c)
    /\ UNCHANGED <<acctLife, acctProof, acctSession, acctService, acctAcl, acctCode>>

AcctUpdateRole(c, i, u, role) ==
    /\ AcctArrives(c) /\ AcctHumanAdmin(i)
    /\ role = "admin" \/ ~AcctLastAdmin(u)
    /\ AcctGoes(c, [at |-> "role", op |-> "role", who |-> u, role |-> role])
    /\ UNCHANGED acctTables

AcctRoleUpdates(c) ==
    /\ AcctAt(c, "role")
    /\ LET r == acctReq[c] IN
       IF AcctExists(r.who) /\ (r.role = "admin" \/ AcctNotLast(r.who))
       THEN /\ acctUser' = [acctUser EXCEPT ![r.who].role = r.role]
            /\ AcctOn(c, "override")
       ELSE AcctEnds(c) /\ UNCHANGED acctUser
    /\ UNCHANGED <<acctLife, acctProof, acctSession, acctService, acctAcl, acctCode>>

\* The role override of the user's device sessions follows.
AcctOverrides(c) ==
    /\ AcctAt(c, "override")
    /\ LET r == acctReq[c] IN
       acctSession' = [i \in AcctIds |->
          IF i \in AcctOf(r.who) /\ acctSession[i].over # AcctNone
          THEN [acctSession[i] EXCEPT !.over = AcctClamp(r.role)]
          ELSE acctSession[i]]
    /\ AcctEnds(c)
    /\ UNCHANGED <<acctUser, acctLife, acctProof, acctService, acctAcl, acctCode>>

AcctDelete(c, i, u) ==
    /\ AcctArrives(c) /\ AcctHumanAdmin(i) /\ ~AcctLastAdmin(u)
    /\ AcctGoes(c, [at |-> "delete", op |-> "delete", who |-> u])
    /\ UNCHANGED acctTables

AcctDeletes(c) ==
    /\ AcctAt(c, "delete")
    /\ LET u == acctReq[c].who IN
       IF AcctExists(u) /\ AcctNotLast(u)
       THEN /\ acctUser' = [acctUser EXCEPT ![u] = AcctNone]
            /\ acctLife' = [acctLife EXCEPT ![u] = @ + 1]
            /\ acctProof' = [acctProof EXCEPT ![u] = @ + 1]
            /\ AcctOn(c, "tokens")
       ELSE AcctEnds(c) /\ UNCHANGED <<acctUser, acctLife, acctProof>>
    /\ UNCHANGED <<acctSession, acctService, acctAcl, acctCode>>

\* The service tokens and the rows of the camera ACL that are not the user's.
FaultyAcctKept(S, u) == S
AcctKept(S, u) == {x \in S : x.user # u}

\* What the deletion clears after the sessions.
AcctClears(c) ==
    /\ LET u == acctReq[c].who
       IN  \/ /\ AcctAt(c, "services")
              /\ acctService' = AcctKept(acctService, u)
              /\ AcctOn(c, "acl") /\ UNCHANGED acctAcl
           \/ /\ AcctAt(c, "acl")
              /\ acctAcl' = AcctKept(acctAcl, u)
              /\ AcctEnds(c) /\ UNCHANGED acctService
    /\ UNCHANGED <<acctUser, acctLife, acctProof, acctSession, acctCode>>

-----------------------------------------------------------------------------
\* Service tokens and camera ACLs.

\* The user exists; the row is written later.
AcctGrant(c, i, u) ==
    /\ AcctArrives(c) /\ AcctHumanAdmin(i) /\ AcctExists(u)
    /\ \E at \in {"service", "grant"} :
          AcctGoes(c, [at |-> at, op |-> "grant", who |-> u,
                       life |-> acctLife[u]])
    /\ UNCHANGED acctTables

AcctGranted(r) ==
    [user |-> r.who, life |-> r.life, late |-> r.life # acctLife[r.who]]

AcctServiceInserts(c) ==
    /\ AcctAt(c, "service")
    /\ acctService' = acctService \cup {AcctGranted(acctReq[c])}
    /\ AcctEnds(c)
    /\ UNCHANGED <<acctUser, acctLife, acctProof, acctSession, acctAcl, acctCode>>

AcctServiceRevoked(c, i, s) ==
    /\ AcctArrives(c) /\ AcctHumanAdmin(i)
    /\ acctService' = acctService \ {s}
    /\ AcctEnds(c)
    /\ UNCHANGED <<acctUser, acctLife, acctProof, acctSession, acctAcl, acctCode>>

\* One transaction: the user's rows are replaced, by none when the user is
\* no longer restricted.
AcctAclReplaces(c) ==
    /\ AcctAt(c, "grant")
    /\ LET r == acctReq[c]
           rest == {g \in acctAcl : g.user # r.who}
       IN  acctAcl' \in {rest, rest \cup {AcctGranted(r)}}
    /\ AcctEnds(c)
    /\ UNCHANGED <<acctUser, acctLife, acctProof, acctSession, acctService, acctCode>>

-----------------------------------------------------------------------------
\* Pairing a TV: a code is created, approved by a user, claimed by a poll.
\* That the next creation deletes a code that ran out is left out: nothing
\* can be done with it any more.

AcctCodeCreated ==
    /\ acctCode.status = "none"
    /\ acctCode' = [acctCode EXCEPT !.status = "pending"]
    /\ UNCHANGED <<acctUser, acctLife, acctProof, acctSession, acctService,
                   acctAcl, acctReq, acctTicks>>

AcctVerify(c, i) ==
    /\ AcctArrives(c) /\ AcctHuman(i) /\ acctCode.status = "pending"
    /\ AcctGoes(c, [at |-> IF acctCode.ripe THEN "runOut" ELSE "approve",
                    op |-> "verify", who |-> acctSession[i].user])
    /\ UNCHANGED acctTables

AcctApproves(c) ==
    /\ AcctAt(c, "approve")
    /\ acctCode' = IF acctCode.status = "pending" /\ ~acctCode.ripe
                   THEN [acctCode EXCEPT !.status = "approved",
                                         !.user = acctReq[c].who]
                   ELSE acctCode
    /\ AcctEnds(c)
    /\ UNCHANGED <<acctUser, acctLife, acctProof, acctSession, acctService, acctAcl>>

\* A poll that finds the code approved, or finds that it ran out.
AcctPoll(c) ==
    /\ AcctArrives(c)
    /\ acctCode.status \in {"pending", "approved"}
    /\ \/ ~acctCode.ripe /\ acctCode.status = "approved" /\
          AcctGoes(c, [at |-> "claim", op |-> "poll", who |-> acctCode.user,
                       proof |-> 0, over |-> AcctNone])
       \/ acctCode.ripe /\ AcctGoes(c, [at |-> "runOut", op |-> "run out"])
    /\ UNCHANGED acctTables

AcctRunsOut(c) ==
    /\ AcctAt(c, "runOut")
    /\ acctCode' = [acctCode EXCEPT !.status = "expired"]
    /\ AcctEnds(c)
    /\ UNCHANGED <<acctUser, acctLife, acctProof, acctSession, acctService, acctAcl>>

\* The condition of the UPDATE that claims the approval.
FaultyAcctClaimable == TRUE
AcctClaimable == acctCode.status = "approved"

AcctClaims(c) ==
    /\ AcctAt(c, "claim")
    /\ IF AcctClaimable
       THEN /\ acctCode' = [acctCode EXCEPT !.status = "expired"]
            /\ AcctOn(c, "scope")
       ELSE AcctEnds(c) /\ UNCHANGED acctCode
    /\ UNCHANGED <<acctUser, acctLife, acctProof, acctSession, acctService, acctAcl>>

\* The user's role and flag: no such user puts the code back, a user who has
\* to change the password gets no session.
AcctScopes(c) ==
    /\ AcctAt(c, "scope")
    /\ LET r == acctReq[c] IN
       \/ ~AcctExists(r.who) /\ AcctOn(c, "putBack")
       \/ AcctExists(r.who) /\ acctUser[r.who].must /\ AcctEnds(c)
       \/ /\ AcctExists(r.who) /\ ~acctUser[r.who].must
          /\ AcctGoes(c, [r EXCEPT !.at = "mint", !.proof = acctProof[r.who],
                                   !.over = AcctClamp(acctUser[r.who].role)])
    /\ UNCHANGED acctTables

\* The session of the TV.  A failed INSERT puts the code back.
AcctMints(c) ==
    /\ AcctAt(c, "mint")
    /\ LET r == acctReq[c] IN
       \/ /\ AcctInsert(c, AcctNew(r.who, r.over, r.proof,
                                   r.proof # acctProof[r.who]), {})
          /\ AcctGoes(c, [AcctDone EXCEPT !.op = "poll"])
       \/ AcctOn(c, "putBack") /\ UNCHANGED acctSession
    /\ UNCHANGED <<acctUser, acctLife, acctProof, acctService, acctAcl, acctCode>>

AcctPutsBack(c) ==
    /\ AcctAt(c, "putBack")
    /\ acctCode' = IF acctCode.status = "expired"
                   THEN [acctCode EXCEPT !.status = "approved"] ELSE acctCode
    /\ AcctEnds(c)
    /\ UNCHANGED <<acctUser, acctLife, acctProof, acctSession, acctService, acctAcl>>

-----------------------------------------------------------------------------
\* Time, and the cleanup on a ticker.

AcctTime ==
    /\ acctTicks < AcctTicks /\ acctTicks' = acctTicks + 1
    /\ \/ \E i \in AcctIds :
             /\ AcctLive(i)
             /\ \/ /\ ~acctSession[i].expired
                   /\ acctSession' = [acctSession EXCEPT ![i].expired = TRUE]
                \/ /\ acctSession[i].gen > 0 /\ ~acctSession[i].graceOver
                   /\ acctSession' = [acctSession EXCEPT ![i].graceOver = TRUE]
                \/ i \in AcctStale /\ AcctDrop({i})
          /\ UNCHANGED acctCode
       \/ /\ acctCode.status # "none" /\ ~acctCode.ripe
          /\ acctCode' = [acctCode EXCEPT !.ripe = TRUE]
          /\ UNCHANGED acctSession
    /\ UNCHANGED <<acctUser, acctLife, acctProof, acctService, acctAcl, acctReq>>

-----------------------------------------------------------------------------
\* Every user is an administrator; one of them is logged in.
AcctInit ==
    LET me == CHOOSE u \in AcctNames : TRUE
    IN /\ acctUser = [u \in AcctNames |-> [role |-> "admin", must |-> FALSE]]
       /\ acctLife = [u \in AcctNames |-> 0]
       /\ acctProof = [u \in AcctNames |-> 0]
       /\ acctSession = [i \in AcctIds |->
             IF i = 1 THEN AcctNew(me, AcctNone, 0, FALSE) ELSE AcctNone]
       /\ acctService = {} /\ acctAcl = {}
       /\ acctCode = [status |-> "none", user |-> AcctNone, ripe |-> FALSE]
       /\ acctReq = [c \in AcctCall |-> AcctIdle]
       /\ acctTicks = 0

AcctRequest(c) ==
    \/ AcctPoll(c)
    \/ \E u \in AcctNames : AcctLogin(c, u)
    \/ \E i \in AcctIds :
       \/ \E g \in 0 .. AcctCalls : AcctRefresh(c, i, g)
       \/ AcctLogout(c, i) \/ AcctChangeMine(c, i) \/ AcctVerify(c, i)
       \/ \E s \in acctService : AcctServiceRevoked(c, i, s)
       \/ \E u \in AcctNames :
          \/ AcctDelete(c, i, u) \/ AcctGrant(c, i, u)
          \/ \E must \in AcctFlags : AcctReset(c, i, u, must)
          \/ \E role \in AcctRoles :
             AcctUpdateRole(c, i, u, role) \/ AcctCreate(c, i, u, role)

AcctStep(c) ==
    \/ AcctLoginInserts(c) \/ AcctRotate(c) \/ AcctJudge(c) \/ AcctRefused(c)
    \/ AcctLogoutDeletes(c) \/ AcctMineUpdates(c) \/ AcctResetUpdates(c)
    \/ AcctRevokes(c) \/ AcctCreateInserts(c) \/ AcctRoleUpdates(c)
    \/ AcctOverrides(c) \/ AcctDeletes(c) \/ AcctClears(c)
    \/ AcctServiceInserts(c) \/ AcctAclReplaces(c) \/ AcctApproves(c)
    \/ AcctRunsOut(c) \/ AcctClaims(c) \/ AcctScopes(c) \/ AcctMints(c)
    \/ AcctPutsBack(c)

AcctNext ==
    \/ \E c \in AcctCall : (AcctRequest(c) \/ AcctStep(c)) /\ UNCHANGED acctTicks
    \/ AcctCodeCreated
    \/ AcctTime

AcctSpec == AcctInit /\ [][AcctNext]_acctVars

-----------------------------------------------------------------------------
(***************************************************************************)
(* Properties.                                                             *)
(***************************************************************************)

\* Whatever demotions and deletions run at the same time, an administrator
\* remains (the guard repeated inside the statements).
AcctAdminRemains == AcctAdmins # {}

\* A refresh token buys one new pair and an approved pairing code one
\* session, however many requests present them at once.
AcctSpentOnce ==
    \A c, d \in AcctCall :
       /\ acctReq[c].at = "done" /\ acctReq[c].op # "none"
       /\ acctReq[c] = acctReq[d]
       => c = d

\* A password change and a deletion leave nothing older behind: a session
\* was granted on the current password, a service token and an ACL on the
\* current account of the name, unless the handler that revokes it has not
\* come to it yet, or it was written by a request that had read the old row.
AcctNothingOutlives ==
    /\ \A i \in AcctIds : AcctLive(i) =>
          \/ acctSession[i].proof = acctProof[acctSession[i].user]
          \/ acctSession[i].late
          \/ \E c \in AcctCall : /\ acctReq[c].at \in {"others", "all", "tokens"}
                             /\ acctReq[c].who = acctSession[i].user
    /\ \A x \in acctService \cup acctAcl :
          \/ x.life = acctLife[x.user]
          \/ x.late
          \/ \E c \in AcctCall : /\ acctReq[c].at \in {"tokens", "services", "acl"}
                             /\ acctReq[c].who = x.user
=============================================================================
