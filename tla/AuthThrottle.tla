---------------------------- MODULE AuthThrottle ----------------------------
(***************************************************************************)
(* The failed-authentication throttle (server/ratelimit.go) around the     *)
(* password checks of login and of the change of one's own password: an    *)
(* attempt is reserved before the slow check and released with its outcome *)
(* after it.  Strikes and attempts in flight are counted for the address   *)
(* and for the username; strikes are forgotten when their window ends.     *)
(***************************************************************************)
EXTENDS Naturals, FiniteSets

CONSTANTS
    ThrAddresses,   \* client addresses
    ThrNames,       \* usernames tried
    ThrAttempts,    \* requests that can be in a password check at once
    MaxFailsPerIP,
    MaxFailsPerUser,
    ThrWindows      \* bound: windows that end in one behavior

ASSUME ThrAssumption ==
    /\ ThrAddresses \cap ThrNames = {}
    /\ IsFiniteSet(ThrAddresses) /\ IsFiniteSet(ThrAttempts)
    /\ MaxFailsPerIP \in Nat \ {0} /\ MaxFailsPerUser \in Nat \ {0}
    /\ ThrWindows \in Nat

ThrKeys == ThrAddresses \cup ThrNames

VARIABLES
    thrStrikes,     \* failures of each key in its window
    thrInflight,    \* reservations of each key
    thrCheck,       \* what each request checks: {address, username} or {}
    thrEnded        \* bound counter

thrVars == <<thrStrikes, thrInflight, thrCheck, thrEnded>>

ThrAdd(f, S) == [k \in ThrKeys |-> IF k \in S THEN f[k] + 1 ELSE f[k]]

\* The cap of an address: attempts in flight count as strikes.
ThrAddressFull(ip) == thrStrikes[ip] + thrInflight[ip] >= MaxFailsPerIP

\* The cap of a name holds only for a source that is failing or busy.
FaultyThrNameFull(ip, u) ==
    /\ thrStrikes[u] + thrInflight[u] >= MaxFailsPerUser
    /\ thrStrikes[ip] > 0
ThrNameFull(ip, u) ==
    /\ thrStrikes[u] + thrInflight[u] >= MaxFailsPerUser
    /\ thrStrikes[ip] > 0 \/ thrInflight[ip] > 0

\* An attempt is reserved; a refused one changes nothing.
ThrBegin(a, ip, u) ==
    /\ thrCheck[a] = {}
    /\ ~ThrAddressFull(ip) /\ ~ThrNameFull(ip, u)
    /\ thrInflight' = ThrAdd(thrInflight, {ip, u})
    /\ thrCheck' = [thrCheck EXCEPT ![a] = {ip, u}]
    /\ UNCHANGED <<thrStrikes, thrEnded>>

\* It is released once: a failure strikes both keys, a success clears the
\* name's strikes and leaves the address its own.
ThrFinish(a, failed) ==
    /\ thrCheck[a] # {}
    /\ thrInflight' = [k \in ThrKeys |-> IF k \in thrCheck[a]
                                         THEN thrInflight[k] - 1
                                         ELSE thrInflight[k]]
    /\ thrStrikes' = IF failed THEN ThrAdd(thrStrikes, thrCheck[a])
                     ELSE [k \in ThrKeys |-> IF k \in thrCheck[a] \cap ThrNames
                                             THEN 0 ELSE thrStrikes[k]]
    /\ thrCheck' = [thrCheck EXCEPT ![a] = {}]
    /\ UNCHANGED thrEnded

ThrWindowEnds(k) ==
    /\ thrEnded < ThrWindows /\ thrStrikes[k] > 0
    /\ thrStrikes' = [thrStrikes EXCEPT ![k] = 0]
    /\ thrEnded' = thrEnded + 1
    /\ UNCHANGED <<thrInflight, thrCheck>>

ThrInit ==
    /\ thrStrikes = [k \in ThrKeys |-> 0]
    /\ thrInflight = [k \in ThrKeys |-> 0]
    /\ thrCheck = [a \in ThrAttempts |-> {}]
    /\ thrEnded = 0

ThrNext ==
    \/ \E a \in ThrAttempts :
       \/ \E ip \in ThrAddresses, u \in ThrNames : ThrBegin(a, ip, u)
       \/ \E failed \in BOOLEAN : ThrFinish(a, failed)
    \/ \E k \in ThrKeys : ThrWindowEnds(k)

ThrSpec == ThrInit /\ [][ThrNext]_thrVars

ThrTypeOK ==
    /\ thrStrikes \in [ThrKeys -> Nat] /\ thrInflight \in [ThrKeys -> Nat]
    /\ \A a \in ThrAttempts : thrCheck[a] \subseteq ThrKeys
    /\ thrEnded \in 0 .. ThrWindows

-----------------------------------------------------------------------------
ThrChecking(k) == {a \in ThrAttempts : k \in thrCheck[a]}

\* However requests burst and whatever windows end while they are checked,
\* no address has more checks running or failed in its window than its cap,
\* every reservation belongs to a running check, and on one name at most the
\* cap run, and one more for each other address.
ThrChecksBounded ==
    /\ \A k \in ThrKeys : thrInflight[k] = Cardinality(ThrChecking(k))
    /\ \A ip \in ThrAddresses : thrStrikes[ip] + thrInflight[ip] <= MaxFailsPerIP
    /\ \A u \in ThrNames :
          thrInflight[u] < MaxFailsPerUser + Cardinality(ThrAddresses)
=============================================================================
