----------------------------- MODULE RoleStore -----------------------------
(***************************************************************************)
(* The store of local SCRAM roles (auth/roles.go, rolestore_persist.go):   *)
(* CREATE/ALTER ROLE ... PASSWORD changes the map under the store's lock   *)
(* and writes the whole map to a file before it answers, by a temporary    *)
(* file and a rename; a restart loads the file.  A verifier is named by    *)
(* the password it was derived from, which a SCRAM exchange tells apart    *)
(* and nothing else does.                                                  *)
(***************************************************************************)
EXTENDS Naturals

CONSTANTS
    Admin,     \* connections that change roles
    Client,    \* connections that log in
    Role, Password,
    Bootstrap, \* the role and password seeded at start, from the environment
    MaxRoleOps,\* bound on the changes and restarts
    None

ASSUME RoleStoreAssumption ==
    /\ None \notin Admin \cup Password
    /\ Bootstrap \in Role \X Password

VARIABLES
    roles,  \* RoleStore.roles: None where a role is absent
    file,   \* the roles file: what a start would load
    mu,     \* who holds RoleStore.mu for writing
    admin,  \* each admin's call: its role, password and progress
    login,  \* each client's exchange: its role, the verifier it copied, its outcome
    may,    \* the passwords a role may have: acknowledged last, or attempted since
    ops

roleVars == <<roles, file, mu, admin, login, may, ops>>

Idle == [at |-> "idle"]

\* Variant: the store is not locked across the save.
LockedBriefly(a) == TRUE

\* UpsertPassword and Delete hold mu until they return.
Locked(a) == mu = None

\* UpsertPassword, UpsertVerifier and Delete change the map first.
Change(a) ==
    /\ admin[a].at = "idle"
    /\ ops > 0
    /\ Locked(a)
    /\ \E r \in Role, p \in Password \cup {None} :
        /\ roles' = [roles EXCEPT ![r] = p]
        /\ admin' = [admin EXCEPT ![a] = [at |-> "changed", role |-> r, password |-> p]]
        /\ may' = [may EXCEPT ![r] = @ \cup {p}]
    /\ mu' = a
    /\ ops' = ops - 1
    /\ UNCHANGED <<file, login>>

\* save: the map is encoded into a temporary file; any of its steps may fail, and
\* the caller gets the error with the map changed.
SaveTemp(a) ==
    /\ admin[a].at = "changed"
    /\ \/ /\ admin' = [admin EXCEPT ![a] = [at |-> "written", role |-> @.role,
                                            password |-> @.password, tmp |-> roles]]
          /\ mu' = mu
       \/ admin' = [admin EXCEPT ![a] = Idle] /\ mu' = None
    /\ UNCHANGED <<roles, file, login, may, ops>>

\* os.Rename puts the temporary file in place, or fails.
SaveRename(a) ==
    /\ admin[a].at = "written"
    /\ \/ /\ file' = admin[a].tmp
          /\ admin' = [admin EXCEPT ![a].at = "saved"]
          /\ mu' = mu
       \/ admin' = [admin EXCEPT ![a] = Idle] /\ mu' = None /\ file' = file
    /\ UNCHANGED <<roles, login, may, ops>>

\* mu is released and the statement is answered.
Acknowledge(a) ==
    /\ admin[a].at = "saved"
    /\ mu' = None
    /\ may' = [may EXCEPT ![admin[a].role] = {admin[a].password}]
    /\ admin' = [admin EXCEPT ![a] = Idle]
    /\ UNCHANGED <<roles, file, login, ops>>

\* Lookup copies the verifier; a role without one is not a local role.
Lookup(c) ==
    /\ login[c].at = "idle"
    /\ mu = None
    /\ \E r \in Role :
        /\ roles[r] # None
        /\ login' = [login EXCEPT ![c] = [at |-> "proof", role |-> r, verifier |-> roles[r],
                                          may |-> may[r]]]
    /\ UNCHANGED <<roles, file, mu, admin, may, ops>>

\* runSCRAM: Step1 and Step2 against the copied verifier.
Prove(c) ==
    /\ login[c].at = "proof"
    /\ \E p \in Password :
        login' = [login EXCEPT ![c] =
                     IF p = @.verifier THEN [at |-> "in", password |-> p, may |-> @.may]
                     ELSE [at |-> "out"]]
    /\ UNCHANGED <<roles, file, mu, admin, may, ops>>

\* NewServer seeds the bootstrap role when the loaded store does not have it.
Seed(m) == IF m[Bootstrap[1]] = None THEN [m EXCEPT ![Bootstrap[1]] = Bootstrap[2]] ELSE m

\* The process dies and starts again: NewPersistentRoleStore loads the file.  A
\* temporary file that was not renamed is never read.
Restart ==
    /\ ops > 0
    /\ roles' = Seed(file)
    /\ file' = Seed(file)
    /\ may' = [r \in Role |-> IF file[r] = None THEN may[r] \cup {Seed(file)[r]} ELSE may[r]]
    /\ mu' = None
    /\ admin' = [a \in Admin |-> Idle]
    /\ login' = [c \in Client |-> Idle]
    /\ ops' = ops - 1

RoleInit ==
    /\ file = Seed([r \in Role |-> None])
    /\ roles = file
    /\ mu = None
    /\ admin = [a \in Admin |-> Idle]
    /\ login = [c \in Client |-> Idle]
    /\ may = [r \in Role |-> {file[r]}]
    /\ ops = MaxRoleOps

RoleNext ==
    \/ \E a \in Admin : Change(a) \/ SaveTemp(a) \/ SaveRename(a) \/ Acknowledge(a)
    \/ \E c \in Client : Lookup(c) \/ Prove(c)
    \/ Restart

RoleSpec == RoleInit /\ [][RoleNext]_roleVars

(* An acknowledged CREATE/ALTER ROLE ... PASSWORD is what the server, and  *)
(* every later start of it, checks logins against, until another one is    *)
(* made, acknowledged or not; a login that was let in gave such a password *)
(* (saveLocked under mu, save, load, runSCRAM).                            *)
AcknowledgedPasswordsHold ==
    /\ \A r \in Role : roles[r] \in may[r] /\ file[r] \in may[r]
    /\ \A c \in Client : login[c].at = "in" => login[c].password \in login[c].may
=============================================================================
