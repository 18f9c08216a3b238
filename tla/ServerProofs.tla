----------------------------- MODULE ServerProofs -----------------------------
(***************************************************************************)
(* Proofs about the parts of the server that share no state, for any       *)
(* number of connections, goroutines, roles, keys and namespaces: that     *)
(* acknowledged passwords hold, that a backup is read back exactly under   *)
(* the master key it was taken with, that the server trusts no signing key *)
(* for much longer than the provider does, that the database holds what    *)
(* the answers say of a write, and that of all handlers only a FETCH with  *)
(* a negative count panics.  Each part states its own inductive invariant. *)
(***************************************************************************)
EXTENDS Connection, RoleStore, KeyManager, JWKSCache, FiniteSetTheorems, TLAPS

-----------------------------------------------------------------------------
(* The role store: the invariant adds to AcknowledgedPasswordsHold what    *)
(* the holder of mu has achieved at each step of a save, and what a login  *)
(* has copied.                                                             *)

Verifiers == [Role -> Password \cup {None}]

Changing == [at : {"changed", "saved"}, role : Role, password : Password \cup {None}]
            \cup [at : {"written", "saved"}, role : Role, password : Password \cup {None}, tmp : Verifiers]

RoleTypeOK ==
    /\ roles \in Verifiers
    /\ file \in Verifiers
    /\ mu \in Admin \cup {None}
    /\ admin \in [Admin -> {Idle} \cup Changing]
    /\ DOMAIN login = Client
    /\ may \in [Role -> SUBSET (Password \cup {None})]

\* Whoever is past the change holds mu, and the map has what was asked for; the
\* temporary file is the map, and then the roles file is.
SaveInv ==
    \A a \in Admin :
        /\ admin[a].at # "idle" => mu = a /\ roles[admin[a].role] = admin[a].password
        /\ admin[a].at = "written" => admin[a].tmp = roles
        /\ admin[a].at = "saved" => file = roles

\* A login compares with a verifier the role might have when it was copied.
LoginInv ==
    \A c \in Client : login[c].at = "proof" => login[c].verifier \in login[c].may

RoleInv == RoleTypeOK /\ SaveInv /\ LoginInv /\ AcknowledgedPasswordsHold

LEMMA SeedType ==
    ASSUME NEW m \in Verifiers
    PROVE  /\ Seed(m) \in Verifiers
           /\ \A r \in Role : m[r] # None => Seed(m)[r] = m[r]
BY RoleStoreAssumption, Zenon DEF Seed, Verifiers

LEMMA RoleInitInv == RoleInit => RoleInv
<1> SUFFICES ASSUME RoleInit PROVE RoleInv
    BY Zenon
<1>1. [r \in Role |-> None] \in Verifiers
    BY Zenon DEF Verifiers
<1>2. file \in Verifiers
    BY <1>1, SeedType, Zenon DEF RoleInit
<1>3. RoleTypeOK
    BY <1>2, Zenon DEF RoleInit, RoleTypeOK, Verifiers
<1> QED BY <1>3, Zenon DEF RoleInit, RoleInv, SaveInv, LoginInv, AcknowledgedPasswordsHold, Idle

\* With mu free, no admin is in the middle of a change.
LEMMA FreeMeansIdle == ASSUME RoleInv, mu = None PROVE \A a \in Admin : admin[a] = Idle
<1>1. \A a \in Admin : admin[a].at = "idle"
    BY RoleStoreAssumption, Zenon DEF RoleInv, SaveInv
<1> QED BY <1>1, Zenon DEF RoleInv, RoleTypeOK, Changing

\* What the fields of a change under way are.
LEMMA ChangeFields ==
    ASSUME RoleInv, NEW a \in Admin, admin[a].at # "idle"
    PROVE  /\ admin[a] \in Changing
           /\ admin[a].role \in Role /\ admin[a].password \in Password \cup {None}
           /\ mu = a /\ roles[admin[a].role] = admin[a].password
           /\ \A b \in Admin : b # a => admin[b] = Idle
<1>1. admin[a] \in Changing
    BY DEF RoleInv, RoleTypeOK, Idle
<1>2. mu = a /\ roles[admin[a].role] = admin[a].password
    BY Zenon DEF RoleInv, SaveInv
<1>3. \A b \in Admin : b # a => admin[b].at = "idle"
    BY <1>2, Zenon DEF RoleInv, SaveInv
<1>4. \A b \in Admin : b # a => admin[b] = Idle
    BY <1>3, Zenon DEF RoleInv, RoleTypeOK, Changing
<1>5. admin[a].role \in Role /\ admin[a].password \in Password \cup {None}
    BY <1>1, Zenon DEF Changing
<1> QED BY <1>1, <1>2, <1>4, <1>5, Zenon

LEMMA ChangeKeepsInv == ASSUME RoleInv, NEW a \in Admin, Change(a) PROVE RoleInv'
<1>1. PICK r \in Role, p \in Password \cup {None} :
          /\ roles' = [roles EXCEPT ![r] = p]
          /\ admin' = [admin EXCEPT ![a] = [at |-> "changed", role |-> r, password |-> p]]
          /\ may' = [may EXCEPT ![r] = @ \cup {p}]
    BY Zenon DEF Change
<1>2. mu = None /\ mu' = a /\ UNCHANGED <<file, login>>
    BY Zenon DEF Change, Locked
<1>3. \A b \in Admin : b # a => admin'[b] = Idle
    BY <1>1, <1>2, FreeMeansIdle, Zenon DEF RoleInv, RoleTypeOK
<1>4. admin'[a] = [at |-> "changed", role |-> r, password |-> p] /\ roles'[r] = p
    BY <1>1, Zenon DEF RoleInv, RoleTypeOK, Verifiers
<1>5. RoleTypeOK'
    BY <1>1, <1>2, Zenon DEF RoleInv, RoleTypeOK, Verifiers, Changing
<1>6. SaveInv'
    BY <1>2, <1>3, <1>4 DEF SaveInv, Idle
<1>7. LoginInv' /\ AcknowledgedPasswordsHold'
    BY <1>1, <1>2, Zenon DEF RoleInv, RoleTypeOK, Verifiers, LoginInv, AcknowledgedPasswordsHold
<1> QED BY <1>5, <1>6, <1>7, Zenon DEF RoleInv

\* A call that ends, well or not, leaves all admins idle.
LEMMA EndKeepsSave ==
    ASSUME RoleInv, NEW a \in Admin, admin[a].at # "idle",
           admin' = [admin EXCEPT ![a] = Idle], mu' = None
    PROVE  SaveInv' /\ admin' \in [Admin -> {Idle} \cup Changing]
<1>1. \A b \in Admin : admin'[b] = Idle
    BY ChangeFields, Zenon DEF RoleInv, RoleTypeOK
<1>2. SaveInv'
    BY <1>1 DEF SaveInv, Idle
<1> QED BY <1>2, Zenon DEF RoleInv, RoleTypeOK

LEMMA SaveTempKeepsInv == ASSUME RoleInv, NEW a \in Admin, SaveTemp(a) PROVE RoleInv'
<1>1. admin[a].at = "changed" /\ UNCHANGED <<roles, file, login, may>>
    BY Zenon DEF SaveTemp
<1>2. LoginInv' /\ AcknowledgedPasswordsHold'
    BY <1>1, Zenon DEF RoleInv, LoginInv, AcknowledgedPasswordsHold
<1> DEFINE v == [at |-> "written", role |-> admin[a].role, password |-> admin[a].password, tmp |-> roles]
<1>3. CASE admin' = [admin EXCEPT ![a] = v] /\ mu' = mu
    <2>1. v \in Changing
        BY ChangeFields, <1>1, Zenon DEF Changing, RoleInv, RoleTypeOK
    <2>2. \A b \in Admin : b # a => admin'[b] = Idle
        BY <1>1, <1>3, ChangeFields
    <2>3. admin'[a] = v /\ mu' = a /\ roles[v.role] = v.password
        BY <1>1, <1>3, ChangeFields, Zenon DEF RoleInv, RoleTypeOK
    <2>4. SaveInv'
        BY <1>1, <2>2, <2>3 DEF SaveInv, Idle
    <2>5. RoleTypeOK'
        BY <1>1, <1>3, <2>1, Zenon DEF RoleInv, RoleTypeOK
    <2> QED BY <1>2, <2>4, <2>5, Zenon DEF RoleInv
<1>4. CASE admin' = [admin EXCEPT ![a] = Idle] /\ mu' = None
    BY <1>1, <1>2, <1>4, EndKeepsSave, Zenon DEF RoleInv, RoleTypeOK
<1> QED BY <1>3, <1>4, Zenon DEF SaveTemp

LEMMA SaveRenameKeepsInv == ASSUME RoleInv, NEW a \in Admin, SaveRename(a) PROVE RoleInv'
<1>1. admin[a].at = "written" /\ UNCHANGED <<roles, login, may>> /\ admin[a].tmp = roles
    BY Zenon DEF SaveRename, RoleInv, SaveInv
<1>2. CASE file' = roles /\ admin' = [admin EXCEPT ![a].at = "saved"] /\ mu' = mu
    <2> DEFINE v == [admin[a] EXCEPT !.at = "saved"]
    <2>1. v \in Changing /\ v.at = "saved" /\ v.role = admin[a].role /\ v.password = admin[a].password
        BY <1>1, ChangeFields, Zenon DEF Changing
    <2>2. admin' = [admin EXCEPT ![a] = v] /\ admin'[a] = v
        BY <1>2, Zenon DEF RoleInv, RoleTypeOK
    <2> HIDE DEF v
    <2>3. \A b \in Admin : b # a => admin'[b] = Idle
        BY <1>1, <2>2, ChangeFields
    <2>4. mu' = a /\ roles[v.role] = v.password
        BY <1>1, <1>2, <2>1, ChangeFields, Zenon
    <2>5. SaveInv'
        BY <1>1, <1>2, <2>1, <2>2, <2>3, <2>4 DEF SaveInv, Idle
    <2>6. RoleTypeOK'
        BY <1>1, <1>2, <2>1, <2>2, Zenon DEF RoleInv, RoleTypeOK
    <2>7. LoginInv' /\ AcknowledgedPasswordsHold'
        BY <1>1, <1>2, Zenon DEF RoleInv, LoginInv, AcknowledgedPasswordsHold
    <2> QED BY <2>5, <2>6, <2>7, Zenon DEF RoleInv
<1>3. CASE admin' = [admin EXCEPT ![a] = Idle] /\ mu' = None /\ file' = file
    <2>1. LoginInv' /\ AcknowledgedPasswordsHold'
        BY <1>1, <1>3, Zenon DEF RoleInv, LoginInv, AcknowledgedPasswordsHold
    <2> QED BY <1>1, <1>3, <2>1, EndKeepsSave, Zenon DEF RoleInv, RoleTypeOK
<1> QED BY <1>1, <1>2, <1>3, Zenon DEF SaveRename

LEMMA AcknowledgeKeepsInv == ASSUME RoleInv, NEW a \in Admin, Acknowledge(a) PROVE RoleInv'
<1>1. /\ admin[a].at = "saved" /\ UNCHANGED <<roles, file, login>>
      /\ admin' = [admin EXCEPT ![a] = Idle] /\ mu' = None
      /\ may' = [may EXCEPT ![admin[a].role] = {admin[a].password}]
    BY Zenon DEF Acknowledge
<1>2. file = roles
    BY <1>1, Zenon DEF RoleInv, SaveInv
<1>3. roles[admin[a].role] = admin[a].password /\ admin[a].role \in Role
      /\ admin[a].password \in Password \cup {None}
    BY <1>1, ChangeFields, Zenon
<1>4. RoleTypeOK' /\ SaveInv'
    BY <1>1, <1>3, EndKeepsSave, Zenon DEF RoleInv, RoleTypeOK
<1>5. LoginInv' /\ AcknowledgedPasswordsHold'
    BY <1>1, <1>2, <1>3, Zenon DEF RoleInv, RoleTypeOK, LoginInv, AcknowledgedPasswordsHold
<1> QED BY <1>4, <1>5, Zenon DEF RoleInv

LEMMA LoginKeepsInv ==
    ASSUME RoleInv, NEW c \in Client, Lookup(c) \/ Prove(c)
    PROVE  RoleInv'
<1>1. UNCHANGED <<roles, file, mu, admin, may>>
    BY Zenon DEF Lookup, Prove
<1>2. /\ DOMAIN login' = Client
      /\ \A d \in Client : d # c => login'[d] = login[d]
    BY Zenon DEF Lookup, Prove, RoleInv, RoleTypeOK
<1>3. /\ login'[c].at = "proof" => login'[c].verifier \in login'[c].may
      /\ login'[c].at = "in" => login'[c].password \in login'[c].may
    <2>1. CASE Lookup(c)
        <3>1. PICK r \in Role :
                  login' = [login EXCEPT ![c] = [at |-> "proof", role |-> r, verifier |-> roles[r],
                                                 may |-> may[r]]]
            BY <2>1, Zenon DEF Lookup
        <3>2. login'[c] = [at |-> "proof", role |-> r, verifier |-> roles[r], may |-> may[r]]
            BY <3>1, Zenon DEF RoleInv, RoleTypeOK
        <3> QED BY <3>2 DEF RoleInv, AcknowledgedPasswordsHold
    <2>2. CASE Prove(c)
        <3>1. PICK p \in Password :
                  login' = [login EXCEPT ![c] =
                      IF p = login[c].verifier THEN [at |-> "in", password |-> p, may |-> login[c].may]
                      ELSE [at |-> "out"]]
            BY <2>2, Zenon DEF Prove
        <3>2. login'[c] = IF p = login[c].verifier
                          THEN [at |-> "in", password |-> p, may |-> login[c].may]
                          ELSE [at |-> "out"]
            BY <3>1, Zenon DEF RoleInv, RoleTypeOK
        <3>3. login[c].verifier \in login[c].may
            BY <2>2, Zenon DEF Prove, RoleInv, LoginInv
        <3>4. CASE p = login[c].verifier
            BY <3>2, <3>3, <3>4
        <3>5. CASE p # login[c].verifier
            BY <3>2, <3>5
        <3> QED BY <3>4, <3>5, Zenon
    <2> QED BY <2>1, <2>2, Zenon
<1>4. RoleTypeOK' /\ SaveInv'
    BY <1>1, <1>2, Zenon DEF RoleInv, RoleTypeOK, SaveInv
<1>5. LoginInv' /\ AcknowledgedPasswordsHold'
    BY <1>1, <1>2, <1>3, Zenon DEF RoleInv, LoginInv, AcknowledgedPasswordsHold
<1> QED BY <1>4, <1>5, Zenon DEF RoleInv

LEMMA RoleRestartKeepsInv == ASSUME RoleInv, Restart PROVE RoleInv'
<1>1. /\ Seed(file) \in Verifiers
      /\ \A r \in Role : file[r] # None => Seed(file)[r] = file[r]
    BY SeedType, Zenon DEF RoleInv, RoleTypeOK
<1>2. /\ roles' = Seed(file) /\ file' = Seed(file) /\ mu' = None
      /\ may' = [r \in Role |-> IF file[r] = None THEN may[r] \cup {Seed(file)[r]} ELSE may[r]]
      /\ admin' = [a \in Admin |-> Idle] /\ login' = [c \in Client |-> Idle]
    BY Zenon DEF Restart
<1>3. RoleTypeOK'
    BY <1>1, <1>2, Zenon DEF RoleInv, RoleTypeOK, Verifiers
<1>4. SaveInv' /\ LoginInv'
    BY <1>2, Zenon DEF SaveInv, LoginInv, Idle
<1>5. AcknowledgedPasswordsHold'
    BY <1>1, <1>2, Zenon DEF RoleInv, AcknowledgedPasswordsHold, Idle
<1> QED BY <1>3, <1>4, <1>5, Zenon DEF RoleInv

\* The last acknowledged password of a role, or one attempted since, is what the server
\* and every restart of it checks logins against, for any admins, clients and roles.
THEOREM PasswordsHold == RoleSpec => []AcknowledgedPasswordsHold
<1>1. RoleInv /\ [RoleNext]_roleVars => RoleInv'
    <2>1. RoleInv /\ UNCHANGED roleVars => RoleInv'
        BY Zenon DEF RoleInv, RoleTypeOK, SaveInv, LoginInv, AcknowledgedPasswordsHold, roleVars
    <2> QED BY <2>1, ChangeKeepsInv, SaveTempKeepsInv, SaveRenameKeepsInv, AcknowledgeKeepsInv,
               LoginKeepsInv, RoleRestartKeepsInv, Zenon DEF RoleNext
<1>2. RoleInv => AcknowledgedPasswordsHold
    BY Zenon DEF RoleInv
<1> QED BY <1>1, <1>2, RoleInitInv, PTL DEF RoleSpec

-----------------------------------------------------------------------------
(* The key manager: BackupsReadable says nothing of the calls under way;   *)
(* the invariant adds what a worker knows between the reads of getDEK, and *)
(* that a backup is under the key of its namespace and its master key.     *)

DataKey == (Nat \X Namespace) \cup {Zero}

\* A call past its first read of the map, and one that has its key.
Asking ==
    [at : {"missing", "provisioned"}, op : {"encrypt", "decrypt"}, ns : Namespace, raced : BOOLEAN]

Keyed ==
    [at : {"keyed"}, op : {"encrypt", "decrypt"}, ns : Namespace,
     key : DataKey, raced : BOOLEAN]

Backup ==
    [n : Nat, ns : Namespace, key : DataKey, master : Nat, raced : BOOLEAN,
     read : {"never", "raced", "ok", "failed"}, under : Nat]

KMTypeOK ==
    /\ master \in Nat /\ random \in Nat
    /\ dek \subseteq Namespace
    /\ worker \in [Worker -> {Resting} \cup Asking \cup Keyed]
    /\ backups \subseteq Backup
    /\ IsFiniteSet(backups)

\* A worker that no revocation raced finds its namespace in the map once it has
\* provisioned it, and then holds that namespace's key.
CallsInv ==
    \A w \in Worker :
        /\ worker[w].at = "provisioned" /\ ~worker[w].raced => worker[w].ns \in dek
        /\ worker[w].at = "keyed" /\ ~worker[w].raced => worker[w].key = <<master, worker[w].ns>>

\* What holds of a backup, and of the last read of it.
Sound(b) ==
    /\ ~b.raced => b.key = <<b.master, b.ns>>
    /\ b.read \in {"ok", "failed"} /\ ~b.raced => (b.read = "ok" <=> b.under = b.master)

BackupsSound == \A b \in backups : Sound(b)

KeyInv == KMTypeOK /\ CallsInv /\ BackupsSound

LEMMA KeyInit == KMInit => KeyInv
BY FS_EmptySet DEF KMInit, KeyInv, KMTypeOK, CallsInv, BackupsSound, Resting

\* What the fields of a call are.
LEMMA CallFields ==
    ASSUME KMTypeOK, NEW w \in Worker
    PROVE  /\ worker[w].at \in {"missing", "provisioned"} => worker[w] \in Asking
           /\ worker[w].at = "keyed" => worker[w] \in Keyed
           /\ worker[w].at = "idle" => worker[w] = Resting
BY DEF KMTypeOK, Asking, Keyed, Resting

LEMMA CallKeepsInv == ASSUME KeyInv, NEW w \in Worker, Call(w) PROVE KeyInv'
<1>1. PICK ns \in Namespace, op \in {"encrypt", "decrypt"} :
          worker' = [worker EXCEPT ![w] =
              IF ns \in dek THEN [at |-> "keyed", op |-> op, ns |-> ns, key |-> Key(ns), raced |-> FALSE]
              ELSE [at |-> "missing", op |-> op, ns |-> ns, raced |-> FALSE]]
    BY Zenon DEF Call
<1>2. UNCHANGED <<master, random, dek, backups>>
    BY Zenon DEF Call
<1>3. KMTypeOK'
    BY <1>1, <1>2, Zenon DEF KeyInv, KMTypeOK, Asking, Keyed, Key, DataKey
<1>4. CallsInv'
    BY <1>1, <1>2, Zenon DEF KeyInv, KMTypeOK, CallsInv, Key
<1> QED BY <1>2, <1>3, <1>4, Zenon DEF KeyInv, BackupsSound

LEMMA ProvisionKeepsInv == ASSUME KeyInv, NEW w \in Worker, Provision(w) PROVE KeyInv'
<1>1. worker[w] \in Asking
    BY CallFields, Zenon DEF Provision, KeyInv
<1>2. /\ worker' = [worker EXCEPT ![w] = [worker[w] EXCEPT !.at = "provisioned"]]
      /\ [worker[w] EXCEPT !.at = "provisioned"] \in Asking
      /\ [worker[w] EXCEPT !.at = "provisioned"].at = "provisioned"
      /\ [worker[w] EXCEPT !.at = "provisioned"].ns = worker[w].ns
    BY <1>1, Zenon DEF Provision, Asking
<1>3. /\ dek' = dek \cup {worker[w].ns} /\ UNCHANGED <<master, random, backups>>
      /\ worker[w].ns \in Namespace
    BY <1>1, Zenon DEF Provision, Asking
<1>4. KMTypeOK'
    BY <1>2, <1>3, Zenon DEF KeyInv, KMTypeOK
<1>5. CallsInv'
    BY <1>2, <1>3 DEF KeyInv, KMTypeOK, CallsInv
<1> QED BY <1>3, <1>4, <1>5, Zenon DEF KeyInv, BackupsSound

LEMMA ReadAgainKeepsInv == ASSUME KeyInv, NEW w \in Worker, ReadAgain(w) PROVE KeyInv'
<1>1. worker[w] \in Asking /\ worker[w].at = "provisioned"
    BY CallFields, Zenon DEF ReadAgain, KeyInv
<1> DEFINE v == [at |-> "keyed", op |-> worker[w].op, ns |-> worker[w].ns,
                 key |-> Key(worker[w].ns), raced |-> worker[w].raced]
<1>2. worker' = [worker EXCEPT ![w] = v] /\ UNCHANGED <<master, random, dek, backups>>
    BY Zenon DEF ReadAgain
<1>3. v \in Keyed /\ v.at = "keyed" /\ (~v.raced => v.key = <<master, v.ns>>)
    <2>1. Key(worker[w].ns) \in DataKey
        BY <1>1, Zenon DEF Asking, Key, DataKey, KeyInv, KMTypeOK
    <2>2. v \in Keyed
        BY <1>1, <2>1, Zenon DEF Asking, Keyed
    <2>3. ~worker[w].raced => Key(worker[w].ns) = <<master, worker[w].ns>>
        BY <1>1, Zenon DEF Key, KeyInv, CallsInv
    <2> QED BY <2>2, <2>3, Zenon
<1> HIDE DEF v
<1>4. KMTypeOK'
    BY <1>2, <1>3, Zenon DEF KeyInv, KMTypeOK
<1>5. CallsInv'
    BY <1>2, <1>3, Zenon DEF KeyInv, KMTypeOK, CallsInv
<1> QED BY <1>2, <1>4, <1>5, Zenon DEF KeyInv, BackupsSound

\* A worker that rests again owes nothing.
LEMMA RestKeepsCalls ==
    ASSUME KeyInv, NEW w \in Worker, worker' = [worker EXCEPT ![w] = Resting],
           dek' = dek, master' = master
    PROVE  CallsInv' /\ worker' \in [Worker -> {Resting} \cup Asking \cup Keyed]
BY Zenon DEF KeyInv, KMTypeOK, CallsInv, Resting

LEMMA EncryptKeepsInv == ASSUME KeyInv, NEW w \in Worker, Encrypt(w) PROVE KeyInv'
<1>1. worker[w] \in Keyed /\ worker[w].at = "keyed"
    BY CallFields, Zenon DEF Encrypt, KeyInv
<1> DEFINE b == [n |-> Cardinality(backups), ns |-> worker[w].ns, key |-> worker[w].key, master |-> master,
                 raced |-> worker[w].raced, read |-> "never", under |-> 0]
<1>2. /\ backups' = backups \cup {b}
      /\ worker' = [worker EXCEPT ![w] = Resting] /\ UNCHANGED <<master, random, dek>>
    BY Zenon DEF Encrypt
<1>3. Cardinality(backups) \in Nat
    BY FS_CardinalityType, Zenon DEF KeyInv, KMTypeOK
<1>4. b \in Backup /\ Sound(b)
    <2>1. master \in Nat /\ 0 \in Nat
        BY DEF KeyInv, KMTypeOK
    <2>2. b \in Backup
        BY <1>1, <1>3, <2>1, Zenon DEF Keyed, Backup
    <2>3. ~worker[w].raced => worker[w].key = <<master, worker[w].ns>>
        BY <1>1, Zenon DEF KeyInv, CallsInv
    <2>4. b.read = "never" /\ b.key = worker[w].key /\ b.master = master /\ b.ns = worker[w].ns /\ b.raced = worker[w].raced
        BY Zenon
    <2> HIDE DEF b
    <2>5. Sound(b)
        BY <2>3, <2>4 DEF Sound
    <2> QED BY <2>2, <2>5, Zenon
<1> HIDE DEF b
<1>5. IsFiniteSet(backups')
    BY <1>2, FS_AddElement, Zenon DEF KeyInv, KMTypeOK
<1>6. KMTypeOK' /\ CallsInv'
    BY <1>2, <1>4, <1>5, RestKeepsCalls, Zenon DEF KeyInv, KMTypeOK
<1>7. BackupsSound'
    BY <1>2, <1>4, Zenon DEF KeyInv, BackupsSound
<1> QED BY <1>6, <1>7, Zenon DEF KeyInv

LEMMA DecryptKeepsInv == ASSUME KeyInv, NEW w \in Worker, Decrypt(w) PROVE KeyInv'
<1> DEFINE end(b) == IF worker[w].raced THEN "raced" ELSE IF b.key = worker[w].key THEN "ok" ELSE "failed"
<1>1. worker[w] \in Keyed /\ worker[w].at = "keyed"
    BY CallFields, Zenon DEF Decrypt, KeyInv
<1>2. PICK b \in backups :
          /\ b.ns = worker[w].ns
          /\ backups' = (backups \ {b}) \cup {[b EXCEPT !.under = master, !.read = end(b)]}
    BY Zenon DEF Decrypt
<1> DEFINE d == [b EXCEPT !.under = master, !.read = end(b)]
<1>3. b \in Backup /\ Sound(b) /\ master \in Nat
    BY Zenon DEF KeyInv, KMTypeOK, BackupsSound
<1>4. /\ d \in Backup /\ d.key = b.key /\ d.ns = b.ns /\ d.raced = b.raced /\ d.master = b.master
      /\ d.under = master /\ d.read = end(b)
    <2>1. end(b) \in {"never", "raced", "ok", "failed"}
        BY Zenon
    <2> HIDE DEF end
    <2> DEFINE e == [b EXCEPT !.under = master]
    <2>2. /\ e \in Backup /\ e.under = master
          /\ e.key = b.key /\ e.ns = b.ns /\ e.raced = b.raced /\ e.master = b.master
        BY <1>3, Zenon DEF Backup
    <2>3. d = [e EXCEPT !.read = end(b)]
        BY <1>3, Zenon DEF Backup
    <2> HIDE DEF d, e
    <2>4. /\ d \in Backup /\ d.key = e.key /\ d.ns = e.ns /\ d.raced = e.raced /\ d.master = e.master
          /\ d.under = e.under /\ d.read = end(b)
        BY <2>1, <2>2, <2>3, Zenon DEF Backup
    <2> QED BY <2>2, <2>4, Zenon
<1>5. Sound(d)
    <2>1. ~worker[w].raced => worker[w].key = <<master, b.ns>>
        BY <1>1, <1>2, Zenon DEF KeyInv, CallsInv
    <2>2. ~b.raced => b.key = <<b.master, b.ns>>
        BY <1>3, Zenon DEF Sound
    <2>3. ~worker[w].raced /\ ~b.raced => (end(b) = "ok" <=> master = b.master)
        BY <2>1, <2>2
    <2>4. worker[w].raced => end(b) \notin {"ok", "failed"}
        BY Zenon
    <2> HIDE DEF d, end
    <2> QED BY <1>4, <2>2, <2>3, <2>4, Zenon DEF Sound
<1>6. /\ backups' = (backups \ {b}) \cup {d}
      /\ worker' = [worker EXCEPT ![w] = Resting] /\ UNCHANGED <<master, random, dek>>
    BY <1>2, Zenon DEF Decrypt
<1> HIDE DEF d
<1>7. IsFiniteSet(backups')
    <2>1. IsFiniteSet(backups \ {b})
        BY FS_RemoveElement, Zenon DEF KeyInv, KMTypeOK
    <2> QED BY <1>6, <2>1, FS_AddElement, Zenon
<1>8. KMTypeOK' /\ CallsInv'
    BY <1>4, <1>6, <1>7, RestKeepsCalls, Zenon DEF KeyInv, KMTypeOK
<1>9. BackupsSound'
    BY <1>5, <1>6, Zenon DEF KeyInv, BackupsSound
<1> QED BY <1>8, <1>9, Zenon DEF KeyInv

LEMMA RevokeKeepsInv == ASSUME KeyInv, Revoke PROVE KeyInv'
<1>1. PICK ns \in dek :
          /\ dek' = dek \ {ns}
          /\ worker' = [w \in Worker |->
                 IF worker[w].at = "provisioned" /\ worker[w].ns = ns THEN [worker[w] EXCEPT !.raced = TRUE]
                 ELSE worker[w]]
    BY Zenon DEF Revoke
<1>2. UNCHANGED <<master, random, backups>>
    BY Zenon DEF Revoke
<1>3. ASSUME NEW w \in Worker
      PROVE  /\ worker'[w] \in {Resting} \cup Asking \cup Keyed
             /\ worker'[w].at = "provisioned" /\ ~worker'[w].raced => worker'[w].ns \in dek'
             /\ worker'[w].at = "keyed" /\ ~worker'[w].raced => worker'[w].key = <<master', worker'[w].ns>>
    <2>1. CASE worker[w].at = "provisioned" /\ worker[w].ns = ns
        <3>1. worker[w] \in Asking
            BY <2>1, CallFields, Zenon DEF KeyInv
        <3>2. worker'[w] = [worker[w] EXCEPT !.raced = TRUE]
            BY <1>1, <2>1, Zenon
        <3>3. worker'[w] \in Asking /\ worker'[w].raced
            BY <3>1, <3>2, Zenon DEF Asking
        <3> QED BY <3>3, Zenon
    <2>2. CASE ~(worker[w].at = "provisioned" /\ worker[w].ns = ns)
        <3>1. worker'[w] = worker[w]
            BY <1>1, <2>2, Zenon
        <3> QED BY <1>1, <1>2, <2>2, <3>1, Zenon DEF KeyInv, KMTypeOK, CallsInv
    <2> QED BY <2>1, <2>2, Zenon
<1>4. KMTypeOK'
    BY <1>1, <1>2, <1>3, Zenon DEF KeyInv, KMTypeOK
<1>5. CallsInv'
    BY <1>3, Zenon DEF CallsInv
<1> QED BY <1>2, <1>4, <1>5, Zenon DEF KeyInv, BackupsSound

LEMMA ManagerRestartKeepsInv == ASSUME KeyInv, RestartManager PROVE KeyInv'
<1>1. master' \in Nat /\ random' \in Nat
    BY DEF RestartManager, KeyInv, KMTypeOK
<1> QED BY <1>1, Zenon DEF KeyInv, KMTypeOK, CallsInv, BackupsSound, RestartManager, Resting

\* DecryptBackup reads a backup exactly when the running process has the master key
\* under which it was taken, across evictions and restarts with and without a configured
\* key, unless a revocation came between the steps of one of their getDEKs: for any
\* number of workers, namespaces and restarts.
THEOREM BackupsFollowTheMasterKey == KMSpec => []BackupsReadable
<1>1. KeyInv /\ [KMNext]_kmVars => KeyInv'
    <2>1. KeyInv /\ UNCHANGED kmVars => KeyInv'
        BY Zenon DEF KeyInv, KMTypeOK, CallsInv, BackupsSound, kmVars
    <2> QED BY <2>1, CallKeepsInv, ProvisionKeepsInv, ReadAgainKeepsInv, EncryptKeepsInv,
               DecryptKeepsInv, RevokeKeepsInv, ManagerRestartKeepsInv, Zenon DEF KMNext
<1>2. KeyInv => BackupsReadable
    BY Zenon DEF KeyInv, BackupsSound, Sound, BackupsReadable
<1> QED BY <1>1, <1>2, KeyInit, PTL DEF KMSpec

-----------------------------------------------------------------------------
(* The JWKS cache: a key that is accepted is one the cache held or had     *)
(* just fetched, so the invariant bounds how old each of these can be at   *)
(* every point of the shared fetch and of the background refresh.          *)

Age == 0 .. MaxAge
Outcome == {"ok", "failed"}

Flight ==
    {NoFlight} \cup [at : {"asked"}, leader : Goroutine]
    \cup [at : {"answered"}, leader : Goroutine, key : (0 .. MaxKey) \cup {Error}]
    \cup [at : {"done"}, leader : Goroutine, result : Outcome]

BgState == [at : {"idle", "failed"}] \cup [at : {"fetching"}, age : Age]

ValState == [at : {"idle"}, took : Age] \cup [at : {"fetching"}, key : 0 .. MaxKey]

JWKSTypeOK ==
    /\ idp \in 0 .. MaxKey /\ keySet \in 0 .. MaxKey /\ age \in Age
    /\ stale \in BOOLEAN /\ ticked \in BOOLEAN
    /\ lag \in [0 .. MaxKey -> Age]
    /\ flight \in Flight
    /\ call \in [Goroutine -> {"none", "inside"} \cup Outcome]
    /\ bg \in BgState
    /\ val \in [Validator -> ValState]

\* Only a goroutine in the middle of a refresh has a call, and the leader of the
\* flight is inside until it forgets it.
CallInv ==
    /\ \A p \in Validator : val[p].at = "idle" => call[p] = "none"
    /\ bg.at # "fetching" => call[Background] = "none"
    /\ flight # NoFlight => call[flight.leader] = "inside"

\* A key lags only once it is replaced; what a fetch brings was published after
\* the last tick, and the cached key lags at most as long as the cache is old.
LagInv ==
    /\ \A k \in 0 .. MaxKey : idp <= k => lag[k] = 0
    /\ flight.at = "answered" => flight.key = Error \/ lag[flight.key] = 0
    /\ lag[keySet] <= age

\* A fetch that succeeded, for whoever waited for it, leaves the cache new.
FreshInv ==
    /\ flight.at = "done" => flight.result = "failed" \/ age = 0
    /\ \A p \in Goroutine : call[p] = "ok" => age = 0

\* The background refresh of a tick either renews a cache past its age or marks it.
StaleInv ==
    /\ bg.at = "fetching" => ticked /\ age <= bg.age
    /\ bg.at = "failed" => ticked
    /\ ticked /\ bg.at = "idle" /\ ~stale => age <= OldestUnmarked
    /\ ~stale => age <= OldestUnmarked + 1

JWKSInv == JWKSTypeOK /\ CallInv /\ LagInv /\ FreshInv /\ StaleInv /\ TrustIsBounded

LEMMA AgeType == /\ MaxAge \in Nat /\ StaleAge \in Nat /\ RefreshAge \in Int /\ MaxKey \in Nat
                 /\ OldestUnmarked \in Nat /\ MaxAge = OldestUnmarked + 2
                 /\ StaleAge <= OldestUnmarked /\ RefreshAge - 1 <= OldestUnmarked
BY JWKSAssumption DEF MaxAge, OldestUnmarked

\* What the fields of the records hold, by the state the record is in.
LEMMA FlightFields ==
    ASSUME JWKSTypeOK
    PROVE  /\ flight.at \in {"none", "asked", "answered", "done"}
           /\ flight.at = "none" <=> flight = NoFlight
           /\ flight.at # "none" => flight.leader \in Goroutine
           /\ flight.at = "answered" => flight.key \in (0 .. MaxKey) \cup {Error}
           /\ flight.at = "done" => flight.result \in Outcome
BY DEF JWKSTypeOK, Flight, NoFlight

LEMMA WorkerFields ==
    ASSUME JWKSTypeOK
    PROVE  /\ bg.at \in {"idle", "fetching", "failed"}
           /\ bg.at = "fetching" => bg.age \in Age
           /\ \A p \in Validator : /\ val[p].at \in {"idle", "fetching"}
                                   /\ val[p].at = "idle" => val[p].took \in Age
                                   /\ val[p].at = "fetching" => val[p].key \in 0 .. MaxKey
<1>1. bg \in BgState /\ \A p \in Validator : val[p] \in ValState
    BY Zenon DEF JWKSTypeOK
<1>2. /\ bg.at \in {"idle", "fetching", "failed"}
      /\ bg.at = "fetching" => bg.age \in Age
    BY <1>1, Zenon DEF BgState
<1>3. ASSUME NEW p \in Validator
      PROVE  /\ val[p].at \in {"idle", "fetching"}
             /\ val[p].at = "idle" => val[p].took \in Age
             /\ val[p].at = "fetching" => val[p].key \in 0 .. MaxKey
    BY <1>1, Zenon DEF ValState
<1> QED BY <1>2, <1>3, Zenon

LEMMA JWKSInitInv == JWKSInit => JWKSInv
<1> SUFFICES ASSUME JWKSInit PROVE JWKSInv
    BY Zenon
<1>1. 0 \in Age /\ 0 \in 0 .. MaxKey
    BY AgeType DEF Age
<1>2. JWKSTypeOK
    BY <1>1, Zenon DEF JWKSInit, JWKSTypeOK, Flight, BgState, ValState, NoFlight
<1>3. CallInv /\ FreshInv
    BY Zenon DEF JWKSInit, CallInv, FreshInv, NoFlight, Goroutine
<1>4. LagInv /\ StaleInv /\ TrustIsBounded
    BY <1>1, AgeType DEF JWKSInit, LagInv, StaleInv, TrustIsBounded, NoFlight
<1> QED BY <1>2, <1>3, <1>4, Zenon DEF JWKSInv

LEMMA PublishKeepsInv == ASSUME JWKSInv, Publish PROVE JWKSInv'
<1>1. JWKSTypeOK'
    BY AgeType DEF JWKSInv, Publish, JWKSTypeOK
<1>2. LagInv'
    BY AgeType DEF JWKSInv, Publish, JWKSTypeOK, LagInv
<1>3. CallInv' /\ FreshInv' /\ StaleInv' /\ TrustIsBounded'
    BY Zenon DEF JWKSInv, Publish, CallInv, FreshInv, StaleInv, TrustIsBounded
<1> QED BY <1>1, <1>2, <1>3, Zenon DEF JWKSInv

LEMMA OutageKeepsInv == ASSUME JWKSInv, Outage PROVE JWKSInv'
BY Zenon DEF JWKSInv, Outage, JWKSTypeOK, CallInv, LagInv, FreshInv, StaleInv, TrustIsBounded

\* Time passes only when nobody is inside a fetch and the refresh of the last
\* tick is over.
LEMMA TickKeepsInv == ASSUME JWKSInv, Tick PROVE JWKSInv'
<1>1. /\ flight = NoFlight /\ bg.at = "idle" /\ ticked /\ ~ticked'
      /\ \A p \in Validator : val[p].at = "idle"
      /\ UNCHANGED <<idp, keySet, stale, flight, call, bg, val>>
    BY AgeType, Zenon DEF Tick
<1>2. \A p \in Goroutine : call[p] = "none"
    BY <1>1, Zenon DEF JWKSInv, CallInv, Goroutine
<1>3. age \in Nat /\ age <= MaxAge /\ lag[keySet] \in Nat /\ lag[keySet] <= MaxAge
    BY AgeType DEF JWKSInv, JWKSTypeOK, Age
<1>4. age' \in Age /\ age <= age' /\ age' <= age + 1 /\ (age' = age + 1 \/ age' = MaxAge)
    BY <1>3, AgeType DEF Tick, Age
<1>5. lag' \in [0 .. MaxKey -> Age]
    BY AgeType DEF Tick, JWKSInv, JWKSTypeOK, Age
<1>6. \A k \in 0 .. MaxKey : idp <= k => lag'[k] = 0
    BY DEF Tick, JWKSInv, JWKSTypeOK, LagInv
<1>7. lag'[keySet] <= age'
    <2>1. lag'[keySet] = lag[keySet] \/ lag'[keySet] = lag[keySet] + 1
        BY Zenon DEF Tick, JWKSInv, JWKSTypeOK
    <2>2. lag'[keySet] \in Nat /\ lag'[keySet] <= MaxAge
        BY <1>5, AgeType DEF JWKSInv, JWKSTypeOK, Age
    <2>3. lag[keySet] <= age
        BY Zenon DEF JWKSInv, LagInv
    <2> QED BY <1>3, <1>4, <2>1, <2>2, <2>3, AgeType DEF Age
<1>8. JWKSTypeOK'
    BY <1>1, <1>4, <1>5, Zenon DEF Tick, JWKSInv, JWKSTypeOK
<1>9. CallInv' /\ TrustIsBounded'
    BY <1>1, Zenon DEF JWKSInv, CallInv, TrustIsBounded
<1>10. LagInv'
    BY <1>1, <1>6, <1>7, Zenon DEF LagInv, NoFlight
<1>11. FreshInv'
    BY <1>1, <1>2, Zenon DEF FreshInv, NoFlight
<1>12. StaleInv'
    <2>1. ~stale => age <= OldestUnmarked
        BY <1>1, Zenon DEF JWKSInv, StaleInv
    <2> QED BY <1>1, <1>3, <1>4, <2>1, AgeType DEF StaleInv, Age
<1> QED BY <1>8, <1>9, <1>10, <1>11, <1>12, Zenon DEF JWKSInv

LEMMA RespondKeepsInv == ASSUME JWKSInv, Respond PROVE JWKSInv'
<1>1. flight.at = "asked" /\ flight.leader \in Goroutine /\ flight # NoFlight
    BY FlightFields, Zenon DEF JWKSInv, Respond
<1>2. PICK k : k = IF reachable THEN idp ELSE Error
    BY Zenon
<1>3. /\ flight' = [at |-> "answered", leader |-> flight.leader, key |-> k]
      /\ k \in (0 .. MaxKey) \cup {Error}
      /\ k = idp \/ k = Error
    BY <1>2, Zenon DEF Respond, JWKSInv, JWKSTypeOK
<1>4. flight' \in Flight
    BY <1>1, <1>3, Zenon DEF Flight
<1>5. JWKSTypeOK'
    BY <1>4, Zenon DEF Respond, JWKSInv, JWKSTypeOK
<1>6. CallInv'
    <2>1. flight'.leader = flight.leader
        BY <1>3, Zenon
    <2> QED BY <1>1, <2>1, Zenon DEF Respond, JWKSInv, CallInv
<1>7. LagInv'
    BY <1>3 DEF Respond, JWKSInv, JWKSTypeOK, LagInv
<1>8. FreshInv' /\ StaleInv' /\ TrustIsBounded'
    BY <1>3 DEF Respond, JWKSInv, FreshInv, StaleInv, TrustIsBounded
<1> QED BY <1>5, <1>6, <1>7, <1>8, Zenon DEF JWKSInv

\* Those who wait get the leader's result; the leader is still inside.
LEMMA ReleaseFields ==
    ASSUME JWKSInv, NEW r \in Outcome, flight.at = "answered", Release(r)
    PROVE  /\ flight' \in Flight /\ flight'.at = "done" /\ flight'.result = r
           /\ flight'.leader = flight.leader /\ flight.leader \in Goroutine
           /\ call' \in [Goroutine -> {"none", "inside"} \cup Outcome]
           /\ call'[flight.leader] = "inside"
           /\ \A p \in Goroutine : call'[p] = call[p] \/ (call[p] = "inside" /\ call'[p] = r)
<1>1. flight.leader \in Goroutine /\ flight # NoFlight
    BY FlightFields, Zenon DEF JWKSInv, NoFlight
<1>2. flight' = [at |-> "done", leader |-> flight.leader, result |-> r]
    BY Zenon DEF Release
<1>3. flight' \in Flight
    BY <1>1, <1>2, Zenon DEF Flight
<1>4. \A p \in Goroutine : call'[p] = call[p] \/ (call[p] = "inside" /\ call'[p] = r)
    BY Zenon DEF Release
<1>5. call' \in [Goroutine -> {"none", "inside"} \cup Outcome]
    BY Zenon DEF Release, JWKSInv, JWKSTypeOK
<1>6. call'[flight.leader] = "inside"
    BY <1>1, Zenon DEF Release, JWKSInv, CallInv
<1> QED BY <1>1, <1>2, <1>3, <1>4, <1>5, <1>6, Zenon

LEMMA StoreKeepsInv == ASSUME JWKSInv, Store PROVE JWKSInv'
<1>1. PICK r \in Outcome :
          /\ Release(r)
          /\ \/ r = "failed" /\ UNCHANGED <<keySet, age, stale>>
             \/ /\ r = "ok" /\ flight.key # Error
                /\ keySet' = flight.key /\ age' = 0 /\ stale' = FALSE
    BY Zenon DEF Store, Outcome
<1>2. flight.at = "answered" /\ UNCHANGED <<idp, reachable, lag, bg, ticked, val>>
    BY Zenon DEF Store
<1>3. /\ flight' \in Flight /\ flight'.at = "done" /\ flight'.result = r
      /\ flight'.leader = flight.leader /\ flight.leader \in Goroutine
      /\ call' \in [Goroutine -> {"none", "inside"} \cup Outcome]
      /\ call'[flight.leader] = "inside"
      /\ \A p \in Goroutine : call'[p] = call[p] \/ (call[p] = "inside" /\ call'[p] = r)
    BY <1>1, <1>2, ReleaseFields, Zenon
<1>4. flight.key \in (0 .. MaxKey) \cup {Error} /\ 0 \in Age
    BY <1>2, FlightFields, AgeType DEF JWKSInv, Age
<1>5. keySet' \in 0 .. MaxKey /\ age' \in Age /\ stale' \in BOOLEAN
    BY <1>1, <1>4, Zenon DEF JWKSInv, JWKSTypeOK
<1>6. JWKSTypeOK'
    BY <1>2, <1>3, <1>5, Zenon DEF JWKSInv, JWKSTypeOK
<1>7. CallInv'
    BY <1>2, <1>3, Zenon DEF JWKSInv, CallInv, Goroutine
<1>8. LagInv'
    <2>1. lag'[keySet'] <= age'
        BY <1>1, <1>2 DEF JWKSInv, LagInv
    <2> QED BY <1>2, <1>3, <2>1, Zenon DEF JWKSInv, LagInv
<1>9. FreshInv'
    BY <1>1, <1>3, Zenon DEF JWKSInv, FreshInv
<1>10. StaleInv'
    <2>1. age' = age \/ age' = 0
        BY <1>1, Zenon
    <2>2. bg.at = "fetching" => bg.age \in Age /\ 0 <= bg.age
        BY WorkerFields, AgeType DEF JWKSInv, Age
    <2> QED BY <1>1, <1>2, <2>1, <2>2, AgeType DEF JWKSInv, StaleInv
<1>11. TrustIsBounded'
    BY <1>2, Zenon DEF JWKSInv, TrustIsBounded
<1> QED BY <1>6, <1>7, <1>8, <1>9, <1>10, <1>11, Zenon DEF JWKSInv

LEMMA ForgetKeepsInv == ASSUME JWKSInv, Forget PROVE JWKSInv'
<1>1. flight.at = "done" /\ flight # NoFlight /\ flight.leader \in Goroutine /\ flight.result \in Outcome
    BY FlightFields, Zenon DEF Forget, JWKSInv, NoFlight
<1>2. PICK l, r : l = flight.leader /\ r = flight.result
    BY Zenon
<1>3. /\ l \in Goroutine /\ r \in Outcome /\ call[l] = "inside"
      /\ call' = [call EXCEPT ![l] = r] /\ flight' = NoFlight
      /\ UNCHANGED <<idp, lag, keySet, age, stale, bg, ticked, val>>
    BY <1>1, <1>2, Zenon DEF Forget, JWKSInv, CallInv
<1>4. r = "ok" => age = 0
    BY <1>1, <1>2, Zenon DEF JWKSInv, FreshInv
<1>5. JWKSTypeOK'
    BY <1>3, Zenon DEF JWKSInv, JWKSTypeOK, Flight
<1>6. CallInv'
    BY <1>3, Zenon DEF JWKSInv, JWKSTypeOK, CallInv, Goroutine
<1>7. FreshInv'
    BY <1>3, <1>4, Zenon DEF JWKSInv, JWKSTypeOK, FreshInv, NoFlight
<1>8. LagInv' /\ StaleInv' /\ TrustIsBounded'
    BY <1>3, Zenon DEF JWKSInv, LagInv, StaleInv, TrustIsBounded, NoFlight
<1> QED BY <1>5, <1>6, <1>7, <1>8, Zenon DEF JWKSInv

\* A goroutine joins the flight, starts it, or takes the result of one that is
\* over but not forgotten.
LEMMA FetchFields ==
    ASSUME JWKSInv, NEW p \in Goroutine, call[p] = "none", FetchKeys(p)
    PROVE  /\ flight' \in Flight /\ flight' # NoFlight
           /\ flight'.leader \in Goroutine /\ call'[flight'.leader] = "inside"
           /\ flight' = flight \/ flight'.at = "asked"
           /\ call' \in [Goroutine -> {"none", "inside"} \cup Outcome]
           /\ \A q \in Goroutine \ {p} : call'[q] = call[q]
           /\ call'[p] # "none"
           /\ call'[p] = "ok" => age = 0
<1>1. CASE flight = NoFlight
    <2>1. flight' = [at |-> "asked", leader |-> p] /\ call' = [call EXCEPT ![p] = "inside"]
        BY <1>1, Zenon DEF FetchKeys, NoFlight
    <2>2. flight' \in Flight /\ flight' # NoFlight
        BY <2>1, Zenon DEF Flight, NoFlight
    <2> QED BY <2>1, <2>2, Zenon DEF JWKSInv, JWKSTypeOK
<1>2. CASE flight # NoFlight
    <2>1. PICK r \in {"inside"} \cup Outcome :
              /\ flight' = flight /\ call' = [call EXCEPT ![p] = r]
              /\ r = "ok" => flight.at = "done" /\ flight.result = "ok"
        BY <1>2, FlightFields, Zenon DEF FetchKeys, JWKSInv, Outcome
    <2>2. flight.leader \in Goroutine /\ call[flight.leader] = "inside" /\ flight \in Flight
        BY <1>2, FlightFields, Zenon DEF JWKSInv, CallInv, JWKSTypeOK
    <2>3. call' \in [Goroutine -> {"none", "inside"} \cup Outcome]
        BY <2>1, Zenon DEF JWKSInv, JWKSTypeOK
    <2>4. r = "ok" => age = 0
        BY <2>1, Zenon DEF JWKSInv, FreshInv
    <2>5. flight.leader # p
        BY <2>2, Zenon
    <2>6. r # "none"
        BY <2>1, Zenon DEF Outcome
    <2> QED BY <1>2, <2>1, <2>2, <2>3, <2>4, <2>5, <2>6, Zenon DEF JWKSInv, JWKSTypeOK
<1> QED BY <1>1, <1>2, Zenon

LEMMA RefreshKeepsInv == ASSUME JWKSInv, Refresh PROVE JWKSInv'
<1>1. /\ bg.at = "idle" /\ ticked' = TRUE /\ call[Background] = "none"
      /\ UNCHANGED <<idp, lag, keySet, age, stale, val>>
      /\ Background \in Goroutine /\ Background \notin Validator
    BY JWKSAssumption, Zenon DEF Refresh, JWKSInv, CallInv, Goroutine
<1>2. age \in Nat /\ age \in Age
    BY AgeType DEF JWKSInv, JWKSTypeOK, Age
<1>3. CASE age >= RefreshAge
    <2>1. bg' = [at |-> "fetching", age |-> age] /\ FetchKeys(Background)
        BY <1>3, Zenon DEF Refresh
    <2>2. /\ flight' \in Flight /\ flight' # NoFlight
          /\ flight'.leader \in Goroutine /\ call'[flight'.leader] = "inside"
          /\ flight' = flight \/ flight'.at = "asked"
          /\ call' \in [Goroutine -> {"none", "inside"} \cup Outcome]
          /\ \A q \in Goroutine \ {Background} : call'[q] = call[q]
          /\ call'[Background] # "none"
          /\ call'[Background] = "ok" => age = 0
        BY <1>1, <2>1, FetchFields, Zenon
    <2>3. JWKSTypeOK'
        BY <1>1, <1>2, <2>1, <2>2, Zenon DEF JWKSInv, JWKSTypeOK, BgState
    <2>4. CallInv'
        BY <1>1, <2>1, <2>2, Zenon DEF JWKSInv, CallInv, Goroutine
    <2>5. LagInv' /\ TrustIsBounded'
        BY <1>1, <2>2, Zenon DEF JWKSInv, LagInv, TrustIsBounded
    <2>6. FreshInv'
        BY <1>1, <2>2, Zenon DEF JWKSInv, FreshInv
    <2>7. StaleInv'
        BY <1>1, <1>2, <2>1 DEF JWKSInv, StaleInv
    <2> QED BY <2>3, <2>4, <2>5, <2>6, <2>7, Zenon DEF JWKSInv
<1>4. CASE ~(age >= RefreshAge)
    <2>1. UNCHANGED <<bg, flight, call>> /\ age <= OldestUnmarked
        BY <1>2, <1>4, AgeType DEF Refresh
    <2> QED BY <1>1, <2>1, Zenon DEF JWKSInv, JWKSTypeOK, CallInv, LagInv, FreshInv, StaleInv, TrustIsBounded
<1> QED BY <1>3, <1>4, Zenon

LEMMA RefreshedKeepsInv == ASSUME JWKSInv, Refreshed PROVE JWKSInv'
<1>1. /\ bg.at = "fetching" /\ bg.age \in Age /\ ticked /\ age <= bg.age
      /\ call[Background] \in Outcome
      /\ UNCHANGED <<idp, lag, keySet, age, stale, flight, ticked, val>>
      /\ call' = [call EXCEPT ![Background] = "none"]
      /\ Background \in Goroutine /\ Background \notin Validator
    BY WorkerFields, JWKSAssumption, Zenon DEF Refreshed, Returned, Outcome, JWKSInv, StaleInv, Goroutine
<1>2. PICK s \in {"idle", "failed"} :
          /\ bg' = [at |-> s]
          /\ s = "idle" => call[Background] = "ok" \/ ~(bg.age > StaleAge)
    BY <1>1, Zenon DEF Refreshed, Outcome
<1>3. JWKSTypeOK'
    BY <1>1, <1>2, Zenon DEF JWKSInv, JWKSTypeOK, BgState
<1>4. flight # NoFlight => flight.leader # Background
    BY <1>1, Zenon DEF JWKSInv, CallInv, Outcome
<1>5. CallInv'
    BY <1>1, <1>2, <1>4, FlightFields, Zenon DEF JWKSInv, JWKSTypeOK, CallInv, Goroutine
<1>6. FreshInv'
    BY <1>1, Zenon DEF JWKSInv, JWKSTypeOK, FreshInv
<1>7. LagInv' /\ TrustIsBounded'
    BY <1>1, Zenon DEF JWKSInv, LagInv, TrustIsBounded
<1>8. StaleInv'
    <2>1. age \in Nat /\ bg.age \in Nat
        BY <1>1, AgeType DEF JWKSInv, JWKSTypeOK, Age
    <2>2. call[Background] = "ok" => age = 0
        BY <1>1, Zenon DEF JWKSInv, FreshInv
    <2>3. s = "idle" => age <= OldestUnmarked
        BY <1>1, <1>2, <2>1, <2>2, AgeType
    <2> QED BY <1>1, <1>2, <2>3, Zenon DEF JWKSInv, StaleInv
<1> QED BY <1>3, <1>5, <1>6, <1>7, <1>8, Zenon DEF JWKSInv

LEMMA MarkStaleKeepsInv == ASSUME JWKSInv, MarkStale PROVE JWKSInv'
<1>1. JWKSTypeOK'
    BY Zenon DEF JWKSInv, MarkStale, JWKSTypeOK, BgState
<1> QED BY <1>1, Zenon DEF JWKSInv, MarkStale, CallInv, LagInv, FreshInv, StaleInv, TrustIsBounded

LEMMA ValidateKeepsInv == ASSUME JWKSInv, NEW p \in Validator, Validate(p) PROVE JWKSInv'
<1>1. /\ val[p].at = "idle" /\ call[p] = "none" /\ p \in Goroutine /\ p # Background
      /\ UNCHANGED <<idp, lag, keySet, age, stale, bg, ticked>>
    BY JWKSAssumption, Zenon DEF Validate, JWKSInv, CallInv, Goroutine
<1>2. ASSUME NEW n \in Age, n <= OldestUnmarked + 1, UNCHANGED <<flight, call>>,
             val' = [val EXCEPT ![p] = [at |-> "idle", took |-> n]]
      PROVE  JWKSInv'
    <2>1. JWKSTypeOK'
        BY <1>1, <1>2, Zenon DEF JWKSInv, JWKSTypeOK, ValState
    <2>2. CallInv' /\ TrustIsBounded'
        BY <1>1, <1>2, Zenon DEF JWKSInv, JWKSTypeOK, CallInv, TrustIsBounded
    <2>3. LagInv' /\ FreshInv' /\ StaleInv'
        BY <1>1, <1>2, Zenon DEF JWKSInv, LagInv, FreshInv, StaleInv
    <2> QED BY <2>1, <2>2, <2>3, Zenon DEF JWKSInv
<1>3. CASE stale /\ val' = Rejects(p) /\ UNCHANGED <<flight, call>>
    <2>1. 0 \in Age /\ 0 <= OldestUnmarked + 1
        BY AgeType DEF Age
    <2> QED BY <1>2, <1>3, <2>1, Zenon DEF Rejects
<1>4. ASSUME ~stale, val' = Accepts(p, keySet), UNCHANGED <<flight, call>> PROVE JWKSInv'
    <2>1. lag[keySet] \in Age /\ age \in Age
        BY Zenon DEF JWKSInv, JWKSTypeOK
    <2>2. lag[keySet] <= age /\ age <= OldestUnmarked + 1
        BY <1>4, Zenon DEF JWKSInv, LagInv, StaleInv
    <2>3. lag[keySet] <= OldestUnmarked + 1
        BY <2>1, <2>2, AgeType DEF Age
    <2> QED BY <1>2, <1>4, <2>1, <2>3, Zenon DEF Accepts
<1>5. ASSUME NEW k \in 0 .. idp, val' = [val EXCEPT ![p] = [at |-> "fetching", key |-> k]],
             FetchKeys(p)
      PROVE  JWKSInv'
    <2>1. /\ flight' \in Flight /\ flight' # NoFlight
          /\ flight'.leader \in Goroutine /\ call'[flight'.leader] = "inside"
          /\ flight' = flight \/ flight'.at = "asked"
          /\ call' \in [Goroutine -> {"none", "inside"} \cup Outcome]
          /\ \A q \in Goroutine \ {p} : call'[q] = call[q]
          /\ call'[p] # "none"
          /\ call'[p] = "ok" => age = 0
        BY <1>1, <1>5, FetchFields, Zenon
    <2>2. k \in 0 .. MaxKey
        BY <1>5, AgeType DEF JWKSInv, JWKSTypeOK
    <2>3. JWKSTypeOK'
        BY <1>1, <1>5, <2>1, <2>2, Zenon DEF JWKSInv, JWKSTypeOK, ValState
    <2>4. CallInv' /\ TrustIsBounded'
        <3>1. val'[p].at = "fetching" /\ \A q \in Validator \ {p} : val'[q] = val[q]
            BY <1>5, Zenon DEF JWKSInv, JWKSTypeOK
        <3> QED BY <1>1, <2>1, <3>1, Zenon DEF JWKSInv, CallInv, TrustIsBounded, Goroutine
    <2>5. LagInv' /\ FreshInv'
        BY <1>1, <2>1, Zenon DEF JWKSInv, LagInv, FreshInv
    <2>6. StaleInv'
        BY <1>1, Zenon DEF JWKSInv, StaleInv
    <2> QED BY <2>3, <2>4, <2>5, <2>6, Zenon DEF JWKSInv
<1> QED BY <1>3, <1>4, <1>5, Zenon DEF Validate, Examine

LEMMA RetryKeepsInv == ASSUME JWKSInv, NEW p \in Validator, Retry(p) PROVE JWKSInv'
<1>1. /\ val[p].at = "fetching" /\ p \in Goroutine /\ p # Background
      /\ call[p] \in Outcome
      /\ UNCHANGED <<idp, lag, keySet, age, stale, flight, bg, ticked>>
      /\ call' = [call EXCEPT ![p] = "none"]
    BY JWKSAssumption, Zenon DEF Retry, Returned, Outcome, Goroutine
<1>2. PICK n \in Age : n <= OldestUnmarked + 1 /\ val' = [val EXCEPT ![p] = [at |-> "idle", took |-> n]]
    <2>1. 0 \in Age /\ 0 <= OldestUnmarked + 1
        BY AgeType DEF Age
    <2>2. CASE val' = Rejects(p)
        BY <2>1, <2>2, Zenon DEF Rejects
    <2>3. CASE call[p] = "ok" /\ val' = Accepts(p, keySet)
        <3>1. age = 0 /\ lag[keySet] <= age /\ lag[keySet] \in Age
            BY <1>1, <2>3, Zenon DEF JWKSInv, JWKSTypeOK, LagInv, FreshInv
        <3>2. lag[keySet] <= OldestUnmarked + 1
            BY <3>1, AgeType DEF Age
        <3> QED BY <2>3, <3>1, <3>2, Zenon DEF Accepts
    <2>4. val' = Rejects(p) \/ (call[p] = "ok" /\ val' = Accepts(p, keySet))
        BY Zenon DEF Retry
    <2> QED BY <2>2, <2>3, <2>4, Zenon
<1>3. flight # NoFlight => flight.leader # p
    BY <1>1, Zenon DEF JWKSInv, CallInv, Outcome
<1>4. JWKSTypeOK'
    BY <1>1, <1>2, Zenon DEF JWKSInv, JWKSTypeOK, ValState
<1>5. CallInv'
    BY <1>1, <1>2, <1>3, FlightFields, Zenon DEF JWKSInv, JWKSTypeOK, CallInv, Goroutine
<1>6. FreshInv'
    BY <1>1, Zenon DEF JWKSInv, JWKSTypeOK, FreshInv
<1>7. TrustIsBounded'
    BY <1>2, Zenon DEF JWKSInv, JWKSTypeOK, TrustIsBounded
<1>8. LagInv' /\ StaleInv'
    BY <1>1, Zenon DEF JWKSInv, LagInv, StaleInv
<1> QED BY <1>4, <1>5, <1>6, <1>7, <1>8, Zenon DEF JWKSInv

\* However many keys the provider goes through and however long it is out of
\* reach: the key ValidateToken takes was published half an hour and a tick ago
\* at the earliest, or as long ago as a cache with a long ttl is left alone, for
\* every ttl.  Validators, the background refresh and their shared fetch interleave
\* freely within a tick.
THEOREM TrustStaysBounded == JWKSInit /\ [][JWKSNext]_jwksVars => []TrustIsBounded
<1>1. JWKSInv /\ [JWKSNext]_jwksVars => JWKSInv'
    <2> SUFFICES ASSUME JWKSInv, [JWKSNext]_jwksVars PROVE JWKSInv'
        BY Zenon
    <2>1. CASE UNCHANGED jwksVars
        BY <2>1, Zenon DEF jwksVars, JWKSInv, JWKSTypeOK, CallInv, LagInv, FreshInv, StaleInv, TrustIsBounded
    <2> QED BY <2>1, PublishKeepsInv, OutageKeepsInv, TickKeepsInv, RespondKeepsInv, StoreKeepsInv,
               ForgetKeepsInv, RefreshKeepsInv, RefreshedKeepsInv, MarkStaleKeepsInv,
               ValidateKeepsInv, RetryKeepsInv, Zenon DEF JWKSNext
<1>2. JWKSInv => TrustIsBounded
    BY Zenon DEF JWKSInv
<1> QED BY <1>1, <1>2, JWKSInitInv, PTL

-----------------------------------------------------------------------------
(* Connections: promises and panics have an inductive invariant each,      *)
(* since a handler changes the state of one of them only.                  *)

Told == {"unsent", "sent", "pending", "durable", "gone"}
Block == {"none", "open", "failed"}

TxTypeOK ==
    /\ DOMAIN phase = Conn
    /\ tx \in [Conn -> Block] /\ view \in [Conn -> Block]
    /\ buf \in [Conn -> SUBSET Write]
    /\ db \in SUBSET Write /\ excused \in SUBSET Write
    /\ used \in [Conn -> 0 .. MaxWrites]
    /\ told \in [Write -> Told]
    /\ copying \in [Conn -> Nat]

\* What holds of a write: a block buffers all the writes it accepted, besides
\* them only what it refused when it failed; the writes of a client that was
\* misled are excused before the block ends; writes are numbered as they come.
WriteInv(w) ==
    /\ w \in excused => told[w] # "unsent"
    /\ told[w] = "sent" => w \in db
    /\ told[w] = "pending" /\ w[1] \in astray => w \in excused
    /\ w \notin excused =>
        /\ told[w] = "durable" => w \in db
        /\ told[w] \in {"unsent", "pending", "gone"} => w \notin db
        /\ told[w] = "pending" => w \in buf[w[1]] /\ tx[w[1]] # "none"
        /\ w \in buf[w[1]] => told[w] = "pending" \/ (told[w] = "gone" /\ tx[w[1]] = "failed")
    /\ w[2] > used[w[1]] => told[w] = "unsent"

OwnInv == \A c \in Conn : \A w \in buf[c] : w[1] = c

\* A client that was not misled knows its block.
AgreeInv == \A c \in Conn : c \notin astray => view[c] = tx[c]

\* COPY has numbers for all its rows.
LoadInv ==
    \A c \in Conn : phase[c] = "loading" => copying[c] > 0 /\ used[c] + copying[c] <= MaxWrites

TxInv == TxTypeOK /\ (\A w \in Write : WriteInv(w)) /\ OwnInv /\ AgreeInv /\ LoadInv

\* What a cursor may count is finite.
FiniteInv ==
    /\ IsFiniteSet(db)
    /\ DOMAIN buf = Conn /\ buf = [c \in Conn |-> buf[c]]
    /\ \A c \in Conn : IsFiniteSet(buf[c])

CursorInv ==
    /\ DOMAIN cursor = Conn
    /\ \A c \in Conn :
        cursor[c] # Nil => /\ cursor[c] \in [rows : Nat \cup {Nil}, pos : Nat]
                           /\ cursor[c].rows # Nil => cursor[c].pos <= cursor[c].rows
                           /\ cursor[c].rows = Nil => cursor[c].pos = 0

Subscription ==
    [conn : Conn, chan : Chan, buf : Seq(Nat), registered : BOOLEAN,
     state : {"open", "removed", "closed"}, running : BOOLEAN]

\* Only an open channel is in the registry.
SubsInv ==
    /\ notified \in Nat
    /\ subs \in Seq(Subscription)
    /\ \A i \in DOMAIN subs : subs[i].registered => subs[i].state = "open"

PanicInv == FiniteInv /\ CursorInv /\ SubsInv /\ NoPanic

-----------------------------------------------------------------------------
(* Promises.                                                               *)

LEMMA WriteFields ==
    /\ \A w \in Write : w[1] \in Conn /\ w[2] \in 1 .. MaxWrites
    /\ \A c \in Conn, n \in 1 .. MaxWrites : <<c, n>> \in Write
BY Zenon DEF Write

LEMMA TxInitInv == ConnInit => TxInv
<1> SUFFICES ASSUME ConnInit PROVE TxInv
    BY Zenon
<1>1. TxTypeOK
    BY ConnectionAssumption DEF ConnInit, TxTypeOK, Told, Block
<1>2. ASSUME NEW w \in Write PROVE WriteInv(w)
    <2>1. told[w] = "unsent" /\ buf[w[1]] = {} /\ db = {} /\ excused = {}
        BY WriteFields, Zenon DEF ConnInit
    <2> QED BY <2>1, Zenon DEF WriteInv
<1>3. OwnInv /\ AgreeInv /\ LoadInv
    BY Zenon DEF ConnInit, OwnInv, AgreeInv, LoadInv
<1> QED BY <1>1, <1>2, <1>3, Zenon DEF TxInv

\* What an answer about the writes ws does.
LEMMA AnsweredIs ==
    ASSUME TxInv, NEW ws, NEW f \in Told, Answered(ws, f)
    PROVE  /\ told' \in [Write -> Told]
           /\ \A w \in Write : w \in ws => told'[w] = f
           /\ \A w \in Write : w \notin ws => told'[w] = told[w]
BY Zenon DEF Answered, TxInv, TxTypeOK

\* A step of one connection concerns its own writes.
LEMMA OneConnection ==
    ASSUME TxInv, NEW c \in Conn, TxTypeOK', LoadInv',
           \A w \in Write : w[1] # c => /\ told'[w] = told[w]
                                        /\ w \in excused' <=> w \in excused
                                        /\ w \in db' <=> w \in db,
           \A d \in Conn \ {c} : /\ tx'[d] = tx[d] /\ view'[d] = view[d]
                                 /\ buf'[d] = buf[d] /\ used'[d] = used[d]
                                 /\ d \in astray' <=> d \in astray,
           \A w \in Write : w[1] = c => WriteInv(w)',
           c \notin astray' => view'[c] = tx'[c],
           \A w \in buf'[c] : w[1] = c
    PROVE  TxInv'
<1>1. ASSUME NEW w \in Write, w[1] # c PROVE WriteInv(w)'
    <2>1. PICK d : d = w[1]
        BY Zenon
    <2>2. /\ d \in Conn \ {c} /\ WriteInv(w)
          /\ tx'[d] = tx[d] /\ buf'[d] = buf[d] /\ used'[d] = used[d]
          /\ d \in astray' <=> d \in astray
        BY <1>1, <2>1, WriteFields, Zenon DEF TxInv
    <2>3. /\ told'[w] = told[w]
          /\ w \in excused' <=> w \in excused
          /\ w \in db' <=> w \in db
        BY <1>1, Zenon
    <2> QED BY <2>1, <2>2, <2>3 DEF WriteInv
<1>2. \A w \in Write : WriteInv(w)'
    BY <1>1, Zenon
<1>3. OwnInv'
    BY Zenon DEF TxInv, OwnInv
<1>4. AgreeInv'
    BY Zenon DEF TxInv, AgreeInv
<1> QED BY <1>2, <1>3, <1>4, Zenon DEF TxInv

\* A handler that leaves the transaction alone may start no COPY without room.
LEMMA TxUntouched ==
    ASSUME TxInv, UNCHANGED txVars, DOMAIN phase' = Conn, copying' \in [Conn -> Nat],
           \A c \in Conn : phase'[c] = "loading" =>
               \/ phase[c] = "loading" /\ copying'[c] = copying[c]
               \/ copying'[c] > 0 /\ used[c] + copying'[c] <= MaxWrites
    PROVE  TxInv'
<1>1. UNCHANGED <<tx, buf, db, used, view, told, astray, excused>>
    BY Zenon DEF txVars, toldVars
<1>2. TxTypeOK'
    BY <1>1, Zenon DEF TxInv, TxTypeOK
<1>3. ASSUME NEW w \in Write PROVE WriteInv(w)'
    BY <1>1 DEF TxInv, WriteInv
<1>4. OwnInv' /\ AgreeInv' /\ LoadInv'
    BY <1>1, Zenon DEF TxInv, OwnInv, AgreeInv, LoadInv
<1> QED BY <1>2, <1>3, <1>4, Zenon DEF TxInv

\* The next write is a new one.
LEMMA NextWriteIsNew ==
    ASSUME TxInv, NEW c \in Conn, used[c] < MaxWrites
    PROVE  /\ NextWrite(c) \in Write /\ NextWrite(c)[1] = c /\ NextWrite(c)[2] = used[c] + 1
           /\ told[NextWrite(c)] = "unsent" /\ NextWrite(c) \notin db
           /\ NextWrite(c) \notin excused /\ NextWrite(c) \notin buf[c]
<1>1. used[c] \in Nat /\ used[c] + 1 \in 1 .. MaxWrites
    BY ConnectionAssumption DEF TxInv, TxTypeOK
<1>2. NextWrite(c) \in Write /\ NextWrite(c)[1] = c /\ NextWrite(c)[2] = used[c] + 1
    BY <1>1, WriteFields, Zenon DEF NextWrite
<1>3. WriteInv(NextWrite(c))
    BY <1>2, Zenon DEF TxInv
<1>4. told[NextWrite(c)] = "unsent"
    BY <1>1, <1>2, <1>3 DEF WriteInv
<1> QED BY <1>2, <1>3, <1>4, Zenon DEF WriteInv

\* The counter of a connection that issues a write, and what it means for others.
LEMMA UsedGrows ==
    ASSUME TxInv, NEW c \in Conn, used[c] < MaxWrites, used' = [used EXCEPT ![c] = @ + 1]
    PROVE  /\ used' \in [Conn -> 0 .. MaxWrites]
           /\ \A d \in Conn \ {c} : used'[d] = used[d]
           /\ \A w \in Write : w[1] = c /\ w[2] > used'[c] => w # NextWrite(c) /\ w[2] > used[c]
<1>1. used'[c] = used[c] + 1 /\ used[c] \in Nat /\ used' \in [Conn -> 0 .. MaxWrites]
    BY ConnectionAssumption DEF TxInv, TxTypeOK
<1>2. \A d \in Conn \ {c} : used'[d] = used[d]
    BY Zenon DEF TxInv, TxTypeOK
<1>3. ASSUME NEW w \in Write, w[1] = c, w[2] > used'[c] PROVE w # NextWrite(c) /\ w[2] > used[c]
    <2>1. w[2] \in Nat
        BY WriteFields, ConnectionAssumption
    <2> QED BY <1>1, <1>3, <2>1, NextWriteIsNew
<1> QED BY <1>1, <1>2, <1>3, Zenon

LEMMA AcceptedKeepsTx ==
    ASSUME TxInv, NEW c \in Conn, phase[c] = "ready", used[c] < MaxWrites,
           used' = [used EXCEPT ![c] = @ + 1], Accepted(c, NextWrite(c)),
           UNCHANGED <<tx, phase, copying>>
    PROVE  TxInv'
<1>1. PICK w : w = NextWrite(c)
    BY Zenon
<1>2. /\ w \in Write /\ w[1] = c /\ told[w] = "unsent" /\ w \notin db
      /\ w \notin excused /\ w \notin buf[c]
    BY <1>1, NextWriteIsNew, Zenon
<1>3. PICK f \in {"durable", "pending"} :
          /\ f = IF view[c] = "none" THEN "durable" ELSE "pending"
          /\ Answered({w}, f)
    BY <1>1, Zenon DEF Accepted
<1>4. /\ told' \in [Write -> Told] /\ told'[w] = f
      /\ \A v \in Write : v # w => told'[v] = told[v]
    BY <1>2, <1>3, AnsweredIs, Zenon DEF Told
<1>5. /\ view' = view /\ astray' = astray
      /\ excused' = IF c \in astray THEN excused \cup {w} ELSE excused
      /\ tx[c] = "none" => db' = db \cup {w} /\ buf' = buf
      /\ tx[c] # "none" => db' = db /\ buf' = [buf EXCEPT ![c] = @ \cup {w}]
    BY <1>1, Zenon DEF Accepted, Issued
<1>6. /\ buf' \in [Conn -> SUBSET Write] /\ \A d \in Conn \ {c} : buf'[d] = buf[d]
      /\ tx[c] = "none" => buf'[c] = buf[c]
      /\ tx[c] # "none" => buf'[c] = buf[c] \cup {w}
      /\ db' \in SUBSET Write /\ excused' \in SUBSET Write
    <2>1. buf \in [Conn -> SUBSET Write] /\ db \in SUBSET Write /\ excused \in SUBSET Write
        BY Zenon DEF TxInv, TxTypeOK
    <2>2. db' \in SUBSET Write /\ excused' \in SUBSET Write
        BY <1>2, <1>5, <2>1, Zenon
    <2>3. CASE tx[c] = "none"
        BY <1>5, <2>1, <2>2, <2>3, Zenon
    <2>4. CASE tx[c] # "none"
        <3>1. buf' = [buf EXCEPT ![c] = buf[c] \cup {w}]
            BY <1>5, <2>4, Zenon
        <3>2. buf[c] \cup {w} \in SUBSET Write
            BY <1>2, <2>1, Zenon
        <3>3. /\ buf' \in [Conn -> SUBSET Write] /\ \A d \in Conn \ {c} : buf'[d] = buf[d]
              /\ buf'[c] = buf[c] \cup {w}
            BY <2>1, <3>1, <3>2, Zenon
        <3> QED BY <2>2, <2>4, <3>3, Zenon
    <2> QED BY <2>3, <2>4, Zenon
<1>7. TxTypeOK'
    BY <1>4, <1>5, <1>6, UsedGrows, Zenon DEF TxInv, TxTypeOK
<1>8. LoadInv'
    BY UsedGrows, Zenon DEF TxInv, LoadInv
<1>9. ASSUME NEW v \in Write, v[1] = c PROVE WriteInv(v)'
    <2>1. v[2] > used'[c] => v # w /\ told[v] = "unsent"
        BY <1>1, <1>9, UsedGrows, Zenon DEF TxInv, WriteInv
    <2>2. CASE v = w
        <3>1. CASE c \in astray
            BY <1>3, <1>4, <1>5, <1>9, <2>1, <2>2, <3>1, Zenon DEF WriteInv
        <3>2. CASE c \notin astray
            <4>1. view[c] = tx[c]
                BY <3>2, Zenon DEF TxInv, AgreeInv
            <4>2. CASE tx[c] = "none"
                BY <1>2, <1>3, <1>4, <1>5, <1>9, <2>1, <2>2, <3>2, <4>1, <4>2, Zenon DEF WriteInv
            <4>3. CASE tx[c] # "none"
                BY <1>2, <1>3, <1>4, <1>5, <1>6, <1>9, <2>1, <2>2, <3>2, <4>1, <4>3, Zenon DEF WriteInv
            <4> QED BY <4>2, <4>3, Zenon
        <3> QED BY <3>1, <3>2, Zenon
    <2>3. CASE v # w
        <3>1. /\ told'[v] = told[v] /\ (v \in db' <=> v \in db) /\ (v \in excused' <=> v \in excused)
              /\ v \in buf'[c] <=> v \in buf[c]
            BY <1>4, <1>5, <1>6, <2>3, Zenon
        <3>2. WriteInv(v)
            BY Zenon DEF TxInv
        <3> QED BY <1>5, <1>9, <2>1, <3>1, <3>2, Zenon DEF WriteInv
    <2> QED BY <2>2, <2>3, Zenon
<1>10. ASSUME NEW v \in Write, v[1] # c
       PROVE  told'[v] = told[v] /\ (v \in excused' <=> v \in excused) /\ (v \in db' <=> v \in db)
    BY <1>2, <1>4, <1>5, <1>10, Zenon
<1>11. /\ c \notin astray' => view'[c] = tx'[c]
       /\ \A v \in buf'[c] : v[1] = c
    BY <1>2, <1>5, <1>6, Zenon DEF TxInv, AgreeInv, OwnInv
<1>12. \A d \in Conn \ {c} : /\ tx'[d] = tx[d] /\ view'[d] = view[d]
                             /\ buf'[d] = buf[d] /\ used'[d] = used[d]
                             /\ d \in astray' <=> d \in astray
    BY <1>5, <1>6, UsedGrows, Zenon
<1> QED BY <1>7, <1>8, <1>9, <1>10, <1>11, <1>12, OneConnection, Zenon

\* A write that is refused, while the block fails, is excused or is no block at all.
LEMMA RefusedKeepsTx ==
    ASSUME TxInv, NEW c \in Conn, phase[c] = "ready", used[c] < MaxWrites,
           used' = [used EXCEPT ![c] = @ + 1], Refused(c, NextWrite(c)),
           UNCHANGED <<phase, copying>>,
           tx' = tx \/ tx' = [tx EXCEPT ![c] = Failed(@)],
           view' = [view EXCEPT ![c] = Failed(@)],
           \/ Misled(c, {NextWrite(c)})
           \/ /\ Issued(c, {NextWrite(c)})
              /\ c \in astray \/ (tx'[c] = Failed(tx[c]) /\ tx'[c] = view'[c])
    PROVE  TxInv'
<1>1. PICK w : w = NextWrite(c)
    BY Zenon
<1>2. /\ w \in Write /\ w[1] = c /\ told[w] = "unsent" /\ w \notin db
      /\ w \notin excused /\ w \notin buf[c]
    BY <1>1, NextWriteIsNew, Zenon
<1>3. /\ told' \in [Write -> Told] /\ told'[w] = "gone"
      /\ \A v \in Write : v # w => told'[v] = told[v]
    <2>1. Answered({w}, "gone") /\ "gone" \in Told
        BY <1>1, Zenon DEF Refused, Told
    <2>2. /\ told' \in [Write -> Told]
          /\ \A v \in Write : v \in {w} => told'[v] = "gone"
          /\ \A v \in Write : v \notin {w} => told'[v] = told[v]
        BY <2>1, AnsweredIs, Zenon
    <2> QED BY <1>2, <2>2, Zenon
<1>4. db' = db
    BY Zenon DEF Refused
<1>5. PICK kept \in SUBSET {w} : /\ buf' = [buf EXCEPT ![c] = @ \cup kept]
                                 /\ tx[c] = "none" => kept = {}
    BY <1>1, Zenon DEF Refused
<1>6. /\ buf' \in [Conn -> SUBSET Write] /\ \A d \in Conn \ {c} : buf'[d] = buf[d]
      /\ buf'[c] = buf[c] \cup kept
    BY <1>2, <1>5, Zenon DEF TxInv, TxTypeOK
<1>7. /\ tx' \in [Conn -> Block] /\ view' \in [Conn -> Block]
      /\ \A d \in Conn \ {c} : tx'[d] = tx[d] /\ view'[d] = view[d]
      /\ tx'[c] = tx[c] \/ tx'[c] = Failed(tx[c])
      /\ view'[c] = Failed(view[c])
    BY Zenon DEF TxInv, TxTypeOK, Failed, Block
<1>8. tx'[c] = "none" <=> tx[c] = "none"
    BY <1>7, Zenon DEF Failed
<1>9. tx[c] = "failed" => tx'[c] = "failed"
    BY <1>7, Zenon DEF Failed
<1>10. /\ \A v \in Write : v \in excused => v \in excused'
       /\ \A v \in Write : v \in excused' => v \in excused \/ v \in Pending(c) \/ v = w
       /\ excused' \in SUBSET Write
       /\ \A d \in Conn \ {c} : d \in astray' <=> d \in astray
       /\ c \in astray' => w \in excused'
    BY <1>1, <1>2, Zenon DEF Misled, Issued, Pending, TxInv, TxTypeOK
<1>11. ASSUME NEW v \in Write, v[1] = c, told[v] = "pending", c \in astray' PROVE v \in excused'
    <2>1. v \in Pending(c)
        BY <1>11, Zenon DEF Pending
    <2>2. CASE c \in astray
        BY <1>10, <1>11, <2>2, Zenon DEF TxInv, WriteInv
    <2>3. CASE c \notin astray
        BY <1>11, <2>1, <2>3, Zenon DEF Misled, Issued
    <2> QED BY <2>2, <2>3, Zenon
<1>12. c \notin astray' => tx'[c] = Failed(tx[c]) /\ tx'[c] = view'[c]
    BY Zenon DEF Misled, Issued
<1>13. TxTypeOK'
    BY <1>3, <1>4, <1>6, <1>7, <1>10, UsedGrows, Zenon DEF TxInv, TxTypeOK
<1>14. LoadInv'
    BY UsedGrows, Zenon DEF TxInv, LoadInv
<1>15. ASSUME NEW v \in Write, v[1] = c PROVE WriteInv(v)'
    <2>1. v[2] > used'[c] => v # w /\ told[v] = "unsent"
        BY <1>1, <1>15, UsedGrows, Zenon DEF TxInv, WriteInv
    <2>2. CASE v = w
        <3>1. v \in excused' \/ (v \in buf'[c] => tx'[c] = "failed")
            <4>1. CASE c \in astray'
                BY <1>10, <2>2, <4>1, Zenon
            <4>2. CASE c \notin astray' /\ tx[c] = "none"
                BY <1>2, <1>5, <1>6, <2>2, <4>2, Zenon
            <4>3. CASE c \notin astray' /\ tx[c] # "none"
                BY <1>12, <4>3, Zenon DEF Failed
            <4> QED BY <4>1, <4>2, <4>3, Zenon
        <3> QED BY <1>2, <1>3, <1>4, <1>15, <2>1, <2>2, <3>1, Zenon DEF WriteInv
    <2>3. CASE v # w
        <3>1. told'[v] = told[v] /\ (v \in db' <=> v \in db) /\ (v \in buf'[c] <=> v \in buf[c])
            BY <1>3, <1>4, <1>6, <2>3, Zenon
        <3>2. WriteInv(v)
            BY Zenon DEF TxInv
        <3>3. v \in excused' => told[v] # "unsent"
            BY <1>10, <2>3, <3>2, Zenon DEF WriteInv, Pending
        <3>4. v \notin excused' => v \notin excused
            BY <1>10, Zenon
        <3> QED BY <1>8, <1>9, <1>11, <1>15, <2>1, <3>1, <3>2, <3>3, <3>4, Zenon DEF WriteInv
    <2> QED BY <2>2, <2>3, Zenon
<1>16. ASSUME NEW v \in Write, v[1] # c
       PROVE  told'[v] = told[v] /\ (v \in excused' <=> v \in excused) /\ (v \in db' <=> v \in db)
    BY <1>2, <1>3, <1>4, <1>10, <1>16, Zenon DEF Pending
<1>17. \A v \in buf'[c] : v[1] = c
    BY <1>2, <1>5, <1>6, Zenon DEF TxInv, OwnInv
<1>18. \A d \in Conn \ {c} : /\ tx'[d] = tx[d] /\ view'[d] = view[d]
                             /\ buf'[d] = buf[d] /\ used'[d] = used[d]
                             /\ d \in astray' <=> d \in astray
    BY <1>6, <1>7, <1>10, UsedGrows, Zenon
<1> QED BY <1>12, <1>13, <1>14, <1>15, <1>16, <1>17, <1>18, OneConnection, Zenon

LEMMA SimpleQueryKeepsTx == ASSUME TxInv, NEW c \in Conn, SimpleQuery(c) PROVE TxInv'
<1>1. /\ phase[c] = "ready" /\ used[c] < MaxWrites /\ used' = [used EXCEPT ![c] = @ + 1]
      /\ UNCHANGED <<phase, copying>>
    BY Zenon DEF SimpleQuery, Receives
<1>2. CASE Accepted(c, NextWrite(c)) /\ tx' = tx
    BY <1>1, <1>2, AcceptedKeepsTx, Zenon
<1>3. CASE /\ Refused(c, NextWrite(c))
           /\ tx' = [tx EXCEPT ![c] = Failed(@)]
           /\ view' = [view EXCEPT ![c] = Failed(@)]
           /\ Issued(c, {NextWrite(c)})
    <2>1. c \in astray \/ (tx'[c] = Failed(tx[c]) /\ tx'[c] = view'[c])
        BY <1>3, Zenon DEF TxInv, TxTypeOK, AgreeInv
    <2> QED BY <1>1, <1>3, <2>1, RefusedKeepsTx, Zenon
<1> QED BY <1>2, <1>3, Zenon DEF SimpleQuery

\* Answers that come without a change of the block: about no writes, or about
\* writes that are excused.
LEMMA AnswersKeepTx ==
    ASSUME TxInv, NEW c \in Conn, UNCHANGED <<tx, buf, db, used, copying>>, DOMAIN phase' = Conn,
           \A d \in Conn : phase'[d] = "loading" => phase[d] = "loading",
           NEW ws \in SUBSET Write, ws \subseteq Pending(c), ws \subseteq excused',
           NEW f \in {"durable", "gone"}, Answered(ws, f),
           view' \in [Conn -> Block], \A d \in Conn \ {c} : view'[d] = view[d],
           excused \subseteq excused', excused' \subseteq excused \cup Pending(c),
           \A d \in Conn \ {c} : d \in astray' <=> d \in astray,
           c \in astray' => Pending(c) \subseteq excused',
           c \notin astray' => view'[c] = tx[c]
    PROVE  TxInv'
<1>1. /\ told' \in [Write -> Told]
      /\ \A w \in Write : w \in ws => told'[w] = f
      /\ \A w \in Write : w \notin ws => told'[w] = told[w]
    <2>1. f \in Told
        BY Zenon DEF Told
    <2> QED BY <2>1, AnsweredIs, Zenon
<1>2. TxTypeOK'
    BY <1>1, Zenon DEF TxInv, TxTypeOK, Pending
<1>3. ASSUME NEW v \in Write, v[1] = c PROVE WriteInv(v)'
    <2>1. WriteInv(v)
        BY Zenon DEF TxInv
    <2>2. CASE v \in ws
        <3>1. told'[v] = f /\ told[v] = "pending" /\ v \in excused'
            BY <1>1, <2>2, Zenon DEF Pending
        <3> QED BY <2>1, <3>1, Zenon DEF WriteInv
    <2>3. CASE v \notin ws
        <3>1. told'[v] = told[v]
            BY <1>1, <2>3, Zenon
        <3>2. v \in excused' => told[v] # "unsent"
            BY <2>1, Zenon DEF WriteInv, Pending
        <3>3. told[v] = "pending" /\ c \in astray' => v \in excused'
            BY <1>3, Zenon DEF Pending
        <3>4. v \notin excused' => v \notin excused
            BY Zenon
        <3> QED BY <1>3, <2>1, <3>1, <3>2, <3>3, <3>4 DEF WriteInv
    <2> QED BY <2>2, <2>3, Zenon
<1>4. ASSUME NEW v \in Write, v[1] # c
      PROVE  told'[v] = told[v] /\ (v \in excused' <=> v \in excused) /\ (v \in db' <=> v \in db)
    <2>1. v \notin Pending(c)
        BY <1>4, Zenon DEF Pending
    <2> QED BY <1>1, <2>1, Zenon
<1>5. LoadInv'
    BY Zenon DEF TxInv, LoadInv
<1>6. \A v \in buf'[c] : v[1] = c
    BY Zenon DEF TxInv, OwnInv
<1>7. \A d \in Conn \ {c} : /\ tx'[d] = tx[d] /\ view'[d] = view[d]
                            /\ buf'[d] = buf[d] /\ used'[d] = used[d]
                            /\ d \in astray' <=> d \in astray
    BY Zenon
<1>8. c \notin astray' => view'[c] = tx'[c]
    BY Zenon
<1> QED BY <1>2, <1>3, <1>4, <1>5, <1>6, <1>7, <1>8, OneConnection, Zenon

\* Nobody is told anything new about a write, but the block may have to be excused.
LEMMA ErrorOnlyKeepsTx ==
    ASSUME TxInv, NEW c \in Conn, UNCHANGED <<tx, buf, db, used, told, copying>>, DOMAIN phase' = Conn,
           \A d \in Conn : phase'[d] = "loading" => phase[d] = "loading",
           ErrorOnly(c, {})
    PROVE  TxInv'
<1>1. Answered({}, "gone") /\ "gone" \in {"durable", "gone"}
    BY Zenon DEF Answered, TxInv, TxTypeOK
<1>2. /\ view' \in [Conn -> Block] /\ view'[c] = Failed(view[c])
      /\ \A d \in Conn \ {c} : view'[d] = view[d]
    BY Zenon DEF ErrorOnly, TxInv, TxTypeOK, Failed, Block
<1>3. /\ excused \subseteq excused' /\ excused' \subseteq excused \cup Pending(c)
      /\ \A d \in Conn \ {c} : d \in astray' <=> d \in astray
    BY Zenon DEF ErrorOnly, Misled, Issued
<1>4. c \in astray => Pending(c) \subseteq excused
    BY Zenon DEF TxInv, WriteInv, Pending
<1>5. c \in astray' => Pending(c) \subseteq excused'
    BY <1>3, <1>4, Zenon DEF ErrorOnly, Misled, Issued
<1>6. c \notin astray' => view'[c] = tx[c]
    <2> SUFFICES ASSUME c \notin astray' PROVE view'[c] = tx[c]
        BY Zenon
    <2>1. view[c] # "open" /\ c \notin astray
        BY Zenon DEF ErrorOnly, Misled, Issued
    <2>2. view[c] \in Block /\ view[c] = tx[c]
        BY <2>1, Zenon DEF TxInv, TxTypeOK, AgreeInv
    <2> QED BY <1>2, <2>1, <2>2, Zenon DEF Failed, Block
<1>7. {} \in SUBSET Write /\ {} \subseteq Pending(c) /\ {} \subseteq excused'
    BY Zenon
<1> QED BY <1>1, <1>2, <1>3, <1>5, <1>6, <1>7, AnswersKeepTx, Zenon

LEMMA RollbackToKeepsTx == ASSUME TxInv, NEW c \in Conn, RollbackTo(c) PROVE TxInv'
<1>1. PICK ws \in SUBSET Write :
          /\ ws \subseteq Pending(c) /\ Answered(ws, "gone")
          /\ IF view[c] = "failed" THEN Misled(c, {}) ELSE astray' = astray /\ excused' = excused \cup ws
    <2>1. PICK n : LET undone == {w \in Pending(c) : w[2] > n}
                   IN  /\ Answered(undone, "gone")
                       /\ IF view[c] = "failed" THEN Misled(c, {})
                          ELSE astray' = astray /\ excused' = excused \cup undone
        BY Zenon DEF RollbackTo
    <2>2. {w \in Pending(c) : w[2] > n} \in SUBSET Write
        BY Zenon DEF Pending
    <2> QED BY <2>1, <2>2, Zenon
<1>2. /\ UNCHANGED <<phase, tx, buf, db, used, copying>> /\ view[c] # "none"
      /\ view' = [view EXCEPT ![c] = "open"]
    BY Zenon DEF RollbackTo
<1>3. /\ DOMAIN phase' = Conn /\ view' \in [Conn -> Block] /\ view'[c] = "open"
      /\ \A d \in Conn \ {c} : view'[d] = view[d]
    BY <1>2, Zenon DEF TxInv, TxTypeOK, Block
<1>4. /\ excused \subseteq excused' /\ excused' \subseteq excused \cup Pending(c) /\ ws \subseteq excused'
      /\ \A d \in Conn \ {c} : d \in astray' <=> d \in astray
    BY <1>1, Zenon DEF Misled
<1>5. c \in astray' => Pending(c) \subseteq excused'
    <2>1. c \in astray => Pending(c) \subseteq excused
        BY Zenon DEF TxInv, WriteInv, Pending
    <2> QED BY <1>1, <1>4, <2>1, Zenon DEF Misled
<1>6. c \notin astray' => view'[c] = tx[c]
    <2> SUFFICES ASSUME c \notin astray' PROVE view'[c] = tx[c]
        BY Zenon
    <2>1. view[c] # "failed" /\ c \notin astray
        BY <1>1, Zenon DEF Misled
    <2>2. view[c] \in Block /\ view[c] = tx[c]
        BY <2>1, Zenon DEF TxInv, TxTypeOK, AgreeInv
    <2> QED BY <1>2, <1>3, <2>1, <2>2, Zenon DEF Block
<1>7. "gone" \in {"durable", "gone"}
    BY Zenon
<1> QED BY <1>1, <1>2, <1>3, <1>4, <1>5, <1>6, <1>7, AnswersKeepTx, Zenon

LEMMA ControlTagKeepsTx ==
    ASSUME TxInv, NEW c \in Conn, ControlTag(c), UNCHANGED <<phase, tx, buf, db, used, copying>>
    PROVE  TxInv'
<1>1. PICK ws \in SUBSET Write, f \in {"durable", "gone"} : ws \subseteq Pending(c) /\ Answered(ws, f)
    <2>0. Pending(c) \in SUBSET Write
        BY Zenon DEF Pending
    <2>1. CASE told' = told
        <3>1. Answered({}, "gone")
            BY <2>1, Zenon DEF Answered, TxInv, TxTypeOK
        <3> QED BY <3>1, Zenon
    <2>2. CASE \E f \in {AtCommit(c), "gone"} : Answered(Pending(c), f)
        <3>1. PICK f \in {"durable", "gone"} : Answered(Pending(c), f)
            BY <2>2, Zenon DEF AtCommit
        <3> QED BY <2>0, <3>1, Zenon
    <2> QED BY <2>1, <2>2, Zenon DEF ControlTag
<1>2. /\ view' \in [Conn -> Block]
      /\ \A d \in Conn \ {c} : view'[d] = view[d]
    BY Zenon DEF ControlTag, TxInv, TxTypeOK, Block
<1>3. /\ excused' = excused \cup Pending(c)
      /\ \A d \in Conn \ {c} : d \in astray' <=> d \in astray
    BY Zenon DEF ControlTag, Misled
<1>4. c \notin astray' => view'[c] = tx[c]
    <2> SUFFICES ASSUME c \notin astray' PROVE view'[c] = tx[c]
        BY Zenon
    <2>1. tx[c] = "none" /\ view' = [view EXCEPT ![c] = "none"]
        BY Zenon DEF ControlTag, Misled
    <2> QED BY <2>1, Zenon DEF TxInv, TxTypeOK
<1>5. ws \subseteq Pending(c) /\ ws \subseteq excused'
    BY <1>1, <1>3, Zenon
<1>6. DOMAIN phase' = Conn
    BY Zenon DEF TxInv, TxTypeOK
<1>7. /\ excused \subseteq excused' /\ excused' \subseteq excused \cup Pending(c)
      /\ c \in astray' => Pending(c) \subseteq excused'
      /\ \A d \in Conn \ {c} : d \in astray' <=> d \in astray
    BY <1>3, Zenon
<1>8. /\ UNCHANGED <<tx, buf, db, used, copying>>
      /\ \A d \in Conn : phase'[d] = "loading" => phase[d] = "loading"
    BY Zenon
<1>9. Answered(ws, f)
    BY <1>1, Zenon
<1> QED BY <1>2, <1>4, <1>5, <1>6, <1>7, <1>8, <1>9, AnswersKeepTx, SMTT(30)

LEMMA ExecuteKeepsTx == ASSUME TxInv, NEW c \in Conn, Execute(c) PROVE TxInv'
<1>1. phase[c] = "ready" /\ UNCHANGED <<phase, copying, tx>>
    BY Zenon DEF Execute, Receives
<1>2. tx \in [Conn -> Block] /\ copying \in [Conn -> Nat] /\ DOMAIN phase = Conn
    BY Zenon DEF TxInv, TxTypeOK
<1>3. CASE /\ used[c] < MaxWrites /\ used' = [used EXCEPT ![c] = @ + 1]
           /\ Accepted(c, NextWrite(c))
    BY <1>1, <1>3, AcceptedKeepsTx, Zenon
<1>4. CASE /\ used[c] < MaxWrites /\ used' = [used EXCEPT ![c] = @ + 1]
           /\ Refused(c, NextWrite(c)) /\ ErrorOnly(c, {NextWrite(c)})
    <2>1. view' = [view EXCEPT ![c] = Failed(@)] /\ view'[c] = Failed(view[c])
        BY <1>4, Zenon DEF ErrorOnly, TxInv, TxTypeOK
    <2>2. \/ Misled(c, {NextWrite(c)})
          \/ Issued(c, {NextWrite(c)}) /\ view[c] # "open"
        BY <1>4, Zenon DEF ErrorOnly
    <2>3. c \notin astray /\ view[c] # "open" => tx'[c] = Failed(tx[c]) /\ tx'[c] = view'[c]
        <3> SUFFICES ASSUME c \notin astray, view[c] # "open"
                     PROVE  tx'[c] = Failed(tx[c]) /\ tx'[c] = view'[c]
            BY Zenon
        <3>1. view[c] = tx[c] /\ view[c] \in {"none", "failed"}
            BY Zenon DEF TxInv, TxTypeOK, AgreeInv, Block
        <3> QED BY <1>1, <2>1, <3>1, Zenon DEF Failed
    <2> QED BY <1>1, <1>4, <2>1, <2>2, <2>3, RefusedKeepsTx, Zenon
<1>5. CASE UNCHANGED <<used, buf, db, toldVars>>
    <2>1. UNCHANGED txVars
        BY <1>1, <1>5, Zenon DEF txVars
    <2> QED BY <1>1, <1>2, <2>1, TxUntouched, Zenon
<1>6. CASE ControlTag(c) /\ UNCHANGED <<used, buf, db>>
    BY <1>1, <1>6, ControlTagKeepsTx, Zenon
<1> QED BY <1>3, <1>4, <1>5, <1>6, Zenon DEF Execute

\* In a failed block the client knows that it has failed, unless it was misled.
LEMMA AbortedKeepsTx == ASSUME TxInv, NEW c \in Conn, Aborted(c) PROVE TxInv'
<1>1. /\ tx[c] = "failed" /\ view' = [view EXCEPT ![c] = Failed(@)]
      /\ UNCHANGED <<phase, tx, buf, db, used, told, astray, excused, copying>>
    BY Zenon DEF Aborted
<1>2. Answered({}, "gone") /\ "gone" \in {"durable", "gone"}
    BY <1>1, Zenon DEF Answered, TxInv, TxTypeOK
<1>3. /\ DOMAIN phase' = Conn /\ view' \in [Conn -> Block] /\ view'[c] = Failed(view[c])
      /\ \A d \in Conn \ {c} : view'[d] = view[d]
    BY <1>1, Zenon DEF TxInv, TxTypeOK, Failed, Block
<1>4. c \in astray' => Pending(c) \subseteq excused'
    BY <1>1, Zenon DEF TxInv, WriteInv, Pending
<1>5. c \notin astray' => view'[c] = tx[c]
    BY <1>1, <1>3, Zenon DEF TxInv, AgreeInv, Failed
<1>6. /\ {} \in SUBSET Write /\ {} \subseteq Pending(c) /\ {} \subseteq excused'
      /\ excused \subseteq excused' /\ excused' \subseteq excused \cup Pending(c)
    BY <1>1, Zenon
<1> QED BY <1>1, <1>2, <1>3, <1>4, <1>5, <1>6, AnswersKeepTx, Zenon

\* A row of a COPY: those before it are in the database, whatever is answered.
LEMMA CopyRowKeepsTx == ASSUME TxInv, NEW c \in Conn, CopyRow(c) PROVE TxInv'
<1>1. /\ copying[c] \in Nat /\ used[c] \in Nat /\ copying[c] > 0 /\ used[c] + copying[c] <= MaxWrites
      /\ MaxWrites \in Nat
    BY ConnectionAssumption DEF CopyRow, TxInv, TxTypeOK, LoadInv
<1>2. used[c] < MaxWrites /\ used' = [used EXCEPT ![c] = @ + 1] /\ UNCHANGED <<tx, buf>>
    BY <1>1 DEF CopyRow
<1>3. PICK w : w = NextWrite(c)
    BY Zenon
<1>4. /\ w \in Write /\ w[1] = c /\ told[w] = "unsent" /\ w \notin db
      /\ w \notin excused /\ w \notin buf[c]
    BY <1>2, <1>3, NextWriteIsNew, Zenon
<1>5. PICK n \in {copying[c] - 1, 0} : copying' = [copying EXCEPT ![c] = n]
    BY Zenon DEF CopyRow
<1>6. /\ copying' \in [Conn -> Nat] /\ copying'[c] = n /\ n < copying[c] /\ n \in Nat
      /\ \A d \in Conn \ {c} : copying'[d] = copying[d]
    BY <1>1, <1>5 DEF TxInv, TxTypeOK
<1>7. phase' = [phase EXCEPT ![c] = IF n = 0 THEN "ready" ELSE "loading"]
    BY <1>6, Zenon DEF CopyRow
<1>8. /\ DOMAIN phase' = Conn
      /\ phase'[c] = "loading" => n # 0
      /\ \A d \in Conn \ {c} : phase'[d] = phase[d]
    BY <1>7, Zenon DEF TxInv, TxTypeOK
<1>9. LoadInv'
    <2>1. ASSUME NEW d \in Conn \ {c}, phase'[d] = "loading"
          PROVE  copying'[d] > 0 /\ used'[d] + copying'[d] <= MaxWrites
        BY <1>2, <1>6, <1>8, <2>1, UsedGrows, Zenon DEF TxInv, LoadInv
    <2>2. used'[c] = used[c] + 1
        BY <1>2, Zenon DEF TxInv, TxTypeOK
    <2>3. ASSUME phase'[c] = "loading"
          PROVE  copying'[c] > 0 /\ used'[c] + copying'[c] <= MaxWrites
        BY <1>1, <1>6, <1>8, <2>2, <2>3
    <2> QED BY <2>1, <2>3, Zenon DEF LoadInv
<1> DEFINE rows == Sent(c) \cup {w}
<1>10. ASSUME NEW v \in Sent(c) PROVE v \in Write /\ v[1] = c /\ told[v] = "sent" /\ v \in db
    BY Zenon DEF Sent, TxInv, WriteInv
<1>11. ASSUME NEW v \in Pending(c) PROVE v \in Write /\ v[1] = c /\ told[v] = "pending"
    BY Zenon DEF Pending
<1>12. rows \subseteq Write /\ \A v \in rows : v[1] = c /\ told[v] \in {"unsent", "sent"}
    BY <1>4, <1>10, Zenon
\* The three answers: none yet, COPY n, and an error.
<1>13. \/ /\ Answered({w}, "sent") /\ db' = db \cup {w} /\ excused' = excused
          /\ UNCHANGED <<view, astray>>
       \/ /\ Answered(rows, IF view[c] = "none" THEN "durable" ELSE "pending")
          /\ db' = db \cup {w}
          /\ excused' = IF view[c] = "none" THEN excused ELSE excused \cup rows
          /\ UNCHANGED <<view, astray>>
       \/ /\ Answered(rows, "gone") /\ db' = db
          /\ view' = [view EXCEPT ![c] = Failed(@)]
          /\ astray' = IF view[c] = "open" THEN astray \cup {c} ELSE astray
          /\ excused' = excused \cup Sent(c) \cup Pending(c)
    BY <1>3, Zenon DEF CopyRow
<1> HIDE DEF rows
<1>14. PICK ws \in {{w}, rows}, f \in {"sent", "durable", "pending", "gone"} : Answered(ws, f)
    BY <1>13, Zenon
<1>15. told' \in [Write -> Told] /\ \A v \in Write : v[1] # c => told'[v] = told[v]
    <2>1. f \in Told
        BY <1>14, Zenon DEF Told
    <2>2. \A v \in Write : v[1] # c => v \notin ws
        BY <1>4, <1>12, <1>14, Zenon
    <2> QED BY <1>14, <2>1, <2>2, AnsweredIs, Zenon
<1>16. /\ db' \in SUBSET Write /\ excused' \in SUBSET Write
       /\ \A v \in Write : v[1] # c => (v \in db' <=> v \in db) /\ (v \in excused' <=> v \in excused)
    <2>1. db \in SUBSET Write /\ excused \in SUBSET Write
        BY Zenon DEF TxInv, TxTypeOK
    <2>2. db' = db \/ db' = db \cup {w}
        BY <1>13, Zenon
    <2>3. excused' = excused \/ excused' = excused \cup rows \/ excused' = excused \cup Sent(c) \cup Pending(c)
        BY <1>13, Zenon
    <2> QED BY <1>4, <1>10, <1>11, <1>12, <2>1, <2>2, <2>3, Zenon
<1>17. /\ view' \in [Conn -> Block]
       /\ \A d \in Conn \ {c} : view'[d] = view[d] /\ (d \in astray' <=> d \in astray)
       /\ c \notin astray' => view'[c] = tx[c]
    <2>1. view \in [Conn -> Block] /\ (c \notin astray => view[c] = tx[c])
        BY Zenon DEF TxInv, TxTypeOK, AgreeInv
    <2>2. CASE UNCHANGED <<view, astray>>
        BY <2>1, <2>2, Zenon
    <2>3. CASE /\ view' = [view EXCEPT ![c] = Failed(@)]
               /\ astray' = IF view[c] = "open" THEN astray \cup {c} ELSE astray
        <3>1. Failed(view[c]) \in Block /\ (view[c] # "open" => Failed(view[c]) = view[c])
            BY <2>1, Zenon DEF Failed, Block
        <3>2. view' = [view EXCEPT ![c] = Failed(view[c])]
            BY <2>3, Zenon
        <3> QED BY <2>1, <2>3, <3>1, <3>2, Zenon
    <2> QED BY <1>13, <2>2, <2>3, Zenon
<1>18. TxTypeOK'
    BY <1>2, <1>6, <1>8, <1>15, <1>16, <1>17, UsedGrows, Zenon DEF TxInv, TxTypeOK
<1>19. ASSUME NEW v \in Write, v[1] = c PROVE WriteInv(v)'
    <2>1. v[2] > used'[c] => v # w /\ told[v] = "unsent"
        BY <1>2, <1>3, <1>19, UsedGrows, Zenon DEF TxInv, WriteInv
    <2>2. v \in rows => ~(v[2] > used'[c])
        <3>1. v \in Sent(c) => told[v] = "sent"
            BY <1>10, Zenon
        <3> QED BY <2>1, <3>1, Zenon DEF rows
    <2>3. WriteInv(v)
        BY Zenon DEF TxInv
    <2>4. v \in rows /\ v \in buf[c] => v \in excused
        BY <1>4, <1>10, <1>19, <2>3, Zenon DEF rows, WriteInv
    <2>5. ASSUME told'[v] = told[v], v # w, v \in db' <=> v \in db, v \in excused' <=> v \in excused,
                 c \in astray' => c \in astray
          PROVE  WriteInv(v)'
        BY <1>2, <1>19, <2>1, <2>3, <2>5, Zenon DEF WriteInv
    <2>6. CASE /\ Answered({w}, "sent") /\ db' = db \cup {w} /\ excused' = excused
               /\ UNCHANGED <<view, astray>>
        <3>1. told' = [u \in Write |-> IF u \in {w} THEN "sent" ELSE told[u]]
            BY <2>6, Zenon DEF Answered
        <3>2. (v = w => told'[v] = "sent") /\ (v # w => told'[v] = told[v])
            BY <3>1, Zenon
        <3>3. CASE v = w
            BY <1>2, <1>4, <1>19, <2>1, <2>6, <3>2, <3>3, Zenon DEF WriteInv
        <3> QED BY <2>5, <2>6, <3>2, <3>3, Zenon
    <2>7. CASE /\ Answered(rows, IF view[c] = "none" THEN "durable" ELSE "pending")
               /\ db' = db \cup {w}
               /\ excused' = IF view[c] = "none" THEN excused ELSE excused \cup rows
               /\ UNCHANGED <<view, astray>>
        <3>1. v # w => (v \in db' <=> v \in db)
            BY <2>7, Zenon
        <3>2. CASE v \notin rows
            <4>1. v # w
                BY <3>2, Zenon DEF rows
            <4>2. told'[v] = told[v]
                BY <2>7, <3>2, Zenon DEF Answered
            <4> QED BY <2>5, <2>7, <3>1, <3>2, <4>1, <4>2, Zenon
        <3>3. CASE v \in rows /\ view[c] = "none"
            <4>1. told'[v] = "durable"
                BY <2>7, <3>3, Zenon DEF Answered
            <4>2. v \in db'
                BY <1>10, <2>7, <3>3, Zenon DEF rows
            <4>3. v \notin buf[c] \/ v \in excused'
                BY <2>4, <2>7, <3>3, Zenon
            <4> QED BY <1>2, <1>19, <2>2, <3>3, <4>1, <4>2, <4>3, Zenon DEF WriteInv
        <3>4. CASE v \in rows /\ view[c] # "none"
            <4>1. told'[v] = "pending" /\ v \in excused'
                BY <2>7, <3>4, Zenon DEF Answered
            <4> QED BY <1>19, <2>2, <3>4, <4>1, Zenon DEF WriteInv
        <3> QED BY <3>2, <3>3, <3>4, Zenon
    <2>8. CASE /\ Answered(rows, "gone") /\ db' = db
               /\ astray' = IF view[c] = "open" THEN astray \cup {c} ELSE astray
               /\ excused' = excused \cup Sent(c) \cup Pending(c)
        <3>1. CASE v = w
            <4>1. told'[v] = "gone" /\ v \notin db' /\ v \notin buf'[c]
                BY <1>2, <1>4, <2>8, <3>1, Zenon DEF Answered, rows
            <4> QED BY <1>19, <2>1, <3>1, <4>1, Zenon DEF WriteInv
        <3>2. CASE v \in Sent(c)
            <4>1. told'[v] = "gone" /\ v \in excused' /\ v \in rows
                BY <2>8, <3>2, Zenon DEF Answered, rows
            <4> QED BY <1>19, <2>2, <4>1, Zenon DEF WriteInv
        <3>3. CASE v \in Pending(c)
            <4>1. v \notin rows /\ told[v] = "pending"
                BY <1>11, <1>12, <3>3, Zenon
            <4>2. told'[v] = "pending" /\ v \in excused'
                BY <2>8, <3>3, <4>1, Zenon DEF Answered
            <4> QED BY <1>19, <2>1, <4>1, <4>2, Zenon DEF WriteInv
        <3>4. CASE v # w /\ v \notin Sent(c) /\ v \notin Pending(c)
            <4>1. told'[v] = told[v] /\ (v \in excused' <=> v \in excused) /\ told[v] # "pending"
                BY <1>19, <2>8, <3>4, Zenon DEF Answered, rows, Pending
            <4>2. (v[2] > used'[c] => told[v] = "unsent") /\ tx' = tx /\ buf' = buf /\ db' = db
                BY <1>2, <2>1, <2>8, Zenon
            <4> QED BY <1>19, <2>3, <4>1, <4>2, Zenon DEF WriteInv
        <3> QED BY <3>1, <3>2, <3>3, <3>4, Zenon
    <2> QED BY <1>13, <2>6, <2>7, <2>8, Zenon
<1>20. \A v \in buf'[c] : v[1] = c
    BY <1>2, Zenon DEF TxInv, OwnInv
<1>21. \A d \in Conn \ {c} : /\ tx'[d] = tx[d] /\ view'[d] = view[d]
                             /\ buf'[d] = buf[d] /\ used'[d] = used[d]
                             /\ d \in astray' <=> d \in astray
    BY <1>2, <1>17, UsedGrows, Zenon
<1>22. c \notin astray' => view'[c] = tx'[c]
    BY <1>2, <1>17, Zenon
<1> QED BY <1>9, <1>15, <1>16, <1>18, <1>19, <1>20, <1>21, <1>22, OneConnection, Zenon

\* A block that ends: what it buffered is in the database or gone, as answered.
LEMMA EndedKeepsTx ==
    ASSUME TxInv, NEW c \in Conn, Ended(c), UNCHANGED <<used, copying>>, DOMAIN phase' = Conn,
           \A d \in Conn : phase'[d] = "loading" => phase[d] = "loading",
           NEW f \in {"durable", "gone"}, Answered(Pending(c), f),
           db' = db \/ (tx[c] = "open" /\ db' = db \cup buf[c]),
           \A w \in Pending(c) : w \notin excused =>
               (f = "durable" /\ db' = db \cup buf[c]) \/ (f = "gone" /\ db' = db)
    PROVE  TxInv'
<1>1. /\ told' \in [Write -> Told]
      /\ \A w \in Write : w \in Pending(c) => told'[w] = f
      /\ \A w \in Write : w \notin Pending(c) => told'[w] = told[w]
    <2>1. f \in Told
        BY Zenon DEF Told
    <2> QED BY <2>1, AnsweredIs, Zenon
<1>2. /\ tx' = [tx EXCEPT ![c] = "none"] /\ buf' = [buf EXCEPT ![c] = {}]
      /\ view' = [view EXCEPT ![c] = "none"] /\ astray' = astray \ {c} /\ excused' = excused
    BY Zenon DEF Ended
<1>3. /\ tx \in [Conn -> Block] /\ view \in [Conn -> Block] /\ buf \in [Conn -> SUBSET Write]
      /\ db \in SUBSET Write /\ "none" \in Block /\ buf[c] \in SUBSET Write
    BY Zenon DEF TxInv, TxTypeOK, Block
<1>4. /\ tx' \in [Conn -> Block] /\ tx'[c] = "none" /\ \A d \in Conn \ {c} : tx'[d] = tx[d]
    BY <1>2, <1>3, Zenon
<1>5. /\ view' \in [Conn -> Block] /\ view'[c] = "none" /\ \A d \in Conn \ {c} : view'[d] = view[d]
    BY <1>2, <1>3, Zenon
<1>6. /\ buf' \in [Conn -> SUBSET Write] /\ buf'[c] = {} /\ \A d \in Conn \ {c} : buf'[d] = buf[d]
    BY <1>2, <1>3, Zenon
<1>7. db' \in SUBSET Write
    BY <1>3, Zenon
<1>8. TxTypeOK'
    BY <1>1, <1>2, <1>4, <1>5, <1>6, <1>7, Zenon DEF TxInv, TxTypeOK
<1>9. LoadInv'
    BY Zenon DEF TxInv, LoadInv
<1>10. ASSUME NEW v \in Write, v[1] = c PROVE WriteInv(v)'
    <2>1. WriteInv(v)
        BY Zenon DEF TxInv
    <2>2. c \notin astray' /\ v \notin buf'[c] /\ (v \in db => v \in db')
        BY <1>2, <1>6, Zenon
    <2>3. CASE v \in Pending(c)
        <3>1. told[v] = "pending" /\ told'[v] = f
            BY <1>1, <2>3, Zenon DEF Pending
        <3>2. CASE v \in excused
            BY <1>2, <1>10, <2>1, <2>2, <3>1, <3>2, Zenon DEF WriteInv
        <3>3. CASE v \notin excused
            <4>1. c \notin astray /\ v \in buf[c] /\ v \notin db
                BY <1>10, <2>1, <3>1, <3>3, Zenon DEF WriteInv
            <4>2. f = "durable" => v \in db'
                BY <2>3, <3>3, <4>1, Zenon
            <4>3. f = "gone" => v \notin db'
                BY <2>3, <3>3, <4>1, Zenon
            <4>4. ~(v[2] > used[c])
                BY <1>10, <2>1, <3>1, Zenon DEF WriteInv
            <4> QED BY <1>2, <1>10, <2>2, <3>1, <3>3, <4>2, <4>3, <4>4, Zenon DEF WriteInv
        <3> QED BY <3>2, <3>3, Zenon
    <2>4. CASE v \notin Pending(c)
        <3>1. told'[v] = told[v] /\ told[v] # "pending"
            BY <1>1, <1>10, <2>4, Zenon DEF Pending
        <3>2. v \notin excused => (v \in db' <=> v \in db)
            <4>1. v \notin excused /\ tx[c] = "open" => v \notin buf[c]
                BY <1>10, <2>1, <3>1, Zenon DEF WriteInv
            <4> QED BY <4>1, Zenon
        <3> QED BY <1>2, <1>10, <2>1, <2>2, <3>1, <3>2, Zenon DEF WriteInv
    <2> QED BY <2>3, <2>4, Zenon
<1>11. ASSUME NEW v \in Write, v[1] # c
       PROVE  told'[v] = told[v] /\ (v \in excused' <=> v \in excused) /\ (v \in db' <=> v \in db)
    <2>1. v \notin Pending(c) /\ v \notin buf[c]
        BY <1>11, Zenon DEF Pending, TxInv, OwnInv
    <2> QED BY <1>1, <1>2, <2>1, Zenon
<1>12. \A d \in Conn \ {c} : /\ tx'[d] = tx[d] /\ view'[d] = view[d]
                             /\ buf'[d] = buf[d] /\ used'[d] = used[d]
                             /\ d \in astray' <=> d \in astray
    BY <1>2, <1>4, <1>5, <1>6, Zenon
<1>13. (c \notin astray' => view'[c] = tx'[c]) /\ \A v \in buf'[c] : v[1] = c
    BY <1>4, <1>5, <1>6, Zenon
<1> QED BY <1>8, <1>9, <1>10, <1>11, <1>12, <1>13, OneConnection, Zenon

LEMMA CommitKeepsTx == ASSUME TxInv, NEW c \in Conn, Commit(c) PROVE TxInv'
<1>1. Ended(c) /\ UNCHANGED <<phase, used, copying>> /\ DOMAIN phase = Conn
    BY Zenon DEF Commit, TxInv, TxTypeOK
<1>2. CASE db' = db /\ Answered(Pending(c), "gone")
    BY <1>1, <1>2, EndedKeepsTx, Zenon
<1>3. CASE /\ db' = IF tx[c] = "open" THEN db \cup buf[c] ELSE db
           /\ Answered(Pending(c), AtCommit(c))
    <2>1. /\ tx[c] = "open" => db' = db \cup buf[c]
          /\ tx[c] # "open" => db' = db
          /\ AtCommit(c) \in {"durable", "gone"}
          /\ AtCommit(c) = "durable" <=> view[c] # "failed"
        BY <1>3, Zenon DEF AtCommit
    <2>2. ASSUME NEW w \in Pending(c), w \notin excused
          PROVE  \/ AtCommit(c) = "durable" /\ db' = db \cup buf[c]
                 \/ AtCommit(c) = "gone" /\ db' = db
        <3>1. w \in Write /\ w[1] = c /\ told[w] = "pending" /\ WriteInv(w)
            BY Zenon DEF Pending, TxInv
        <3>2. c \notin astray /\ tx[c] # "none"
            BY <2>2, <3>1, Zenon DEF WriteInv
        <3>3. view[c] = tx[c] /\ tx[c] \in {"open", "failed"}
            BY <3>2, Zenon DEF TxInv, TxTypeOK, AgreeInv, Block
        <3> QED BY <2>1, <3>3, Zenon
    <2> QED BY <1>1, <1>3, <2>1, <2>2, EndedKeepsTx, Zenon
<1> QED BY <1>2, <1>3, Zenon DEF Commit

LEMMA BeginKeepsTx == ASSUME TxInv, NEW c \in Conn, Begin(c) PROVE TxInv'
<1>1. /\ UNCHANGED <<phase, db, used, told, astray, excused, copying>>
      /\ view' = [view EXCEPT ![c] = IF @ = "none" THEN "open" ELSE @]
      /\ tx[c] = "none" => tx' = [tx EXCEPT ![c] = "open"] /\ buf' = [buf EXCEPT ![c] = {}]
      /\ tx[c] # "none" => tx' = tx /\ buf' = buf
    BY Zenon DEF Begin
<1>2. /\ tx \in [Conn -> Block] /\ view \in [Conn -> Block] /\ buf \in [Conn -> SUBSET Write]
      /\ "open" \in Block
    BY Zenon DEF TxInv, TxTypeOK, Block
<1>3. /\ view' \in [Conn -> Block] /\ view'[c] = (IF view[c] = "none" THEN "open" ELSE view[c])
      /\ \A d \in Conn \ {c} : view'[d] = view[d]
    BY <1>1, <1>2, Zenon
<1>4. /\ tx' \in [Conn -> Block] /\ tx'[c] = (IF tx[c] = "none" THEN "open" ELSE tx[c])
      /\ \A d \in Conn \ {c} : tx'[d] = tx[d]
    BY <1>1, <1>2, Zenon
<1>5. /\ buf' \in [Conn -> SUBSET Write] /\ buf'[c] = (IF tx[c] = "none" THEN {} ELSE buf[c])
      /\ \A d \in Conn \ {c} : buf'[d] = buf[d]
    BY <1>1, <1>2, Zenon
<1>6. TxTypeOK' /\ LoadInv'
    BY <1>1, <1>3, <1>4, <1>5, Zenon DEF TxInv, TxTypeOK, LoadInv
<1>7. ASSUME NEW v \in Write, v[1] = c PROVE WriteInv(v)'
    <2>1. WriteInv(v)
        BY Zenon DEF TxInv
    <2>2. CASE tx[c] = "none"
        <3>1. v \notin buf'[c] /\ (v \notin excused => told[v] # "pending")
            BY <1>5, <1>7, <2>1, <2>2, Zenon DEF WriteInv
        <3> QED BY <1>1, <1>7, <2>1, <3>1, Zenon DEF WriteInv
    <2>3. CASE tx[c] # "none"
        BY <1>1, <1>7, <2>1, <2>3, Zenon DEF WriteInv
    <2> QED BY <2>2, <2>3, Zenon
<1>8. (c \notin astray' => view'[c] = tx'[c]) /\ \A v \in buf'[c] : v[1] = c
    BY <1>1, <1>3, <1>4, <1>5, Zenon DEF TxInv, AgreeInv, OwnInv
<1> QED BY <1>1, <1>3, <1>4, <1>5, <1>6, <1>7, <1>8, OneConnection, Zenon

LEMMA EndKeepsTx == ASSUME TxInv, NEW c \in Conn, Rollback(c) \/ Leave(c) PROVE TxInv'
<1>1. /\ Answered(Pending(c), "gone") /\ Ended(c) /\ UNCHANGED <<db, used, copying>>
      /\ phase' = phase \/ phase' = [phase EXCEPT ![c] = "leaving"]
    BY Zenon DEF Rollback, Leave
<1>2. DOMAIN phase' = Conn /\ \A d \in Conn : phase'[d] = "loading" => phase[d] = "loading"
    BY <1>1, Zenon DEF TxInv, TxTypeOK
<1> QED BY <1>1, <1>2, EndedKeepsTx, Zenon

LEMMA CopyKeepsTx ==
    ASSUME TxInv, NEW c \in Conn, CopyIn(c) \/ CopyDone(c) \/ CopyFail(c)
    PROVE  TxInv'
<1>1. DOMAIN phase = Conn /\ copying \in [Conn -> Nat] /\ used[c] \in Nat
    BY ConnectionAssumption DEF TxInv, TxTypeOK
<1>2. CASE CopyIn(c)
    <2>1. phase' = [phase EXCEPT ![c] = "copyin"] /\ copying' = copying /\ UNCHANGED txVars
        BY <1>2, Zenon DEF CopyIn
    <2> QED BY <1>1, <2>1, TxUntouched, Zenon
<1>3. CASE CopyDone(c)
    <2>1. PICK n \in 1 .. MaxWrites - used[c] : copying' = [copying EXCEPT ![c] = n]
        BY <1>3, Zenon DEF CopyDone
    <2>2. phase' = [phase EXCEPT ![c] = "loading"] /\ UNCHANGED txVars
        BY <1>3, Zenon DEF CopyDone
    <2>3. n \in Nat /\ n > 0 /\ used[c] + n <= MaxWrites
        BY <1>1, ConnectionAssumption
    <2> QED BY <1>1, <2>1, <2>2, <2>3, TxUntouched, Zenon
<1>4. CASE CopyFail(c)
    <2>1. /\ phase' = [phase EXCEPT ![c] = "ready"] /\ ErrorOnly(c, {})
          /\ UNCHANGED <<tx, buf, db, used, told, copying>>
        BY <1>4, Zenon DEF CopyFail
    <2>2. DOMAIN phase' = Conn /\ \A d \in Conn : phase'[d] = "loading" => phase[d] = "loading"
        BY <1>1, <2>1, Zenon
    <2> QED BY <2>1, <2>2, ErrorOnlyKeepsTx, Zenon
<1> QED BY <1>2, <1>3, <1>4, Zenon

LEMMA ControlErrorKeepsTx == ASSUME TxInv, NEW c \in Conn, ControlError(c) PROVE TxInv'
<1>1. ErrorOnly(c, {}) /\ UNCHANGED <<phase, tx, buf, db, used, told, copying>> /\ DOMAIN phase = Conn
    BY Zenon DEF ControlError, TxInv, TxTypeOK
<1> QED BY <1>1, ErrorOnlyKeepsTx, Zenon

\* The process is gone, and with it every block and every claim about one.
LEMMA PanicsKeepsTx == ASSUME TxInv, NEW why, Panics(why) PROVE TxInv'
<1>1. /\ phase' = [c \in Conn |-> "gone"] /\ tx' = [c \in Conn |-> "none"]
      /\ buf' = [c \in Conn |-> {}] /\ view' = [c \in Conn |-> "none"] /\ astray' = {}
      /\ copying' = [c \in Conn |-> 0] /\ UNCHANGED <<db, used, excused>>
    BY Zenon DEF Panics
<1>2. PICK ws : ws = UNION {Pending(c) : c \in Conn}
    BY Zenon
<1>3. \A w \in Write : w \in ws <=> told[w] = "pending"
    <2>1. ASSUME NEW w \in Write, told[w] = "pending" PROVE w \in ws
        <3>1. w[1] \in Conn /\ w \in Pending(w[1])
            BY <2>1, WriteFields, Zenon DEF Pending
        <3> QED BY <1>2, <3>1, Zenon
    <2>2. ASSUME NEW w \in Write, w \in ws PROVE told[w] = "pending"
        <3>1. PICK c \in Conn : w \in Pending(c)
            BY <1>2, <2>2, Zenon
        <3> QED BY <3>1, Zenon DEF Pending
    <2> QED BY <2>1, <2>2, Zenon
<1>4. /\ told' \in [Write -> Told]
      /\ \A w \in Write : w \in ws => told'[w] = "gone"
      /\ \A w \in Write : w \notin ws => told'[w] = told[w]
    <2>1. Answered(ws, "gone") /\ "gone" \in Told
        BY <1>2, Zenon DEF Panics, Told
    <2> QED BY <2>1, AnsweredIs, Zenon
<1>5. TxTypeOK'
    BY <1>1, <1>4 DEF TxInv, TxTypeOK, Block
<1>6. ASSUME NEW v \in Write PROVE WriteInv(v)'
    <2>1. WriteInv(v) /\ buf'[v[1]] = {}
        BY <1>1, WriteFields, Zenon DEF TxInv
    <2>2. told'[v] = told[v] \/ (told[v] = "pending" /\ told'[v] = "gone")
        BY <1>3, <1>4, Zenon
    <2>3. told'[v] # "pending"
        BY <1>3, <1>4, Zenon
    <2> QED BY <1>1, <2>1, <2>2, <2>3, Zenon DEF WriteInv
<1>7. OwnInv' /\ AgreeInv' /\ LoadInv'
    BY <1>1, Zenon DEF OwnInv, AgreeInv, LoadInv
<1> QED BY <1>5, <1>6, <1>7, Zenon DEF TxInv

\* The handlers that leave the transaction and the COPY alone.
Aside ==
    \/ \E c \in Conn :
        \/ Acknowledged(c) \/ SetGUC(c)
        \/ Parse(c) \/ Bind(c) \/ Describe(c) \/ CloseNamed(c)
        \/ Declare(c) \/ CloseCursor(c)
        \/ Unlisten(c)
        \/ \E n \in Chan : Listen(c, n)
        \/ Startup(c) \/ CleanUp(c)
    \/ \E i \in Sub : Drain(i)

LEMMA AsideKeepsTx == ASSUME TxInv, Aside PROVE TxInv'
<1>1. /\ UNCHANGED <<txVars, copying>>
      /\ \/ phase' = phase
         \/ \E c \in Conn, p \in {"ready", "gone"} : phase' = [phase EXCEPT ![c] = p]
    <2>1. ASSUME NEW c \in Conn, Acknowledged(c) \/ SetGUC(c) \/ Parse(c) \/ Bind(c) \/ Describe(c)
                                 \/ CloseNamed(c)
          PROVE  UNCHANGED <<txVars, copying>> /\ phase' = phase
        BY <2>1, Zenon DEF Acknowledged, connVars, SetGUC, Parse, Bind, Describe, CloseNamed
    <2>2. ASSUME NEW c \in Conn, \/ Declare(c) \/ CloseCursor(c) \/ Unlisten(c)
                                 \/ \E n \in Chan : Listen(c, n)
          PROVE  UNCHANGED <<txVars, copying>> /\ phase' = phase
        BY <2>2, Zenon DEF Declare, CloseCursor, Unlisten, Listen
    <2>3. ASSUME NEW c \in Conn, Startup(c) \/ CleanUp(c)
          PROVE  /\ UNCHANGED <<txVars, copying>>
                 /\ \/ phase' = phase
                    \/ \E p \in {"ready", "gone"} : phase' = [phase EXCEPT ![c] = p]
        BY <2>3, Zenon DEF Startup, CleanUp
    <2>4. ASSUME NEW i \in Sub, Drain(i)
          PROVE  UNCHANGED <<txVars, copying>> /\ phase' = phase
        BY <2>4, Zenon DEF Drain
    <2> QED BY <2>1, <2>2, <2>3, <2>4, Zenon DEF Aside
<1>2. DOMAIN phase' = Conn /\ \A c \in Conn : phase'[c] = "loading" => phase[c] = "loading"
    BY <1>1, Zenon DEF TxInv, TxTypeOK
<1>3. UNCHANGED txVars /\ copying' = copying /\ copying \in [Conn -> Nat]
    BY <1>1, Zenon DEF TxInv, TxTypeOK
<1> QED BY <1>2, <1>3, TxUntouched, Zenon

\* FETCH and NOTIFY leave the transaction alone too, unless they panic.
LEMMA FetchNotifyKeepsTx ==
    ASSUME TxInv, \E c \in Conn : Fetch(c) \/ \E n \in Chan : Notify(c, n)
    PROVE  TxInv'
<1>1. UNCHANGED <<phase, txVars, copying>> \/ \E why : Panics(why)
    BY Zenon DEF Fetch, Notify
<1>2. CASE UNCHANGED <<phase, txVars, copying>>
    <2>1. UNCHANGED txVars /\ UNCHANGED <<phase, copying>> /\ copying \in [Conn -> Nat]
          /\ DOMAIN phase = Conn
        BY <1>2, Zenon DEF TxInv, TxTypeOK
    <2> QED BY <2>1, TxUntouched, Zenon
<1> QED BY <1>1, <1>2, PanicsKeepsTx, Zenon

\* What the answers say of a write is so, for any connections that interleave
\* blocks, both protocols and COPY, and any writes but the excused.
THEOREM PromisesAreKept == ConnInit /\ [][ConnNext]_connVars => []PromisesKept
<1>1. TxInv /\ [ConnNext]_connVars => TxInv'
    <2> SUFFICES ASSUME TxInv, [ConnNext]_connVars PROVE TxInv'
        BY Zenon
    <2>1. CASE UNCHANGED connVars
        <3>1. UNCHANGED txVars /\ UNCHANGED <<phase, copying>>
            BY <2>1, Zenon DEF connVars
        <3> QED BY <3>1, TxUntouched, Zenon DEF TxInv, TxTypeOK
    <2>2. CASE Aside
        BY <2>2, AsideKeepsTx, Zenon
    <2> QED BY <2>1, <2>2, BeginKeepsTx, CommitKeepsTx, EndKeepsTx, RollbackToKeepsTx,
               ControlErrorKeepsTx, SimpleQueryKeepsTx, AbortedKeepsTx, ExecuteKeepsTx,
               CopyKeepsTx, CopyRowKeepsTx, FetchNotifyKeepsTx, Zenon DEF ConnNext, Aside
<1>2. TxInv => PromisesKept
    BY Zenon DEF TxInv, WriteInv, PromisesKept
<1> QED BY <1>1, <1>2, TxInitInv, PTL
-----------------------------------------------------------------------------
(* Panics.                                                                 *)

\* How a step may change what is committed and what is buffered.
Commits ==
    \/ db' = db
    \/ \E w : db' = db \cup {w}
    \/ \E c \in Conn : db' = db \cup buf[c]

Buffers ==
    \/ buf' = buf
    \/ \E c \in Conn : buf' = [buf EXCEPT ![c] = {}]
    \/ \E c \in Conn : \E w : buf' = [buf EXCEPT ![c] = @ \cup {w}]

LEMMA StatementGrows ==
    ASSUME FiniteInv, NEW c \in Conn, NEW w, Accepted(c, w) \/ Refused(c, w)
    PROVE  Commits /\ Buffers
<1>1. CASE Accepted(c, w)
    BY <1>1, Zenon DEF Accepted, Commits, Buffers
<1>2. CASE Refused(c, w)
    <2>1. db' = db
        BY <1>2, Zenon DEF Refused
    <2>3. ASSUME NEW kept \in SUBSET {w}, buf' = [buf EXCEPT ![c] = @ \cup kept] PROVE Buffers
        <3>1. kept = {} \/ kept = {w}
            BY Zenon
        <3>2. kept = {} => buf' = buf
            BY <2>3, Zenon DEF FiniteInv
        <3> QED BY <2>3, <3>1, <3>2, Zenon DEF Buffers
    <2>4. \E kept \in SUBSET {w} : buf' = [buf EXCEPT ![c] = @ \cup kept]
        BY <1>2, Zenon DEF Refused
    <2> QED BY <2>1, <2>3, <2>4, Zenon DEF Commits
<1> QED BY <1>1, <1>2, Zenon

\* The steps that touch what is committed or buffered; they touch no cursor and no
\* subscription.
InTransaction ==
    \E c \in Conn :
        \/ Begin(c) \/ Commit(c) \/ Rollback(c) \/ RollbackTo(c) \/ ControlError(c)
        \/ SimpleQuery(c) \/ Aborted(c) \/ Execute(c)
        \/ CopyIn(c) \/ CopyDone(c) \/ CopyFail(c) \/ CopyRow(c) \/ Leave(c)

LEMMA TransactionGrows ==
    ASSUME FiniteInv, InTransaction
    PROVE  Commits /\ Buffers /\ UNCHANGED <<cursor, subVars, panic>>
<1> SUFFICES ASSUME NEW c \in Conn,
                    \/ Begin(c) \/ Commit(c) \/ Rollback(c) \/ RollbackTo(c) \/ ControlError(c)
                    \/ SimpleQuery(c) \/ Aborted(c) \/ Execute(c)
                    \/ CopyIn(c) \/ CopyDone(c) \/ CopyFail(c) \/ CopyRow(c) \/ Leave(c)
             PROVE  Commits /\ Buffers /\ UNCHANGED <<cursor, subVars, panic>>
    BY Zenon DEF InTransaction
<1>1. CASE Begin(c) \/ Rollback(c) \/ Leave(c)
    BY <1>1, Zenon DEF Begin, Rollback, Leave, Ended, Commits, Buffers
<1>2. CASE Commit(c)
    BY <1>2, Zenon DEF Commit, Ended, Commits, Buffers
<1>3. CASE SimpleQuery(c)
    <2>1. Accepted(c, NextWrite(c)) \/ Refused(c, NextWrite(c))
        BY <1>3, Zenon DEF SimpleQuery
    <2> QED BY <1>3, <2>1, StatementGrows, Zenon DEF SimpleQuery
<1>4. CASE Execute(c)
    <2>1. \/ Accepted(c, NextWrite(c)) \/ Refused(c, NextWrite(c))
          \/ UNCHANGED <<buf, db>>
        BY <1>4, Zenon DEF Execute
    <2>2. Commits /\ Buffers
        BY <2>1, StatementGrows, Zenon DEF Commits, Buffers
    <2> QED BY <1>4, <2>2, Zenon DEF Execute
<1>5. CASE CopyIn(c) \/ CopyDone(c) \/ CopyFail(c)
    BY <1>5, Zenon DEF CopyIn, CopyDone, CopyFail, txVars, Commits, Buffers
<1>6. CASE CopyRow(c)
    BY <1>6, Zenon DEF CopyRow, Commits, Buffers
<1>7. CASE RollbackTo(c) \/ ControlError(c) \/ Aborted(c)
    BY <1>7, Zenon DEF RollbackTo, ControlError, Aborted, Commits, Buffers
<1> QED BY <1>1, <1>2, <1>3, <1>4, <1>5, <1>6, <1>7, Zenon

LEMMA GrowthKeepsFinite == ASSUME FiniteInv, Commits, Buffers PROVE FiniteInv'
<1>1. IsFiniteSet(db')
    <2>1. ASSUME NEW w PROVE IsFiniteSet(db \cup {w})
        BY FS_AddElement, Zenon DEF FiniteInv
    <2>2. ASSUME NEW c \in Conn PROVE IsFiniteSet(db \cup buf[c])
        BY FS_Union, Zenon DEF FiniteInv
    <2> QED BY <2>1, <2>2, Zenon DEF FiniteInv, Commits
<1>2. ASSUME NEW d \in Conn PROVE IsFiniteSet(buf'[d])
    <2>1. ASSUME NEW w PROVE IsFiniteSet(buf[d] \cup {w})
        BY FS_AddElement, Zenon DEF FiniteInv
    <2>2. \/ buf'[d] = buf[d] \/ buf'[d] = {}
          \/ \E w : buf'[d] = buf[d] \cup {w}
        BY Zenon DEF FiniteInv, Buffers
    <2> QED BY <2>1, <2>2, FS_EmptySet, Zenon DEF FiniteInv
<1>3. DOMAIN buf' = Conn /\ buf' = [c \in Conn |-> buf'[c]]
    BY Zenon DEF FiniteInv, Buffers
<1> QED BY <1>1, <1>2, <1>3, Zenon DEF FiniteInv

\* Nothing is left to a panic once the process is gone.
LEMMA PanicsKeeps ==
    ASSUME PanicInv, Panics("negative"), notified' \in Nat
    PROVE  PanicInv'
<1>1. /\ db' = db /\ buf' = [c \in Conn |-> {}] /\ cursor' = [c \in Conn |-> Nil]
      /\ subs' = <<>> /\ panic' = "negative"
    BY Zenon DEF Panics
<1>2. FiniteInv'
    BY <1>1, FS_EmptySet, Zenon DEF PanicInv, FiniteInv
<1>3. CursorInv' /\ NoPanic'
    BY <1>1, Zenon DEF CursorInv, NoPanic
<1>4. SubsInv'
    BY <1>1 DEF SubsInv
<1> QED BY <1>2, <1>3, <1>4, Zenon DEF PanicInv

\* Where a FETCH ends: within the rows, and not before the position unless its
\* count is negative.
LEMMA UpToBound ==
    ASSUME NEW r \in Nat, NEW p \in Nat, NEW n \in Int, p <= r
    PROVE  /\ UpTo(r, p, n) \in Int /\ UpTo(r, p, n) <= r
           /\ n >= 0 => UpTo(r, p, n) >= p
BY DEF UpTo

LEMMA CursorStepKeeps ==
    ASSUME CursorInv, NEW c \in Conn, NEW v, cursor' = [cursor EXCEPT ![c] = v],
           v # Nil => /\ v \in [rows : Nat \cup {Nil}, pos : Nat]
                      /\ v.rows # Nil => v.pos <= v.rows
                      /\ v.rows = Nil => v.pos = 0
    PROVE  CursorInv'
BY Zenon DEF CursorInv

\* FETCH stays within the rows, whether it has just counted them or finds them.
LEMMA FetchKeepsPanic == ASSUME PanicInv, NEW c \in Conn, Fetch(c) PROVE PanicInv'
<1> DEFINE rows == IF cursor[c].rows = Nil THEN Cardinality(Visible(c)) ELSE cursor[c].rows
<1> DEFINE pos == cursor[c].pos
<1>1. IsFiniteSet(Visible(c))
    <2>1. IsFiniteSet(db \cup {}) /\ IsFiniteSet(db \cup buf[c])
        BY FS_EmptySet, FS_Union, Zenon DEF PanicInv, FiniteInv
    <2> QED BY <2>1, Zenon DEF Visible
<1>2. /\ cursor[c] # Nil /\ pos \in Nat /\ cursor[c].rows \in Nat \cup {Nil}
      /\ cursor[c].rows # Nil => pos <= cursor[c].rows
      /\ cursor[c].rows = Nil => pos = 0
    BY Zenon DEF Fetch, PanicInv, CursorInv
<1>3. Cardinality(Visible(c)) \in Nat
    BY <1>1, FS_CardinalityType, Zenon
<1>4. rows \in Nat /\ pos <= rows
    <2>1. CASE cursor[c].rows = Nil
        <3>1. rows = Cardinality(Visible(c))
            BY <2>1, Zenon
        <3> HIDE DEF rows, pos
        <3> QED BY <1>2, <1>3, <2>1, <3>1
    <2>2. CASE cursor[c].rows # Nil
        BY <1>2, <2>2, Zenon
    <2> QED BY <2>1, <2>2, Zenon
<1>5. notified' = notified /\ notified \in Nat
    BY Zenon DEF Fetch, PanicInv, SubsInv
<1>6. PICK n \in Counts \cup {rows} :
          IF UpTo(rows, pos, n) < pos \/ UpTo(rows, pos, n) > rows
          THEN Panics(IF n < 0 THEN "negative" ELSE "slice")
          ELSE /\ \E r \in IF rows = 0 THEN {0, Nil} ELSE {rows} :
                      cursor' = [cursor EXCEPT ![c] = [rows |-> r, pos |-> UpTo(rows, pos, n)]]
               /\ UNCHANGED <<phase, txVars, copying, subs, panic>>
    BY Zenon DEF Fetch
<1> HIDE DEF rows, pos
<1>7. PICK end : end = UpTo(rows, pos, n)
    BY Zenon
<1>8. n \in Int
    BY <1>4, ConnectionAssumption
<1>9. pos \in Nat /\ end \in Int /\ end <= rows /\ (n >= 0 => end >= pos)
    BY <1>2, <1>4, <1>7, <1>8, UpToBound, Zenon DEF pos
<1>10. CASE end < pos \/ end > rows
    <2>1. n < 0
        BY <1>4, <1>8, <1>9, <1>10
    <2>2. Panics("negative")
        BY <1>6, <1>7, <1>10, <2>1, Zenon
    <2> QED BY <1>5, <2>2, PanicsKeeps, Zenon
<1>11. CASE ~(end < pos \/ end > rows)
    <2>1. PICK r \in (IF rows = 0 THEN {0, Nil} ELSE {rows}) :
              cursor' = [cursor EXCEPT ![c] = [rows |-> r, pos |-> end]]
        BY <1>6, <1>7, <1>11, Zenon
    <2>2. UNCHANGED <<txVars, subs, panic>>
        BY <1>6, <1>7, <1>11, Zenon
    <2>3. end \in Nat /\ end <= rows /\ (rows = 0 => end = 0)
        BY <1>4, <1>9, <1>11
    <2>4. /\ r \in Nat \cup {Nil} /\ (r = Nil => end = 0)
          /\ r # Nil => end <= r
        <3>1. CASE rows = 0
            BY <2>1, <2>3, <3>1, Zenon
        <3>2. CASE rows # 0
            <4>1. r = rows
                BY <2>1, <3>2, Zenon
            <4>2. r = Nil => end = 0
                BY <1>4, <2>3, <3>2, <4>1, ConnectionAssumption
            <4> QED BY <1>4, <2>3, <4>1, <4>2, Zenon
        <3> QED BY <3>1, <3>2, Zenon
    <2>5. PICK v : v = [rows |-> r, pos |-> end]
        BY Zenon
    <2>6. /\ v \in [rows : Nat \cup {Nil}, pos : Nat]
          /\ v.rows = r /\ v.pos = end
        BY <2>3, <2>4, <2>5, Zenon
    <2>7. CursorInv'
        BY <2>1, <2>4, <2>5, <2>6, CursorStepKeeps, Zenon DEF PanicInv
    <2>8. UNCHANGED <<db, buf>>
        BY <2>2, Zenon DEF txVars
    <2> QED BY <1>5, <2>2, <2>7, <2>8, Zenon DEF PanicInv, FiniteInv, SubsInv, NoPanic
<1> QED BY <1>10, <1>11, Zenon

\* A step on subscriptions that are there: each stays one, registered only if open.
LEMMA SubsPointwise ==
    ASSUME SubsInv, notified' \in Nat, DOMAIN subs' = DOMAIN subs,
           subs' = [i \in DOMAIN subs |-> subs'[i]],
           \A i \in DOMAIN subs : /\ subs'[i] \in Subscription
                                  /\ subs'[i].registered => subs'[i].state = "open"
    PROVE  SubsInv'
<1>1. DOMAIN subs = 1 .. Len(subs) /\ Len(subs) \in Nat
    BY DEF SubsInv
<1>2. subs' \in Seq(Subscription)
    <2>1. subs' \in [1 .. Len(subs) -> Subscription]
        BY <1>1, Zenon
    <2> QED BY <1>1, <2>1
<1> QED BY <1>2, Zenon DEF SubsInv

LEMMA ListenKeepsSubs == ASSUME SubsInv, NEW c \in Conn, NEW n \in Chan, Listen(c, n) PROVE SubsInv'
<1>1. PICK v : v = [conn |-> c, chan |-> n, buf |-> <<>>, registered |-> TRUE,
                    state |-> "open", running |-> TRUE]
    BY Zenon
<1>2. v \in Subscription /\ v.state = "open"
    BY <1>1 DEF Subscription
<1>3. subs' = Append(subs, v) /\ notified' = notified
    BY <1>1, Zenon DEF Listen
<1>4. subs' \in Seq(Subscription)
    BY <1>2, <1>3 DEF SubsInv
<1>5. \A i \in DOMAIN subs' : subs'[i] = v \/ (i \in DOMAIN subs /\ subs'[i] = subs[i])
    BY <1>3 DEF SubsInv
<1> QED BY <1>2, <1>3, <1>4, <1>5, Zenon DEF SubsInv

LEMMA UnlistenKeepsSubs == ASSUME SubsInv, NEW c \in Conn, Unlisten(c) PROVE SubsInv'
<1>1. PICK ns : subs' = [i \in DOMAIN subs |->
                            IF subs[i].conn = c /\ subs[i].chan \in ns
                            THEN [subs[i] EXCEPT !.registered = FALSE] ELSE subs[i]]
    BY Zenon DEF Unlisten
<1>2. \A i \in DOMAIN subs : subs[i] \in Subscription
    BY DEF SubsInv
<1>3. ASSUME NEW i \in DOMAIN subs
      PROVE  subs'[i] \in Subscription /\ (subs'[i].registered => subs'[i].state = "open")
    <2>1. subs'[i] = [subs[i] EXCEPT !.registered = FALSE] \/ subs'[i] = subs[i]
        BY <1>1, Zenon
    <2>2. /\ [subs[i] EXCEPT !.registered = FALSE] \in Subscription
          /\ [subs[i] EXCEPT !.registered = FALSE].registered = FALSE
        BY <1>2, Zenon DEF Subscription
    <2> QED BY <1>2, <2>1, <2>2, Zenon DEF SubsInv
<1>4. DOMAIN subs' = DOMAIN subs /\ subs' = [i \in DOMAIN subs |-> subs'[i]] /\ notified' \in Nat
    BY <1>1, Zenon DEF Unlisten, SubsInv
<1> QED BY <1>3, <1>4, SubsPointwise, Zenon

LEMMA NotifyKeepsSubs ==
    ASSUME SubsInv, NEW c \in Conn, NEW n \in Chan, Notify(c, n)
    PROVE  SubsInv' /\ UNCHANGED <<txVars, cursor, panic>>
<1>1. notified' = notified + 1 /\ notified' \in Nat
    BY DEF Notify, SubsInv
<1>2. /\ subs' = [i \in DOMAIN subs |->
                     IF subs[i].registered /\ subs[i].chan = n /\ Len(subs[i].buf) < BufCap
                     THEN [subs[i] EXCEPT !.buf = Append(@, notified')] ELSE subs[i]]
      /\ UNCHANGED <<txVars, cursor, panic>>
    <2>1. ~\E i \in DOMAIN subs : subs[i].registered /\ subs[i].chan = n /\ subs[i].state = "closed"
        BY Zenon DEF SubsInv
    <2> QED BY <2>1, Zenon DEF Notify
<1>3. \A i \in DOMAIN subs : subs[i] \in Subscription
    BY DEF SubsInv
<1>4. ASSUME NEW i \in DOMAIN subs
      PROVE  subs'[i] \in Subscription /\ (subs'[i].registered => subs'[i].state = "open")
    <2>1. PICK b : b = Append(subs[i].buf, notified')
        BY Zenon
    <2>2. b \in Seq(Nat)
        BY <1>1, <1>3, <2>1 DEF Subscription
    <2>3. subs'[i] = [subs[i] EXCEPT !.buf = b] \/ subs'[i] = subs[i]
        BY <1>2, <2>1, Zenon
    <2>4. /\ [subs[i] EXCEPT !.buf = b] \in Subscription
          /\ [subs[i] EXCEPT !.buf = b].registered = subs[i].registered
          /\ [subs[i] EXCEPT !.buf = b].state = subs[i].state
        BY <1>3, <2>2, Zenon DEF Subscription
    <2> QED BY <1>3, <2>3, <2>4, Zenon DEF SubsInv
<1>5. DOMAIN subs' = DOMAIN subs /\ subs' = [i \in DOMAIN subs |-> subs'[i]]
    BY <1>2, Zenon
<1> QED BY <1>1, <1>2, <1>4, <1>5, SubsPointwise, Zenon

LEMMA DrainKeepsSubs == ASSUME SubsInv, NEW k \in Sub, Drain(k) PROVE SubsInv'
<1>1. k \in DOMAIN subs /\ subs[k] \in Subscription /\ notified' = notified
    BY DEF Drain, SubsInv
<1>2. PICK v \in Subscription :
          /\ subs' = [subs EXCEPT ![k] = v]
          /\ v.registered = subs[k].registered /\ v.state = subs[k].state
    <2>1. CASE subs[k].buf # <<>> /\ subs' = [subs EXCEPT ![k].buf = Tail(@)]
        <3>1. PICK b : b = Tail(subs[k].buf)
            BY Zenon
        <3>2. b \in Seq(Nat)
            BY <1>1, <2>1, <3>1 DEF Subscription
        <3>3. subs' = [subs EXCEPT ![k] = [subs[k] EXCEPT !.buf = b]]
            BY <2>1, <3>1, Zenon
        <3>4. /\ [subs[k] EXCEPT !.buf = b] \in Subscription
              /\ [subs[k] EXCEPT !.buf = b].registered = subs[k].registered
              /\ [subs[k] EXCEPT !.buf = b].state = subs[k].state
            BY <1>1, <3>2, Zenon DEF Subscription
        <3> QED BY <3>3, <3>4, Zenon
    <2>2. CASE subs' = [subs EXCEPT ![k].running = FALSE]
        <3>1. subs' = [subs EXCEPT ![k] = [subs[k] EXCEPT !.running = FALSE]]
            BY <2>2, Zenon
        <3>2. /\ [subs[k] EXCEPT !.running = FALSE] \in Subscription
              /\ [subs[k] EXCEPT !.running = FALSE].registered = subs[k].registered
              /\ [subs[k] EXCEPT !.running = FALSE].state = subs[k].state
            BY <1>1, Zenon DEF Subscription
        <3> QED BY <3>1, <3>2, Zenon
    <2> QED BY <2>1, <2>2, Zenon DEF Drain
<1>3. DOMAIN subs' = DOMAIN subs /\ subs' = [i \in DOMAIN subs |-> subs'[i]]
    BY <1>2, Zenon DEF SubsInv
<1>4. \A i \in DOMAIN subs : /\ subs'[i] \in Subscription
                             /\ subs'[i].registered => subs'[i].state = "open"
    BY <1>1, <1>2 DEF SubsInv
<1>5. notified' \in Nat
    BY <1>1, Zenon DEF SubsInv
<1> QED BY <1>3, <1>4, <1>5, SubsPointwise, Zenon

\* removeListenerCh comes before close: a channel that is closed is out of the
\* registry, whichever the loop has reached.
LEMMA CleanUpKeepsSubs == ASSUME SubsInv, NEW c \in Conn, CleanUp(c) PROVE SubsInv'
<1>1. notified' = notified
    BY Zenon DEF CleanUp
<1>2. CASE subs' = subs
    BY <1>1, <1>2, Zenon DEF SubsInv
<1>3. ASSUME NEW k, subs' = [subs EXCEPT ![k] = IF @.state = "open"
                                                THEN [@ EXCEPT !.registered = FALSE, !.state = "removed"]
                                                ELSE [@ EXCEPT !.state = "closed"]]
      PROVE  SubsInv'
    <2>1. PICK v : v = IF subs[k].state = "open"
                       THEN [subs[k] EXCEPT !.registered = FALSE, !.state = "removed"]
                       ELSE [subs[k] EXCEPT !.state = "closed"]
        BY Zenon
    <2>2. subs' = [subs EXCEPT ![k] = v]
        BY <1>3, <2>1, Zenon
    <2>3. k \in DOMAIN subs => v \in Subscription /\ ~v.registered
        <3> SUFFICES ASSUME k \in DOMAIN subs PROVE v \in Subscription /\ ~v.registered
            BY Zenon
        <3>1. subs[k] \in Subscription /\ (subs[k].registered => subs[k].state = "open")
            BY DEF SubsInv
        <3>2. CASE subs[k].state = "open"
            BY <2>1, <3>1, <3>2, Zenon DEF Subscription
        <3>3. CASE subs[k].state # "open"
            <4>1. v = [subs[k] EXCEPT !.state = "closed"] /\ ~subs[k].registered
                BY <2>1, <3>1, <3>3, Zenon
            <4> QED BY <3>1, <4>1, Zenon DEF Subscription
        <3> QED BY <3>2, <3>3, Zenon
    <2>4. DOMAIN subs' = DOMAIN subs /\ subs' = [i \in DOMAIN subs |-> subs'[i]]
        BY <2>2, Zenon DEF SubsInv
    <2>5. \A i \in DOMAIN subs : /\ subs'[i] \in Subscription
                                 /\ subs'[i].registered => subs'[i].state = "open"
        BY <2>2, <2>3 DEF SubsInv
    <2>6. notified' \in Nat
        BY <1>1, Zenon DEF SubsInv
    <2> QED BY <2>4, <2>5, <2>6, SubsPointwise, Zenon
<1> QED BY <1>2, <1>3, Zenon DEF CleanUp

LEMMA PanicInitInv == ConnInit => PanicInv
<1> SUFFICES ASSUME ConnInit PROVE PanicInv
    BY Zenon
<1>1. FiniteInv
    BY FS_EmptySet, Zenon DEF ConnInit, FiniteInv
<1>2. CursorInv /\ SubsInv /\ NoPanic
    BY DEF ConnInit, CursorInv, SubsInv, NoPanic
<1> QED BY <1>1, <1>2, Zenon DEF PanicInv

\* The handlers that leave all of this alone.
Elsewhere ==
    \E c \in Conn : \/ Acknowledged(c) \/ SetGUC(c) \/ Parse(c) \/ Bind(c) \/ Describe(c)
                    \/ CloseNamed(c) \/ Startup(c)

LEMMA ElsewhereKeepsPanic == ASSUME PanicInv, Elsewhere \/ UNCHANGED connVars PROVE PanicInv'
<1>1. UNCHANGED <<db, buf, cursor, subs, notified, panic>>
    BY Zenon DEF Elsewhere, Acknowledged, connVars, txVars, subVars, SetGUC, Parse, Bind, Describe,
                 CloseNamed, Startup
<1> QED BY <1>1, Zenon DEF PanicInv, FiniteInv, CursorInv, SubsInv, NoPanic

LEMMA CursorStepKeepsPanic ==
    ASSUME PanicInv, NEW c \in Conn, Declare(c) \/ CloseCursor(c)
    PROVE  PanicInv'
<1>1. UNCHANGED <<db, buf, subs, notified, panic>>
    BY Zenon DEF Declare, CloseCursor, txVars, subVars
<1>2. CursorInv'
    <2>1. CASE Declare(c)
        <3>1. PICK v : v = [rows |-> Nil, pos |-> 0]
            BY Zenon
        <3>2. v \in [rows : Nat \cup {Nil}, pos : Nat] /\ v.rows = Nil /\ v.pos = 0
            BY <3>1
        <3>3. cursor' = [cursor EXCEPT ![c] = v]
            BY <2>1, <3>1, Zenon DEF Declare
        <3> QED BY <3>2, <3>3, CursorStepKeeps, Zenon DEF PanicInv
    <2>2. CASE CloseCursor(c)
        <3>1. cursor' = [cursor EXCEPT ![c] = Nil]
            BY <2>2, Zenon DEF CloseCursor
        <3> QED BY <3>1, CursorStepKeeps, Zenon DEF PanicInv
    <2> QED BY <2>1, <2>2, Zenon
<1> QED BY <1>1, <1>2, Zenon DEF PanicInv, FiniteInv, SubsInv, NoPanic

LEMMA SubsStepKeepsPanic ==
    ASSUME PanicInv,
           \/ \E c \in Conn : \/ Unlisten(c) \/ CleanUp(c)
                              \/ \E n \in Chan : Listen(c, n) \/ Notify(c, n)
           \/ \E i \in Sub : Drain(i)
    PROVE  PanicInv'
<1>1. SubsInv
    BY Zenon DEF PanicInv
<1>2. SubsInv' /\ UNCHANGED <<txVars, cursor, panic>>
    <2>1. ASSUME NEW c \in Conn, Unlisten(c) \/ CleanUp(c)
          PROVE  SubsInv' /\ UNCHANGED <<txVars, cursor, panic>>
        BY <1>1, <2>1, UnlistenKeepsSubs, CleanUpKeepsSubs, Zenon DEF Unlisten, CleanUp
    <2>2. ASSUME NEW c \in Conn, NEW n \in Chan, Listen(c, n)
          PROVE  SubsInv' /\ UNCHANGED <<txVars, cursor, panic>>
        BY <1>1, <2>2, ListenKeepsSubs, Zenon DEF Listen
    <2>3. ASSUME NEW i \in Sub, Drain(i)
          PROVE  SubsInv' /\ UNCHANGED <<txVars, cursor, panic>>
        BY <1>1, <2>3, DrainKeepsSubs, Zenon DEF Drain
    <2> QED BY <1>1, <2>1, <2>2, <2>3, NotifyKeepsSubs, Zenon
<1>3. UNCHANGED <<db, buf>>
    BY <1>2, Zenon DEF txVars
<1> QED BY <1>2, <1>3, Zenon DEF PanicInv, FiniteInv, CursorInv, NoPanic

\* No NOTIFY sends to a closed channel, and no FETCH slices before its position or
\* past the cursor's rows unless its count is negative, however the connections'
\* statements, subscriptions and clean-ups interleave.
THEOREM ConnectionsDoNotPanic == ConnInit /\ [][ConnNext]_connVars => []NoPanic
<1>1. PanicInv /\ [ConnNext]_connVars => PanicInv'
    <2> SUFFICES ASSUME PanicInv, [ConnNext]_connVars PROVE PanicInv'
        BY Zenon
    <2>1. CASE InTransaction
        <3>1. Commits /\ Buffers /\ UNCHANGED <<cursor, subs, notified, panic>>
            BY <2>1, TransactionGrows, Zenon DEF PanicInv, subVars
        <3>2. FiniteInv'
            BY <3>1, GrowthKeepsFinite, Zenon DEF PanicInv
        <3> QED BY <3>1, <3>2, Zenon DEF PanicInv, CursorInv, SubsInv, NoPanic
    <2>2. CASE Elsewhere \/ UNCHANGED connVars
        BY <2>2, ElsewhereKeepsPanic, Zenon
    <2> QED BY <2>1, <2>2, FetchKeepsPanic, CursorStepKeepsPanic, SubsStepKeepsPanic, Zenon
            DEF ConnNext, InTransaction, Elsewhere
<1>2. PanicInv => NoPanic
    BY Zenon DEF PanicInv
<1> QED BY <1>1, <1>2, PanicInitInv, PTL
===============================================================================
