----------------------------- MODULE KeyManager -----------------------------
(***************************************************************************)
(* The fallback key manager (keymanager/fallback.go): a map of data keys,  *)
(* derived from the master key when first asked for, evicted by a          *)
(* revocation and lost by a restart, and the backups encrypted under them. *)
(* A master key is a number: 0 is the one that is configured, the others   *)
(* are made at random.  A data key is named by what it was derived from;   *)
(* Zero is the value of a Go map where a namespace is missing.             *)
(***************************************************************************)
EXTENDS Naturals, FiniteSets

CONSTANTS
    Worker,     \* goroutines that take or read backups
    Namespace,
    MaxBackups, \* bound on the backups taken
    MaxRandom,  \* bound on the processes that make a master key of their own
    Zero        \* the zero key

VARIABLES
    master,   \* fallbackManager.masterKey of the running process
    random,   \* how many master keys were made at random
    dek,      \* fallbackManager.namespaces: the namespaces with a key
    worker,   \* each worker's call: where it is in getDEK, for which backup
    backups   \* the backups taken: number, namespace, key, the master key at the time,
              \* whether a revocation raced, and how the last read of it ended and under
              \* which master key

kmVars == <<master, random, dek, worker, backups>>

Resting == [at |-> "idle"]

\* A read of the map.
Key(ns) == IF ns \in dek THEN <<master, ns>> ELSE Zero

\* EncryptBackup for a namespace, or DecryptBackup of one of the backups; getDEK
\* reads the map.
Call(w) ==
    /\ worker[w].at = "idle"
    /\ \E ns \in Namespace, op \in {"encrypt", "decrypt"} :
        /\ op = "encrypt" => Cardinality(backups) < MaxBackups
        /\ op = "decrypt" => \E b \in backups : b.ns = ns
        /\ worker' = [worker EXCEPT ![w] =
               IF ns \in dek THEN [at |-> "keyed", op |-> op, ns |-> ns, key |-> Key(ns), raced |-> FALSE]
               ELSE [at |-> "missing", op |-> op, ns |-> ns, raced |-> FALSE]]
    /\ UNCHANGED <<master, random, dek, backups>>

\* ProvisionNamespace: derived, unless it is there by now.
Provision(w) ==
    /\ worker[w].at = "missing"
    /\ dek' = dek \cup {worker[w].ns}
    /\ worker' = [worker EXCEPT ![w].at = "provisioned"]
    /\ UNCHANGED <<master, random, backups>>

\* Variant: what the first read returned is kept.
ReadAgainNot(w) ==
    /\ worker[w].at = "provisioned"
    /\ worker' = [worker EXCEPT ![w] = [at |-> "keyed", op |-> @.op, ns |-> @.ns,
                                        key |-> Zero, raced |-> @.raced]]
    /\ UNCHANGED <<master, random, dek, backups>>

\* The map is read again, whatever became of the entry.
ReadAgain(w) ==
    /\ worker[w].at = "provisioned"
    /\ worker' = [worker EXCEPT ![w] = [at |-> "keyed", op |-> @.op, ns |-> @.ns,
                                        key |-> Key(@.ns), raced |-> @.raced]]
    /\ UNCHANGED <<master, random, dek, backups>>

\* The cipher is made with the key; decrypting fails under any other.
Encrypt(w) ==
    /\ worker[w].at = "keyed" /\ worker[w].op = "encrypt"
    /\ backups' = backups \cup {[n |-> Cardinality(backups), ns |-> worker[w].ns, key |-> worker[w].key,
                                 master |-> master, raced |-> worker[w].raced, read |-> "never", under |-> 0]}
    /\ worker' = [worker EXCEPT ![w] = Resting]
    /\ UNCHANGED <<master, random, dek>>

Decrypt(w) ==
    /\ worker[w].at = "keyed" /\ worker[w].op = "decrypt"
    /\ \E b \in backups :
        /\ b.ns = worker[w].ns
        /\ backups' = (backups \ {b}) \cup {[b EXCEPT !.under = master, !.read =
               IF worker[w].raced THEN "raced" ELSE IF b.key = worker[w].key THEN "ok" ELSE "failed"]}
    /\ worker' = [worker EXCEPT ![w] = Resting]
    /\ UNCHANGED <<master, random, dek>>

\* RevokeNamespace evicts the key.  A call that has provisioned it has yet to read it.
Revoke ==
    \E ns \in dek :
        /\ dek' = dek \ {ns}
        /\ worker' = [w \in Worker |->
               IF worker[w].at = "provisioned" /\ worker[w].ns = ns THEN [worker[w] EXCEPT !.raced = TRUE]
               ELSE worker[w]]
        /\ UNCHANGED <<master, random, backups>>

\* newFallbackManager: with BASUYUDB_KEYMANAGER_MASTER_KEY set that key, without it a
\* random one.
RestartManager ==
    /\ \/ master' = 0 /\ random' = random
       \/ random < MaxRandom /\ random' = random + 1 /\ master' = random'
    /\ dek' = {}
    /\ worker' = [w \in Worker |-> Resting]
    /\ UNCHANGED backups

KMInit ==
    /\ master \in {0, 1} /\ random = master
    /\ dek = {}
    /\ worker = [w \in Worker |-> Resting]
    /\ backups = {}

KMNext ==
    \/ \E w \in Worker : Call(w) \/ Provision(w) \/ ReadAgain(w) \/ Encrypt(w) \/ Decrypt(w)
    \/ Revoke \/ RestartManager

KMSpec == KMInit /\ [][KMNext]_kmVars

(* DecryptBackup reads a backup exactly when the process has the master    *)
(* key under which it was taken: after restarts with the configured key,   *)
(* never after one that made its own (fallback.go's "Restart behaviour").  *)
(* A revocation in between changes nothing, as the key is derived again.   *)
(* It is not claimed where a revocation fell between the two steps of a    *)
(* getDEK, of the backup or of the read: that call used the zero key.      *)
BackupsReadable ==
    \A b \in backups :
        b.read \in {"ok", "failed"} /\ ~b.raced => (b.read = "ok" <=> b.under = b.master)
=============================================================================
