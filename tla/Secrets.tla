------------------------------- MODULE Secrets -------------------------------
(***************************************************************************)
(* The keys of the deployment and what is encrypted with them.  A process  *)
(* keeps the settings it started with; the operator rotates a key in the   *)
(* environment, puts the replaced key among the legacy keys and restarts   *)
(* the processes one by one.                                               *)
(***************************************************************************)
EXTENDS Integers, FiniteSets

CONSTANTS
  Processes,
  MaxKeys,      \* bound: keys ever made
  Unset         \* a setting that is not given

ASSUME UnsetIsNoKey == Unset \notin Nat /\ MaxKeys \in Nat \ {0, 1}

VARIABLES
  environment,  \* the settings a process starts with
  running,      \* the settings each process has loaded
  secrets,      \* the key each secret was encrypted with, and the index of the e-mail
  keysMade

secretsVars == <<environment, running, secrets, keysMade>>

\* A tenant's own LLM key, the authorization of its card, and a user's e-mail, which
\* the column type encrypts.
ContextOf == [llm_key |-> "generic", auth_code |-> "api_key"]
Fernets == DOMAIN ContextOf

SecretsTypeOK ==
  /\ keysMade \in 2..MaxKeys
  /\ \A config \in {environment} \cup {running[p] : p \in Processes} :
       /\ {config.encryption, config.blind} \subseteq 1..keysMade
       /\ config.api \in {Unset} \cup 1..keysMade /\ config.legacy \subseteq 1..keysMade
  /\ secrets \in [Fernets \cup {"email", "email_bidx"} -> {Unset} \cup 1..keysMade]

\* A deployment with one key and a separate key for the index.
SecretsInit ==
  /\ environment = [encryption |-> 1, api |-> Unset, blind |-> 2, legacy |-> {}]
  /\ running = [p \in Processes |-> environment]
  /\ secrets = [s \in Fernets \cup {"email", "email_bidx"} |-> Unset]
  /\ keysMade = 2

-----------------------------------------------------------------------------
\* encrypt_string: the key of the context, or else the general one.
PrimaryKey(config, context) ==
  IF context = "api_key" /\ config.api # Unset THEN config.api ELSE config.encryption

\* Mutant of DecryptionKeys: the primary key alone.
DecryptionKeysPrimary(config, context) == {PrimaryKey(config, context)}

\* decrypt_string: the primary key and the legacy keys are tried.
DecryptionKeys(config, context) == {PrimaryKey(config, context)} \cup config.legacy

\* generate_blind_index
BlindIndexKey(config) == IF config.blind # Unset THEN config.blind ELSE config.encryption

\* An answer of None stands for the secret everywhere it is used.
Decrypts(p, secret) == secrets[secret] \in DecryptionKeys(running[p], ContextOf[secret])

\* The setters of LLMBudget, and the card saved by a webhook.
StoreSecret(p, secret) ==
  /\ secrets' = [secrets EXCEPT ![secret] = PrimaryKey(running[p], ContextOf[secret])]
  /\ UNCHANGED <<environment, running, keysMade>>

\* A user's e-mail is set: the column is encrypted with ENCRYPTION_KEY as it was when
\* the model was imported, and the listener sets the index beside it.
SetEmail(p) ==
  /\ secrets' = [secrets EXCEPT !["email"] = running[p].encryption, !["email_bidx"] = BlindIndexKey(running[p])]
  /\ UNCHANGED <<environment, running, keysMade>>

\* The operator replaces a key, or gives a context a key of its own.
RotateKey(setting) ==
  LET context == IF setting = "api" THEN "api_key" ELSE "generic"
  IN /\ keysMade < MaxKeys /\ keysMade' = keysMade + 1
     /\ environment' = [environment EXCEPT ![setting] = keysMade + 1,
                          !.legacy = @ \cup {PrimaryKey(environment, context)}]
     /\ UNCHANGED <<running, secrets>>

\* get_settings is cached for the life of a process.
RestartProcess(p) ==
  /\ running' = [running EXCEPT ![p] = environment]
  /\ UNCHANGED <<environment, secrets, keysMade>>

SecretsNext ==
  \/ \E p \in Processes : SetEmail(p) \/ RestartProcess(p) \/ \E s \in Fernets : StoreSecret(p, s)
  \/ \E setting \in {"encryption", "api"} : RotateKey(setting)

SecretsSpec == SecretsInit /\ [][SecretsNext]_secretsVars

-----------------------------------------------------------------------------
\* "Key versioning for rotation": whatever was rotated and whichever process stored a
\* secret, one that runs with the current settings reads it, also what processes not
\* yet restarted go on storing (security.py:22-31, 189-214).
RestartedReadsAll ==
  \A p \in Processes, s \in Fernets :
    running[p] = environment /\ secrets[s] # Unset => Decrypts(p, s)

\* A user is found by the index of the e-mail by every process, whenever it started
\* and whichever keys were rotated since, as the index has a key of its own
\* (security.py:217-232, paystack_billing.py:505-513).
EmailIsFound ==
  secrets["email_bidx"] # Unset =>
    \A p \in Processes : BlindIndexKey(running[p]) = secrets["email_bidx"]

\* Nothing is lost to a rotation: neither what was encrypted nor what was indexed.
SecretsInv == RestartedReadsAll /\ EmailIsFound
=============================================================================
