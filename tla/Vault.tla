-------------------------------- MODULE Vault --------------------------------
(***************************************************************************)
(* The secrets vault (backend/fingent/vault.py) over the credentials and   *)
(* vault_meta tables of store.py, as several processes on one store use    *)
(* it without FINGENT_VAULT_KEY: the key is made by whoever finds none.    *)
(*                                                                         *)
(* A ciphertext is the key it was made with; that Fernet decrypts with     *)
(* that key only is all that is kept of it.  One ref per tenant, and no    *)
(* value for it in the environment.                                        *)
(***************************************************************************)
EXTENDS Integers, FiniteSets

CONSTANTS
  Tenants,
  Procs,   \* processes on the store
  Keys,    \* what Fernet.generate_key may return; bound: how many
  NoKey

ASSUME VaultAssumption == NoKey \notin Keys /\ IsFiniteSet(Tenants)

VARIABLES
  vaultKey,     \* vault_meta["vault_key"]
  credentials,  \* the credentials table: the key each ciphertext was made with
  found,        \* what a starting process read from vault_meta
  cipher,       \* self._fernet of each process
  overwritten   \* history: a key was replaced

vaultVars == <<vaultKey, credentials, found, cipher, overwritten>>

VaultTypeOK ==
  /\ vaultKey \in Keys \cup {NoKey}
  /\ credentials \in [Tenants -> Keys \cup {NoKey}]
  /\ found \in [Procs -> Keys \cup {NoKey}]
  /\ cipher \in [Procs -> Keys \cup {NoKey}]
  /\ overwritten \in BOOLEAN

VaultInit ==
  /\ vaultKey = NoKey
  /\ credentials = [w \in Tenants |-> NoKey]
  /\ found = [p \in Procs |-> NoKey]
  /\ cipher = [p \in Procs |-> NoKey]
  /\ overwritten = FALSE

\* The lookup of _init_cipher.
LookUpKey(p) ==
  /\ found' = [found EXCEPT ![p] = vaultKey]
  /\ UNCHANGED <<vaultKey, credentials, cipher, overwritten>>

\* A bug: a new key although one was found.
NewKeyAlways(p) ==
  \E k \in Keys \ {vaultKey} :
    /\ vaultKey' = k
    /\ cipher' = [cipher EXCEPT ![p] = IF found[p] = NoKey THEN k ELSE found[p]]
    /\ overwritten' = (overwritten \/ (found[p] = NoKey /\ vaultKey # NoKey))

\* The rest of _init_cipher: the key that was found, or a new one, stored by an upsert.
NewKey(p) ==
  IF found[p] # NoKey
  THEN /\ cipher' = [cipher EXCEPT ![p] = found[p]]
       /\ UNCHANGED <<vaultKey, overwritten>>
  ELSE \E k \in Keys \ {vaultKey} :
         /\ vaultKey' = k
         /\ cipher' = [cipher EXCEPT ![p] = k]
         /\ overwritten' = (overwritten \/ vaultKey # NoKey)

InitCipher(p) == NewKey(p) /\ UNCHANGED <<credentials, found>>

\* put and delete.
Put(p, tenant) ==
  /\ credentials' = [credentials EXCEPT ![tenant] = cipher[p]]
  /\ UNCHANGED <<vaultKey, found, cipher, overwritten>>

DeleteCredential(tenant) ==
  /\ credentials' = [credentials EXCEPT ![tenant] = NoKey]
  /\ UNCHANGED <<vaultKey, found, cipher, overwritten>>

\* resolve finds a value: not under another key, and not without a ciphertext.
Resolves(p, tenant) == credentials[tenant] # NoKey /\ credentials[tenant] = cipher[p]

ForgetCipher(p) ==
  /\ cipher' = [cipher EXCEPT ![p] = NoKey]
  /\ found' = [found EXCEPT ![p] = NoKey]
  /\ UNCHANGED <<vaultKey, credentials, overwritten>>

\* Unless two processes met an empty store and one replaced the key of the other, every
\* process reads every secret, whichever process stored it and whoever restarted since.
SecretsReadable ==
  ~overwritten =>
    \A p \in Procs : cipher[p] # NoKey =>
      /\ cipher[p] = vaultKey
      /\ \A w \in Tenants : credentials[w] # NoKey => Resolves(p, w)

=============================================================================
