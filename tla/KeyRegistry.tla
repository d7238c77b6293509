----------------------------- MODULE KeyRegistry -----------------------------
(***************************************************************************)
(* openbrec/keyring.py: the in-memory registry of laboratory keys, with    *)
(* the recovery envelopes exported from it, the custodian's minimum epoch  *)
(* (an authority outside the process) and the start of a process from its  *)
(* secret file.  The cryptography is abstracted: an envelope is the        *)
(* registry it was exported from, and recover either authenticates it or   *)
(* changes nothing.                                                        *)
(***************************************************************************)
EXTENDS Integers, FiniteSets

CONSTANTS
  KeyId,      \* key ids, first the one of the commissioned secret
  FirstKey,
  MaxEpoch,   \* bound: epochs are 1..MaxEpoch
  MaxEnvelopes, \* bound: envelopes exported
  Starts      \* how a process may start: subset of {"current", "stale"}

ASSUME RegistryConstants ==
  /\ FirstKey \in KeyId /\ MaxEpoch \in Nat \ {0} /\ MaxEnvelopes \in Nat
  /\ Starts \subseteq {"current", "stale"}

VARIABLES
  entries,      \* the registry: state of each key it holds
  activeKeyId,
  epoch,
  envelopes,    \* the recovery envelopes in existence
  minimum,      \* the custodian's minimum epoch
  issued,       \* the keys generated so far, with their epoch
  sealed,       \* keys under which evidence was sealed
  revoked,      \* keys that were ever revoked
  zeroized,     \* keys that were ever zeroized
  forked,       \* a process started, or recovered an epoch older than its own
  refused       \* a rotation to a new key and a higher epoch was refused

registry == <<entries, activeKeyId, epoch>>
history == <<issued, sealed, revoked, zeroized, forked, refused>>
vars == <<registry, envelopes, minimum, history>>

Held == DOMAIN entries

Single(k) == [j \in {k} |-> "active"]

Init ==
  /\ entries = Single(FirstKey) /\ activeKeyId = FirstKey /\ epoch = 1
  /\ envelopes = {} /\ minimum = 1
  /\ issued = [j \in {FirstKey} |-> 1]
  /\ sealed = {} /\ revoked = {} /\ zeroized = {}
  /\ forked = FALSE /\ refused = FALSE

ActiveAvailable == activeKeyId \in Held /\ entries[activeKeyId] = "active"

Resolvable(k) == k \in Held /\ entries[k] \in {"active", "retired"}

-----------------------------------------------------------------------------
\* The operator of the custody procedure gives a new key a key_id that was
\* never used; rotate itself checks only the registry and the epoch.
NeverUsed(k) == k \notin DOMAIN issued

Admissible(k, e) == k \notin Held /\ e > epoch

\* Seeded fault: the previous key is dropped.
RotatedAlone(k) == Single(k)

Rotated(k) ==
  [j \in Held \cup {k} |->
     IF j = k THEN "active" ELSE IF j = activeKeyId THEN "retired" ELSE entries[j]]

Rotate(k, e) ==
  /\ NeverUsed(k)
  /\ Admissible(k, e)
  /\ ActiveAvailable
  /\ entries' = Rotated(k)
  /\ activeKeyId' = k /\ epoch' = e
  /\ issued' = [j \in DOMAIN issued \cup {k} |-> IF j = k THEN e ELSE issued[j]]
  /\ UNCHANGED <<envelopes, minimum, sealed, revoked, zeroized, forked, refused>>

\* KeyUnavailable: cannot rotate without an active key.
RefuseRotation(k, e) ==
  /\ NeverUsed(k)
  /\ Admissible(k, e)
  /\ ~ActiveAvailable
  /\ refused' = TRUE
  /\ UNCHANGED <<registry, envelopes, minimum, issued, sealed, revoked, zeroized, forked>>

Revoke(k) ==
  /\ k \in Held
  /\ entries' = [entries EXCEPT ![k] = "revoked"]
  /\ revoked' = revoked \cup {k}
  /\ UNCHANGED <<activeKeyId, epoch, envelopes, minimum, issued, sealed, zeroized, forked, refused>>

\* The entry is removed; active_key_id keeps naming it.
Zeroize(k) ==
  /\ k \in Held
  /\ entries' = [j \in Held \ {k} |-> entries[j]]
  /\ zeroized' = zeroized \cup {k}
  /\ UNCHANGED <<activeKeyId, epoch, envelopes, minimum, issued, sealed, revoked, forked, refused>>

\* active_key, by a store that encrypts evidence.
Seal ==
  /\ ActiveAvailable
  /\ sealed' = sealed \cup {activeKeyId}
  /\ UNCHANGED <<registry, envelopes, minimum, issued, revoked, zeroized, forked, refused>>

Export ==
  /\ Cardinality(envelopes) < MaxEnvelopes
  /\ envelopes' = envelopes \cup
       {[entries |-> entries, activeKeyId |-> activeKeyId, epoch |-> epoch]}
  /\ UNCHANGED <<registry, minimum, history>>

\* Seeded fault: the minimum is not compared.
RecoverAny(b) ==
  /\ b.activeKeyId \in DOMAIN b.entries
  /\ entries' = b.entries /\ activeKeyId' = b.activeKeyId /\ epoch' = b.epoch
  /\ forked' = (forked \/ b.epoch < epoch)
  /\ UNCHANGED <<envelopes, minimum, issued, sealed, revoked, zeroized, refused>>

\* recover, with the custodian's minimum: a registry is built unless the
\* epoch is older or the active key is missing from the envelope.
Recover(b) ==
  /\ b.epoch >= minimum
  /\ b.activeKeyId \in DOMAIN b.entries
  /\ entries' = b.entries /\ activeKeyId' = b.activeKeyId /\ epoch' = b.epoch
  /\ forked' = (forked \/ b.epoch < epoch)
  /\ UNCHANGED <<envelopes, minimum, issued, sealed, revoked, zeroized, refused>>

\* The custodian hears of the rotation, at once or later.
Persist ==
  /\ minimum < epoch
  /\ minimum' = epoch
  /\ UNCHANGED <<registry, envelopes, history>>

\* from_environment: KeyRegistry.single on the secret file's key and the
\* configured epoch; the minimum is not consulted.
Start(k) ==
  /\ k \in DOMAIN issued
  /\ \/ "current" \in Starts /\ \A j \in DOMAIN issued : issued[j] <= issued[k]
     \/ "stale" \in Starts
  /\ entries' = Single(k) /\ activeKeyId' = k /\ epoch' = issued[k]
  /\ forked' = TRUE
  /\ UNCHANGED <<envelopes, minimum, issued, sealed, revoked, zeroized, refused>>

-----------------------------------------------------------------------------
Next ==
  \/ \E k \in KeyId, e \in 1..MaxEpoch : Rotate(k, e) \/ RefuseRotation(k, e)
  \/ \E k \in KeyId : Revoke(k) \/ Zeroize(k) \/ Start(k)
  \/ \E b \in envelopes : Recover(b)
  \/ Seal \/ Export \/ Persist

Spec == Init /\ [][Next]_vars

-----------------------------------------------------------------------------
(* Properties. *)

States == {"active", "retired", "revoked"}

\* Types: what the registry holds was issued, at an epoch up to its own.
TypeOK ==
  /\ Held \subseteq DOMAIN issued /\ \A k \in Held : entries[k] \in States
  /\ activeKeyId \in DOMAIN issued /\ epoch \in 1..MaxEpoch /\ minimum \in 1..MaxEpoch
  /\ DOMAIN issued \subseteq KeyId /\ \A k \in DOMAIN issued : issued[k] \in 1..MaxEpoch
  /\ sealed \subseteq DOMAIN issued /\ revoked \subseteq DOMAIN issued
  /\ zeroized \subseteq DOMAIN issued /\ forked \in BOOLEAN /\ refused \in BOOLEAN

\* One key at most can encrypt, the one active_key_id names, through every
\* rotation and recovery; it is the newest the registry holds.
OneActiveKey ==
  \A k \in Held :
    entries[k] = "active" => k = activeKeyId /\ issued[k] = epoch
                             /\ \A j \in Held : issued[j] <= issued[k]

\* Once the custodian knows of an epoch, no key of an older one encrypts:
\* no envelope exported before the rotation brings the old key back.
NoRollback == ActiveAvailable => issued[activeKeyId] >= minimum

\* Evidence stays readable through every rotation, export and recovery of the
\* present epoch: no key it was sealed under is lost, unless it was revoked or
\* zeroized.  (A process started from its secret has that key alone, and a
\* recovery of an older epoch lacks the keys rotated to since.)
SealedIsReadable ==
  ~forked => \A k \in sealed : Resolvable(k) \/ k \in revoked \cup zeroized

\* A revoked key neither encrypts nor decrypts.
RevokedStaysRevoked == \A k \in revoked : ~Resolvable(k)

\* After a loss the key is revoked and rotated: a rotation to a new key with
\* a higher epoch is not refused.
RotationIsNotRefused == ~refused

-----------------------------------------------------------------------------
(* The inductive invariant behind the first four properties. *)

\* A registry, in memory or in an envelope: the active key, if it has one, is
\* the one named and the newest.
Consistent(e, active, ep) ==
  /\ DOMAIN e \subseteq DOMAIN issued
  /\ active \in DOMAIN issued /\ issued[active] = ep
  /\ \A k \in DOMAIN e :
       e[k] \in States /\ issued[k] <= ep /\ (e[k] = "active" => k = active)

\* Every key ever issued is there, but for those revoked or zeroized.
Covers(e) ==
  \A k \in DOMAIN issued :
    (k \in DOMAIN e /\ e[k] \in {"active", "retired"}) \/ k \in revoked \cup zeroized

\* The registry and the envelopes are consistent; as long as the history has
\* not forked, no envelope is ahead of the registry, and it covers what was
\* issued, as do the envelopes of its own epoch.
IInv ==
  /\ TypeOK
  /\ Consistent(entries, activeKeyId, epoch)
  /\ ~forked => Covers(entries)
  /\ "stale" \notin Starts => minimum <= epoch
  /\ \A b \in envelopes :
       /\ Consistent(b.entries, b.activeKeyId, b.epoch)
       /\ ~forked => b.epoch <= epoch /\ (b.epoch = epoch => Covers(b.entries))

=============================================================================
