------------------------- MODULE KeyRegistryProofs -------------------------
(***************************************************************************)
(* Proofs about KeyRegistry, for any keys, epochs and envelopes.           *)
(***************************************************************************)
EXTENDS KeyRegistry, TLAPS

LEMMA InitInv == Init => IInv
<1> SUFFICES ASSUME Init PROVE IInv
  OBVIOUS
<1>1. /\ entries = [j \in {FirstKey} |-> "active"] /\ activeKeyId = FirstKey /\ epoch = 1
      /\ envelopes = {} /\ minimum = 1 /\ issued = [j \in {FirstKey} |-> 1]
      /\ sealed = {} /\ revoked = {} /\ zeroized = {} /\ forked = FALSE /\ refused = FALSE
  BY DEF Init, Single
<1>2. FirstKey \in KeyId /\ 1 \in 1..MaxEpoch
  BY RegistryConstants
<1>3. TypeOK
  BY <1>1, <1>2 DEF TypeOK, Held, States
<1>4. Consistent(entries, activeKeyId, epoch) /\ Covers(entries)
  BY <1>1 DEF Consistent, Covers, States
<1> QED BY <1>1, <1>3, <1>4 DEF IInv

\* Issuing a further key keeps a registry consistent.
LEMMA IssueKeeps ==
  ASSUME NEW e, NEW a, NEW ep, NEW k,
         Consistent(e, a, ep), k \notin DOMAIN issued,
         DOMAIN issued' = DOMAIN issued \cup {k},
         \A j \in DOMAIN issued : issued'[j] = issued[j]
  PROVE  /\ DOMAIN e \subseteq DOMAIN issued'
         /\ a \in DOMAIN issued' /\ issued'[a] = ep
         /\ \A j \in DOMAIN e :
              e[j] \in States /\ issued'[j] <= ep /\ (e[j] = "active" => j = a)
  BY DEF Consistent

\* Rotation: the new key is the newest, and the history still covers.
LEMMA RotateKeeps ==
  ASSUME IInv, NEW k \in KeyId, NEW e \in 1..MaxEpoch, Rotate(k, e)
  PROVE  IInv'
<1>1. /\ k \notin DOMAIN issued /\ k \notin Held /\ e > epoch /\ ActiveAvailable
      /\ entries' = Rotated(k) /\ activeKeyId' = k /\ epoch' = e
      /\ issued' = [j \in DOMAIN issued \cup {k} |-> IF j = k THEN e ELSE issued[j]]
      /\ UNCHANGED <<envelopes, minimum, sealed, revoked, zeroized, forked, refused>>
  BY DEF Rotate, NeverUsed, Admissible
<1>2. /\ DOMAIN issued' = DOMAIN issued \cup {k} /\ issued'[k] = e
      /\ \A j \in DOMAIN issued : issued'[j] = issued[j]
  BY <1>1
<1>3. /\ DOMAIN entries' = Held \cup {k} /\ entries'[k] = "active"
      /\ \A j \in Held : entries'[j] = IF j = activeKeyId THEN "retired" ELSE entries[j]
  BY <1>1 DEF Rotated
<1>4. epoch \in Int /\ epoch <= e /\ minimum \in Int
  BY <1>1, RegistryConstants DEF IInv, TypeOK
<1>5. TypeOK'
  BY <1>1, <1>2, <1>3 DEF IInv, TypeOK, Held, States
<1>6. Consistent(entries, activeKeyId, epoch)'
  <2>1. ASSUME NEW j \in Held PROVE /\ j \in DOMAIN issued /\ issued[j] \in Int
                                    /\ issued[j] <= e /\ entries'[j] \in States
                                    /\ entries'[j] # "active"
    BY <1>3, <1>4 DEF IInv, TypeOK, Consistent, Held, States
  <2> QED BY <1>1, <1>2, <1>3, <2>1 DEF Consistent, States
<1>7. Covers(entries)' \/ forked'
  <2>1. ASSUME ~forked, NEW j \in DOMAIN issued
        PROVE  (j \in DOMAIN entries' /\ entries'[j] \in {"active", "retired"})
               \/ j \in revoked \cup zeroized
    BY <1>3, <2>1 DEF IInv, Covers, Held
  <2> QED BY <1>1, <1>2, <1>3, <2>1 DEF Covers
<1>8. ASSUME NEW b \in envelopes
      PROVE  /\ Consistent(b.entries, b.activeKeyId, b.epoch)'
             /\ ~forked => b.epoch < e
  <2>1. Consistent(b.entries, b.activeKeyId, b.epoch) /\ (~forked => b.epoch <= epoch)
    BY DEF IInv
  <2>2. b.epoch \in Int
    BY <2>1 DEF IInv, TypeOK, Consistent
  <2> QED BY <1>1, <1>2, <1>4, <2>1, <2>2, IssueKeeps DEF Consistent
<1>9. \A b \in envelopes : b.epoch \in Int
  BY DEF IInv, TypeOK, Consistent
<1> QED BY <1>1, <1>4, <1>5, <1>6, <1>7, <1>8, <1>9 DEF IInv

\* Revocation and zeroization only take a key away, and say so.
LEMMA RemovalKeeps ==
  ASSUME IInv, NEW k \in KeyId, Revoke(k) \/ Zeroize(k)
  PROVE  IInv'
<1>1. /\ k \in Held /\ revoked \subseteq revoked' /\ zeroized \subseteq zeroized'
      /\ revoked' \subseteq revoked \cup {k} /\ zeroized' \subseteq zeroized \cup {k}
      /\ k \in revoked' \cup zeroized'
      /\ DOMAIN entries' \subseteq Held
      /\ \A j \in DOMAIN entries' :
           IF j = k THEN entries'[j] = "revoked" ELSE entries'[j] = entries[j]
      /\ Held \ {k} \subseteq DOMAIN entries'
      /\ UNCHANGED <<activeKeyId, epoch, envelopes, minimum, issued, sealed, forked, refused>>
  BY DEF Revoke, Zeroize, Held
<1>2. TypeOK'
  BY <1>1 DEF IInv, TypeOK, Held, States
<1>3. Consistent(entries, activeKeyId, epoch)'
  BY <1>1 DEF IInv, Consistent, Held, States
<1>4. Covers(entries)' \/ forked
  BY <1>1 DEF IInv, Covers, Held
<1>5. ASSUME NEW b \in envelopes
      PROVE  /\ Consistent(b.entries, b.activeKeyId, b.epoch)'
             /\ ~forked => b.epoch <= epoch /\ (b.epoch = epoch => Covers(b.entries)')
  BY <1>1 DEF IInv, Consistent, Covers
<1> QED BY <1>1, <1>2, <1>3, <1>4, <1>5 DEF IInv

\* The other operations replace the registry, or leave it.
LEMMA ReplacementKeeps ==
  ASSUME IInv,
         \/ \E k \in KeyId : Start(k)
         \/ \E b \in envelopes : Recover(b)
         \/ Seal \/ Export \/ Persist
         \/ \E k \in KeyId, e \in 1..MaxEpoch : RefuseRotation(k, e)
         \/ UNCHANGED vars
  PROVE  IInv'
<1>1. ASSUME NEW k \in KeyId, Start(k) PROVE IInv'
  <2>1. /\ k \in DOMAIN issued /\ entries' = [j \in {k} |-> "active"]
        /\ activeKeyId' = k /\ epoch' = issued[k] /\ forked'
        /\ "stale" \notin Starts => \A j \in DOMAIN issued : issued[j] <= issued[k]
        /\ UNCHANGED <<envelopes, minimum, issued, sealed, revoked, zeroized, refused>>
    BY <1>1 DEF Start, Single
  <2>2. "stale" \notin Starts => minimum <= epoch'
    BY <2>1 DEF IInv, TypeOK, Consistent
  <2>3. TypeOK'
    BY <2>1 DEF IInv, TypeOK, Held, States
  <2>4. Consistent(entries, activeKeyId, epoch)'
    BY <2>1 DEF IInv, TypeOK, Consistent, States
  <2> QED BY <2>1, <2>2, <2>3, <2>4 DEF IInv, Consistent
<1>2. ASSUME NEW b \in envelopes, Recover(b) PROVE IInv'
  <2>1. /\ b.epoch >= minimum /\ b.activeKeyId \in DOMAIN b.entries
        /\ entries' = b.entries /\ activeKeyId' = b.activeKeyId /\ epoch' = b.epoch
        /\ forked' = (forked \/ b.epoch < epoch)
        /\ UNCHANGED <<envelopes, minimum, issued, sealed, revoked, zeroized, refused>>
    BY <1>2 DEF Recover
  <2>2. /\ Consistent(b.entries, b.activeKeyId, b.epoch)
        /\ ~forked => b.epoch <= epoch /\ (b.epoch = epoch => Covers(b.entries))
        /\ b.epoch \in 1..MaxEpoch /\ epoch \in Int /\ minimum \in Int
        /\ forked \in BOOLEAN
    BY RegistryConstants DEF IInv, TypeOK, Consistent
  <2>3. TypeOK'
    BY <2>1, <2>2 DEF IInv, TypeOK, Consistent, Held
  <2>4. ~forked' => ~forked /\ epoch' = epoch
    <3>1. CASE b.epoch < epoch
      BY <2>1, <3>1
    <3>2. CASE ~(b.epoch < epoch)
      BY <2>1, <2>2, <3>2
    <3> QED BY <3>1, <3>2
  <2>5. ~forked' => Covers(entries)'
    BY <2>1, <2>2, <2>4 DEF Covers
  <2> QED BY <2>1, <2>2, <2>3, <2>4, <2>5 DEF IInv, Consistent, Covers
<1>3. ASSUME Seal PROVE IInv'
  BY <1>3 DEF Seal, ActiveAvailable, registry, IInv, TypeOK, Consistent, Covers, Held
<1>4. ASSUME Export PROVE IInv'
  <2>1. /\ envelopes' = envelopes \cup
             {[entries |-> entries, activeKeyId |-> activeKeyId, epoch |-> epoch]}
        /\ UNCHANGED <<registry, minimum, history>>
    BY <1>4 DEF Export
  <2>2. epoch \in Int
    BY RegistryConstants DEF IInv, TypeOK
  <2> QED BY <2>1, <2>2 DEF registry, history, IInv, TypeOK, Consistent, Covers, Held
<1>5. ASSUME Persist PROVE IInv'
  BY <1>5 DEF Persist, registry, history, IInv, TypeOK, Consistent, Covers, Held
<1>6. ASSUME NEW k \in KeyId, NEW e \in 1..MaxEpoch, RefuseRotation(k, e) PROVE IInv'
  BY <1>6 DEF RefuseRotation, registry, IInv, TypeOK, Consistent, Covers, Held
<1>7. ASSUME UNCHANGED vars PROVE IInv'
  BY <1>7 DEF vars, registry, history, IInv, TypeOK, Consistent, Covers, Held
<1> QED BY <1>1, <1>2, <1>3, <1>4, <1>5, <1>6, <1>7

LEMMA NextKeeps == IInv /\ [Next]_vars => IInv'
  BY RotateKeeps, RemovalKeeps, ReplacementKeeps DEF Next

\* The registry and its envelopes stay consistent under every operation of
\* keyring.py, in any order.
THEOREM Inductive == Spec => []IInv
<1>1. Init => IInv
  BY InitInv
<1>2. IInv /\ [Next]_vars => IInv'
  BY NextKeeps
<1> QED BY <1>1, <1>2, PTL DEF Spec

\* At most one key encrypts, the newest one: rotate retires its predecessor,
\* and no recovery or start brings a second one.
THEOREM OneKeyActive == Spec => []OneActiveKey
<1>1. IInv => OneActiveKey
  BY DEF IInv, Consistent, OneActiveKey, Held
<1> QED BY <1>1, Inductive, PTL

\* If processes start from the current secret only, no key older than the
\* custodian's minimum epoch encrypts.
THEOREM RollbackIsRefused ==
  ASSUME "stale" \notin Starts
  PROVE  Spec => []NoRollback
<1>1. IInv => NoRollback
  BY DEF IInv, TypeOK, Consistent, NoRollback, ActiveAvailable, Held
<1> QED BY <1>1, Inductive, PTL

\* Until the history forks, no rotation, export or recovery loses a key that
\* evidence was sealed under.
THEOREM EvidenceStaysReadable == Spec => []SealedIsReadable
<1>1. IInv => SealedIsReadable
  BY DEF IInv, TypeOK, Covers, SealedIsReadable, Resolvable, Held
<1> QED BY <1>1, Inductive, PTL

=============================================================================
