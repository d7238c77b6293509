---------------------------- MODULE MessageTrust ----------------------------
(***************************************************************************)
(* openbrec/messaging.py: messages protected by devices, and one receiver  *)
(* that verifies them in whatever order the bearers bring them, as often   *)
(* as they bring them, intact or not.                                      *)
(*                                                                         *)
(* The receiver knows each device by a binding and by a local cache of     *)
(* revocations; what it has accepted it remembers in a TrustState, which   *)
(* is in memory.  A signature holds when the bytes are those signed, and a *)
(* nonce is a function of the encryption key, the boot and the sequence.   *)
(***************************************************************************)
EXTENDS Integers, Sequences, FiniteSets

CONSTANTS
  Device,      \* each with one binding
  Distress,    \* those whose binding has the role distress_sender
  KeysOf,      \* the encryption keys each binding allows
  ValidUntil,  \* the end of each binding's validity, which begins at 0
  BootId,      \* identifiers of boots
  Forgetful,   \* devices that may boot with an identifier used before
  Revocable,   \* devices that may be revoked
  Ttl,         \* life of a message
  MaxTime, MaxSequence, MaxSent, MaxLives  \* bounds of the instance

Time == 0..MaxTime

ASSUME TrustConstants ==
  /\ Distress \subseteq Device /\ Forgetful \subseteq Device
  /\ Revocable \subseteq Device
  /\ ValidUntil \in [Device -> Time] /\ Ttl \in Nat /\ MaxTime \in Nat
  /\ MaxSequence \in Nat /\ MaxSent \in Nat /\ MaxLives \in Nat

VARIABLES
  now,
  boot,       \* the boot each device is in
  sequence,   \* the sequence of its next message
  booted,     \* boot identifiers in use so far
  sent,       \* the messages protected so far
  revokedAt,  \* the revocations in the local cache
  trust,      \* TrustState
  life,       \* how many times the receiver has started
  accepted    \* what verify_message returned, in this order

device == <<boot, sequence, booted, sent>>
vars == <<now, device, revokedAt, trust, life, accepted>>

Never == MaxTime + 1
NoSequence == -1

Fresh == [ids |-> {}, nonces |-> {},
          sequences |-> [p \in Device \X BootId |-> NoSequence]]

Init ==
  /\ now = 0 /\ life = 1
  /\ boot \in [Device -> BootId]
  /\ \A d, e \in Device : d # e => boot[d] # boot[e]
  /\ booted = {boot[d] : d \in Device}
  /\ sequence = [d \in Device |-> 0] /\ sent = {}
  /\ revokedAt = [d \in Device |-> Never]
  /\ trust = Fresh /\ accepted = <<>>

-----------------------------------------------------------------------------
(* The devices. *)

Nonce(m) == <<m.key, m.boot, m.sequence>>

\* protect_message: the definition names the boot, the sequence and a key of
\* the binding; a message is named by its position among those sent.
Protect(d, type, key) ==
  /\ sequence[d] <= MaxSequence /\ Cardinality(sent) < MaxSent
  /\ sent' = sent \cup
       {[id |-> Cardinality(sent) + 1, device |-> d, boot |-> boot[d], sequence |-> sequence[d],
         key |-> key, type |-> type, created |-> now, expires |-> now + Ttl]}
  /\ sequence' = [sequence EXCEPT ![d] = @ + 1]
  /\ UNCHANGED <<now, boot, booted, revokedAt, trust, life, accepted>>

\* A device starts again, and counts from 0.
Boot(d, b) ==
  /\ b \notin booted \/ d \in Forgetful
  /\ boot' = [boot EXCEPT ![d] = b]
  /\ booted' = booted \cup {b}
  /\ sequence' = [sequence EXCEPT ![d] = 0]
  /\ UNCHANGED <<now, sent, revokedAt, trust, life, accepted>>

-----------------------------------------------------------------------------
(* The receiver. *)

\* The checks of the binding, which do not look at TrustState.
Authorised(m) ==
  /\ m.created <= ValidUntil[m.device]
  /\ m.created < revokedAt[m.device]
  /\ m.type = "sos" => m.device \in Distress

\* Seeded fault: a message is good for a moment after it expires.
ExpiredLate(m) == now > m.expires + 1

Expired(m) == now > m.expires

Last(m) == trust.sequences[<<m.device, m.boot>>]

\* Seeded fault: one sequence per device, whatever its boot.
NewAcrossBoots(m) ==
  /\ m.id \notin trust.ids
  /\ Nonce(m) \notin trust.nonces
  /\ \A b \in BootId : m.sequence > trust.sequences[<<m.device, b>>]

\* The checks against TrustState: replay, nonce reuse, sequence rollback.
New(m) ==
  /\ m.id \notin trust.ids
  /\ Nonce(m) \notin trust.nonces
  /\ Last(m) = NoSequence \/ m.sequence > Last(m)

\* Seeded fault: the sequence is not remembered.
RememberIds(m) ==
  [ids |-> trust.ids \cup {m.id}, nonces |-> trust.nonces \cup {Nonce(m)},
   sequences |-> trust.sequences]

Remember(m) ==
  [ids |-> trust.ids \cup {m.id}, nonces |-> trust.nonces \cup {Nonce(m)},
   sequences |-> [trust.sequences EXCEPT ![<<m.device, m.boot>>] = m.sequence]]

\* verify_message of a copy, intact or spoiled on its way; what fails a
\* check raises and leaves no trace.
Verify(m, intact) ==
  LET good == intact /\ Authorised(m) /\ ~Expired(m) /\ New(m) IN
  /\ trust' = IF good THEN Remember(m) ELSE trust
  /\ accepted' = IF good THEN Append(accepted, [message |-> m, at |-> now, life |-> life])
                 ELSE accepted
  /\ UNCHANGED <<now, device, revokedAt, life>>

\* The process starts with an empty TrustState.
Restart ==
  /\ life < MaxLives
  /\ life' = life + 1 /\ trust' = Fresh
  /\ UNCHANGED <<now, device, revokedAt, accepted>>

\* A revocation reaches the local cache; it may lie in the past.
Revoke(d, t) ==
  /\ d \in Revocable /\ revokedAt[d] = Never /\ t <= now
  /\ revokedAt' = [revokedAt EXCEPT ![d] = t]
  /\ UNCHANGED <<now, device, trust, life, accepted>>

Tick ==
  /\ now < MaxTime /\ now' = now + 1
  /\ UNCHANGED <<device, revokedAt, trust, life, accepted>>

-----------------------------------------------------------------------------
Next ==
  \/ \E d \in Device :
       \/ \E type \in {"sos", "status"}, key \in KeysOf[d] : Protect(d, type, key)
       \/ \E b \in BootId : Boot(d, b)
       \/ \E t \in Time : Revoke(d, t)
  \/ \E m \in sent, intact \in BOOLEAN : Verify(m, intact)
  \/ Restart \/ Tick

Spec == Init /\ [][Next]_vars

-----------------------------------------------------------------------------
Message == [id : 1..MaxSent, device : Device, boot : BootId, sequence : 0..MaxSequence,
            key : UNION {KeysOf[d] : d \in Device}, type : {"sos", "status"},
            created : Time, expires : Nat]

Acceptance == [message : Message, at : Time, life : Nat]

\* Variables have their types.
TypeOK ==
  /\ now \in Time /\ life \in Nat
  /\ boot \in [Device -> BootId] /\ booted \subseteq BootId
  /\ sequence \in [Device -> 0..(MaxSequence + 1)]
  /\ sent \subseteq Message /\ IsFiniteSet(sent)
  /\ revokedAt \in [Device -> 0..Never]
  /\ trust.sequences \in [Device \X BootId -> NoSequence..MaxSequence]
  /\ accepted \in Seq(Acceptance)

\* The acceptances of the current life.
Current == {i \in DOMAIN accepted : accepted[i].life = life}

Said(i) == accepted[i].message

\* TrustState is what the acceptances of this life amount to: every id and
\* every nonce, and for each boot the greatest sequence.
TrustIsHistory ==
  /\ trust.ids = {Said(i).id : i \in Current}
  /\ trust.nonces = {Nonce(Said(i)) : i \in Current}
  /\ \A i \in Current :
       Said(i).sequence <= trust.sequences[<<Said(i).device, Said(i).boot>>]
  /\ \A d \in Device, b \in BootId :
       trust.sequences[<<d, b>>] # NoSequence =>
         \E i \in Current : /\ Said(i).device = d /\ Said(i).boot = b
                           /\ Said(i).sequence = trust.sequences[<<d, b>>]

\* What was accepted had been sent, in an earlier life or in this one, and
\* was in time.
AcceptedWasSent ==
  /\ \A i \in DOMAIN accepted :
       /\ Said(i) \in sent /\ accepted[i].life <= life
       /\ accepted[i].at <= Said(i).expires
  /\ \A i, j \in DOMAIN accepted : i < j => accepted[i].life <= accepted[j].life

\* Messages are named by their position, and their boots are in use.
SentInOrder ==
  \A m \in sent :
    /\ m.id <= Cardinality(sent) /\ m.boot \in booted
    /\ \A n \in sent : m.id = n.id => m = n

\* A device that does not forget is alone in its boot, with others of its
\* kind, and ahead of what it sent in it.
BootsAreFresh ==
  /\ \A d \in Device : boot[d] \in booted
  /\ \A d \in Device \ Forgetful :
    /\ \A e \in Device \ Forgetful : boot[d] = boot[e] => d = e
    /\ \A m \in sent :
         m.boot = boot[d] /\ m.device \notin Forgetful =>
           m.device = d /\ m.sequence < sequence[d]

\* In one life of the receiver no id and no nonce is accepted twice, and what
\* is accepted of one device and boot is accepted in the order in which it
\* was protected, whatever the bearers do (verify_message 299-307).
AcceptanceAdvances ==
  \A i, j \in DOMAIN accepted :
    i < j /\ accepted[i].life = accepted[j].life =>
      /\ Said(i).id # Said(j).id
      /\ Nonce(Said(i)) # Nonce(Said(j))
      /\ <<Said(i).device, Said(i).boot>> = <<Said(j).device, Said(j).boot>> =>
           Said(i).sequence < Said(j).sequence

\* TrustState is in memory.  A message is accepted again only after a
\* restart, and never after it has expired (verify_message 297-300).
ReplayIsBounded ==
  \A i, j \in DOMAIN accepted :
    i < j /\ Said(i) = Said(j) =>
      /\ accepted[i].life < accepted[j].life
      /\ accepted[j].at <= Said(i).expires

\* Nonces repeat only if a device boots with an identifier used before, also
\* when devices share a group key (protect_message 222-230).
NoncesAreUnique ==
  \A m, n \in sent :
    Nonce(m) = Nonce(n) /\ m # n => m.device \in Forgetful \/ n.device \in Forgetful

\* A message that is authentic, authorised and in time is refused only
\* for something accepted in this life from the same boot: itself, one that
\* overtook it, or one of a device that shares the boot's identifier.  So
\* a device that boots anew is heard at once (verify_message 299-307).
LossIsExplained ==
  \A m \in sent :
    Authorised(m) /\ ~Expired(m) /\ ~New(m) =>
      \E i \in Current :
        /\ Said(i).boot = m.boot
        /\ \/ Said(i).device = m.device /\ Said(i).sequence >= m.sequence
           \/ Said(i).device # m.device /\ Nonce(Said(i)) = Nonce(m)

\* The inductive invariant: besides the properties above, how TrustState
\* relates to the acceptances (verify_message 292-318, which changes it only
\* when every check has passed) and boots to what was sent in them.
IInv ==
  /\ TypeOK /\ SentInOrder /\ BootsAreFresh /\ NoncesAreUnique
  /\ AcceptedWasSent /\ TrustIsHistory /\ AcceptanceAdvances
=============================================================================
