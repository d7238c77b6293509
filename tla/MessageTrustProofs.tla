-------------------------- MODULE MessageTrustProofs --------------------------
(***************************************************************************)
(* Theorems about MessageTrust, for any devices, keys, boots and lives of  *)
(* the receiver.                                                           *)
(***************************************************************************)
EXTENDS MessageTrust, FiniteSetTheorems, TLAPS

\* What protect_message returns.
Protected(d, type, key) ==
  [id |-> Cardinality(sent) + 1, device |-> d, boot |-> boot[d], sequence |-> sequence[d],
   key |-> key, type |-> type, created |-> now, expires |-> now + Ttl]

\* The checks of verify_message passed.
Good(m, intact) == intact /\ Authorised(m) /\ ~Expired(m) /\ New(m)

\* The initial state satisfies the inductive invariant.
LEMMA Starts == ASSUME TrustConstants PROVE Init => IInv
<1> SUFFICES ASSUME Init PROVE IInv
  OBVIOUS
<1> USE DEF Init
<1>1. TypeOK
  <2>1. sent \subseteq Message /\ IsFiniteSet(sent)
    BY FS_EmptySet
  <2>2. trust.sequences \in [Device \X BootId -> NoSequence..MaxSequence]
    BY DEF Fresh, NoSequence, TrustConstants
  <2>3. booted \subseteq BootId
    OBVIOUS
  <2> QED BY <2>1, <2>2, <2>3 DEF TypeOK, TrustConstants, Time, Never
<1>2. SentInOrder /\ BootsAreFresh /\ NoncesAreUnique
  BY DEF SentInOrder, BootsAreFresh, NoncesAreUnique
<1>3. AcceptedWasSent /\ AcceptanceAdvances
  BY DEF AcceptedWasSent, AcceptanceAdvances
<1>4. TrustIsHistory
  BY DEF TrustIsHistory, Current, Fresh, NoSequence
<1> QED BY <1>1, <1>2, <1>3, <1>4 DEF IInv

\* Protecting a message keeps the invariant: its id is new, and so is the
\* nonce of a device that does not forget.
LEMMA ProtectKeeps ==
  ASSUME TrustConstants, IInv, NEW d \in Device, NEW type \in {"sos", "status"},
         NEW key \in KeysOf[d], Protect(d, type, key)
  PROVE  IInv'
<1> DEFINE m == Protected(d, type, key)
<1>1. /\ sent' = sent \cup {m} /\ sequence' = [sequence EXCEPT ![d] = @ + 1]
      /\ sequence[d] <= MaxSequence /\ Cardinality(sent) < MaxSent
      /\ UNCHANGED <<now, boot, booted, revokedAt, trust, life, accepted>>
  BY DEF Protect, Protected
<1>2. TypeOK /\ SentInOrder /\ BootsAreFresh /\ NoncesAreUnique /\ AcceptedWasSent
      /\ TrustIsHistory /\ AcceptanceAdvances
  BY DEF IInv
<1>3. Cardinality(sent) \in Nat
  BY <1>2, FS_CardinalityType DEF TypeOK
<1>4. /\ m.id = Cardinality(sent) + 1 /\ m.device = d /\ m.boot = boot[d]
      /\ m.sequence = sequence[d] /\ m.key = key
  BY DEF Protected
<1>5. m \in Message
  <2>1. sequence[d] \in 0..MaxSequence
    BY <1>1, <1>2 DEF TypeOK, TrustConstants
  <2>2. key \in UNION {KeysOf[e] : e \in Device}
    OBVIOUS
  <2>3. now \in Time /\ now + Ttl \in Nat
    BY <1>2 DEF TypeOK, TrustConstants, Time
  <2>4. Cardinality(sent) + 1 \in 1..MaxSent
    BY <1>1, <1>3 DEF TrustConstants
  <2>5. boot[d] \in BootId
    BY <1>2 DEF TypeOK
  <2> QED BY <2>1, <2>2, <2>3, <2>4, <2>5 DEF Protected, Message
<1>6. m \notin sent
  BY <1>2, <1>3, <1>4 DEF SentInOrder, TypeOK, Message
<1>7. IsFiniteSet(sent') /\ Cardinality(sent') = Cardinality(sent) + 1
  BY <1>1, <1>2, <1>6, FS_AddElement DEF TypeOK
<1> HIDE DEF m
<1>8. TypeOK'
  <2>1. sequence' \in [Device -> 0..(MaxSequence + 1)]
    BY <1>1, <1>2 DEF TypeOK, TrustConstants
  <2> QED BY <1>1, <1>2, <1>5, <1>7, <2>1 DEF TypeOK
<1>9. SentInOrder'
  <2>1. \A n \in sent : n.id \in Nat /\ n.id <= Cardinality(sent)
    BY <1>2 DEF SentInOrder, TypeOK, Message
  <2>2. m.boot \in booted
    BY <1>2, <1>4 DEF BootsAreFresh
  <2>3. \A n \in sent' : n.id <= Cardinality(sent') /\ n.boot \in booted'
    BY <1>1, <1>2, <1>3, <1>4, <1>7, <2>1, <2>2 DEF SentInOrder
  <2>4. \A k, n \in sent' : k.id = n.id => k = n
    BY <1>1, <1>2, <1>3, <1>4, <2>1 DEF SentInOrder
  <2> QED BY <2>3, <2>4 DEF SentInOrder
<1>10. BootsAreFresh'
  BY <1>1, <1>2, <1>4 DEF BootsAreFresh, TypeOK, Message, TrustConstants
<1>11. NoncesAreUnique'
  BY <1>1, <1>2, <1>4 DEF NoncesAreUnique, Nonce, BootsAreFresh, TypeOK, Message
<1>12. AcceptedWasSent' /\ AcceptanceAdvances' /\ TrustIsHistory'
  BY <1>1, <1>2 DEF AcceptedWasSent, AcceptanceAdvances, TrustIsHistory, Current, Said, Nonce
<1> QED BY <1>8, <1>9, <1>10, <1>11, <1>12 DEF IInv

\* A boot keeps the invariant.
LEMMA BootKeeps ==
  ASSUME TrustConstants, IInv, NEW d \in Device, NEW b \in BootId, Boot(d, b)
  PROVE  IInv'
<1>1. /\ b \notin booted \/ d \in Forgetful
      /\ boot' = [boot EXCEPT ![d] = b] /\ booted' = booted \cup {b}
      /\ sequence' = [sequence EXCEPT ![d] = 0]
      /\ UNCHANGED <<now, sent, revokedAt, trust, life, accepted>>
  BY DEF Boot
<1>2. TypeOK /\ SentInOrder /\ BootsAreFresh /\ NoncesAreUnique /\ AcceptedWasSent
      /\ TrustIsHistory /\ AcceptanceAdvances
  BY DEF IInv
<1>3. TypeOK'
  BY <1>1, <1>2 DEF TypeOK, TrustConstants
<1>4. SentInOrder' /\ NoncesAreUnique'
  BY <1>1, <1>2 DEF SentInOrder, NoncesAreUnique, Nonce
<1>5. BootsAreFresh'
  <2>0. \A c \in Device : boot'[c] \in booted'
    BY <1>1, <1>2 DEF BootsAreFresh, TypeOK
  <2> SUFFICES ASSUME NEW c \in Device \ Forgetful
               PROVE  /\ \A e \in Device \ Forgetful : boot'[c] = boot'[e] => c = e
                      /\ \A m \in sent' :
                           m.boot = boot'[c] /\ m.device \notin Forgetful =>
                             m.device = c /\ m.sequence < sequence'[c]
    BY <2>0 DEF BootsAreFresh
  <2>1. CASE d \in Forgetful
    BY <1>1, <1>2, <2>1 DEF BootsAreFresh, TypeOK
  <2>2. CASE d \notin Forgetful /\ c = d
    BY <1>1, <1>2, <2>2 DEF BootsAreFresh, SentInOrder, TypeOK
  <2>3. CASE d \notin Forgetful /\ c # d
    BY <1>1, <1>2, <2>3 DEF BootsAreFresh, SentInOrder, TypeOK
  <2> QED BY <2>1, <2>2, <2>3
<1>6. AcceptedWasSent' /\ AcceptanceAdvances' /\ TrustIsHistory'
  BY <1>1, <1>2 DEF AcceptedWasSent, AcceptanceAdvances, TrustIsHistory, Current, Said, Nonce
<1> QED BY <1>3, <1>4, <1>5, <1>6 DEF IInv

\* verify_message keeps the invariant: the acceptance is the last one, and
\* TrustState learns of it and of nothing else.
LEMMA VerifyKeeps ==
  ASSUME TrustConstants, IInv, NEW m \in sent, NEW intact \in BOOLEAN, Verify(m, intact)
  PROVE  IInv'
<1> DEFINE x == [message |-> m, at |-> now, life |-> life]
<1>0. PICK n : n = Len(accepted) + 1
  OBVIOUS
<1>1. TypeOK /\ SentInOrder /\ BootsAreFresh /\ NoncesAreUnique /\ AcceptedWasSent
      /\ TrustIsHistory /\ AcceptanceAdvances
  BY DEF IInv
<1>2. UNCHANGED <<now, boot, sequence, booted, sent, revokedAt, life>>
  BY DEF Verify, device
<1>3. SentInOrder' /\ BootsAreFresh' /\ NoncesAreUnique'
  BY <1>1, <1>2 DEF SentInOrder, BootsAreFresh, NoncesAreUnique, Nonce
<1>4. CASE ~Good(m, intact)
  <2>1. UNCHANGED <<trust, accepted>>
    BY <1>4 DEF Verify, Good
  <2>2. TypeOK' /\ AcceptedWasSent' /\ AcceptanceAdvances' /\ TrustIsHistory'
    BY <1>1, <1>2, <2>1
       DEF TypeOK, AcceptedWasSent, AcceptanceAdvances, TrustIsHistory, Current, Said, Nonce
  <2> QED BY <1>3, <2>2 DEF IInv
<1>5. CASE Good(m, intact)
  <2>1. trust' = Remember(m) /\ accepted' = Append(accepted, x) /\ New(m) /\ ~Expired(m)
    BY <1>5 DEF Verify, Good
  <2>2. /\ m \in Message /\ m.device \in Device /\ m.boot \in BootId
        /\ m.sequence \in 0..MaxSequence
    BY <1>1 DEF TypeOK, Message
  <2>3. /\ trust'.ids = trust.ids \cup {m.id}
        /\ trust'.nonces = trust.nonces \cup {Nonce(m)}
        /\ trust'.sequences = [trust.sequences EXCEPT ![<<m.device, m.boot>>] = m.sequence]
    BY <2>1 DEF Remember
  <2>4. /\ DOMAIN accepted = 1..Len(accepted) /\ Len(accepted) \in Nat
        /\ DOMAIN accepted' = 1..n /\ accepted'[n] = x /\ x \in Acceptance
        /\ \A i \in DOMAIN accepted : accepted'[i] = accepted[i] /\ i \in DOMAIN accepted' /\ i < n
        /\ \A i \in DOMAIN accepted' : i \in DOMAIN accepted \/ i = n
    <3>1. accepted \in Seq(Acceptance)
      BY <1>1 DEF TypeOK
    <3>2. x \in Acceptance
      BY <1>1, <2>2 DEF TypeOK, Acceptance
    <3> QED BY <1>0, <2>1, <3>1, <3>2
  <2>5. x.message = m /\ x.at = now /\ x.life = life
    OBVIOUS
  <2> HIDE DEF x
  <2>6. TypeOK'
    <3>1. trust'.sequences \in [Device \X BootId -> NoSequence..MaxSequence]
      BY <1>1, <2>2, <2>3 DEF TypeOK, NoSequence, TrustConstants
    <3>2. accepted' \in Seq(Acceptance)
      BY <1>1, <2>1, <2>4 DEF TypeOK
    <3> QED BY <1>1, <1>2, <3>1, <3>2 DEF TypeOK
  <2>7. AcceptedWasSent'
    <3>1. now \in Nat /\ m.expires \in Nat /\ now <= m.expires
      BY <1>1, <2>1, <2>2 DEF TypeOK, Time, TrustConstants, Expired, Message
    <3>2. life \in Nat
      BY <1>1 DEF TypeOK
    <3>3. \A i \in DOMAIN accepted' :
            /\ accepted'[i].message \in sent /\ accepted'[i].life <= life
            /\ accepted'[i].at <= accepted'[i].message.expires
      BY <1>1, <2>4, <2>5, <3>1, <3>2 DEF AcceptedWasSent, Said
    <3>4. \A i, j \in DOMAIN accepted' : i < j => accepted'[i].life <= accepted'[j].life
      BY <1>1, <2>4, <2>5, <3>2 DEF AcceptedWasSent
    <3> QED BY <1>2, <3>3, <3>4 DEF AcceptedWasSent, Said
  <2>8. Current' = Current \cup {n}
    <3>1. \A i \in DOMAIN accepted' :
            accepted'[i].life = life <=> i \in Current \/ i = n
      BY <2>4, <2>5 DEF Current
    <3>2. Current' = {i \in DOMAIN accepted' : accepted'[i].life = life}
      BY <1>2 DEF Current
    <3>3. Current \cup {n} \subseteq DOMAIN accepted'
      BY <1>0, <2>4 DEF Current
    <3> QED BY <3>1, <3>2, <3>3
  <2>9. \A i \in Current : Said(i)' = Said(i)
    BY <2>4 DEF Current, Said
  <2>10. Said(n)' = m
    BY <2>4, <2>5 DEF Said
  <2>11. \A i \in Current : i \in DOMAIN accepted
    BY DEF Current
  <2>12. \A i \in DOMAIN accepted : Said(i) \in Message
    BY <1>1 DEF AcceptedWasSent, TypeOK
  <2>13. \A i \in Current :
           /\ Said(i).id # m.id /\ Nonce(Said(i)) # Nonce(m)
           /\ <<Said(i).device, Said(i).boot>> = <<m.device, m.boot>> =>
                Said(i).sequence < m.sequence
    <3> SUFFICES ASSUME NEW i \in Current
                 PROVE  /\ Said(i).id # m.id /\ Nonce(Said(i)) # Nonce(m)
                        /\ <<Said(i).device, Said(i).boot>> = <<m.device, m.boot>> =>
                             Said(i).sequence < m.sequence
      OBVIOUS
    <3>1. Said(i).id \in trust.ids /\ Nonce(Said(i)) \in trust.nonces
      BY <1>1 DEF TrustIsHistory
    <3>2. Said(i).sequence \in Nat
      BY <2>11, <2>12 DEF Message
    <3>3. Said(i).sequence <= trust.sequences[<<Said(i).device, Said(i).boot>>]
      BY <1>1 DEF TrustIsHistory
    <3>4. trust.sequences[<<m.device, m.boot>>] \in Int
      BY <1>1, <2>2 DEF TypeOK, NoSequence
    <3> QED BY <2>1, <2>2, <3>1, <3>2, <3>3, <3>4 DEF New, Last, NoSequence
  <2>14. TrustIsHistory'
    <3>1. trust'.ids = {Said(i)'.id : i \in Current'}
      BY <1>1, <2>3, <2>8, <2>9, <2>10 DEF TrustIsHistory
    <3>2. trust'.nonces = {Nonce(Said(i)') : i \in Current'}
      BY <1>1, <2>3, <2>8, <2>9, <2>10 DEF TrustIsHistory
    <3>3. \A d \in Device, b \in BootId :
            trust'.sequences[<<d, b>>] =
              IF <<d, b>> = <<m.device, m.boot>> THEN m.sequence ELSE trust.sequences[<<d, b>>]
      BY <1>1, <2>2, <2>3 DEF TypeOK
    <3>5. \A i \in Current' :
            Said(i)'.sequence <= trust'.sequences[<<Said(i)'.device, Said(i)'.boot>>]
      BY <1>1, <2>2, <2>8, <2>9, <2>10, <2>11, <2>12, <2>13, <3>3 DEF TrustIsHistory, Message
    <3>6. \A d \in Device, b \in BootId :
            trust'.sequences[<<d, b>>] # NoSequence =>
              \E i \in Current' : /\ Said(i)'.device = d /\ Said(i)'.boot = b
                                  /\ Said(i)'.sequence = trust'.sequences[<<d, b>>]
      <4> SUFFICES ASSUME NEW d \in Device, NEW b \in BootId,
                          trust'.sequences[<<d, b>>] # NoSequence
                   PROVE  \E i \in Current' : /\ Said(i)'.device = d /\ Said(i)'.boot = b
                                              /\ Said(i)'.sequence = trust'.sequences[<<d, b>>]
        OBVIOUS
      <4>1. CASE <<d, b>> = <<m.device, m.boot>>
        BY <2>8, <2>10, <3>3, <4>1
      <4>2. CASE <<d, b>> # <<m.device, m.boot>>
        <5>1. PICK i \in Current : /\ Said(i).device = d /\ Said(i).boot = b
                                   /\ Said(i).sequence = trust.sequences[<<d, b>>]
          BY <1>1, <3>3, <4>2 DEF TrustIsHistory
        <5> QED BY <2>8, <2>9, <3>3, <4>2, <5>1
      <4> QED BY <4>1, <4>2
    <3> QED BY <3>1, <3>2, <3>3, <3>5, <3>6 DEF TrustIsHistory, Nonce
  <2>15. AcceptanceAdvances'
    <3> SUFFICES ASSUME NEW i \in DOMAIN accepted', NEW j \in DOMAIN accepted',
                        i < j, accepted'[i].life = accepted'[j].life
                 PROVE  /\ Said(i)'.id # Said(j)'.id
                        /\ Nonce(Said(i)') # Nonce(Said(j)')
                        /\ <<Said(i)'.device, Said(i)'.boot>> = <<Said(j)'.device, Said(j)'.boot>> =>
                             Said(i)'.sequence < Said(j)'.sequence
      BY DEF AcceptanceAdvances, Nonce
    <3>1. i \in DOMAIN accepted /\ Said(i)' = Said(i) /\ accepted'[i] = accepted[i]
      BY <2>4 DEF Said
    <3>2. CASE j = n
      <4>1. i \in Current
        BY <2>4, <2>5, <3>1, <3>2 DEF Current
      <4> QED BY <2>10, <2>13, <3>1, <3>2, <4>1
    <3>3. CASE j # n
      <4>1. j \in DOMAIN accepted /\ Said(j)' = Said(j) /\ accepted'[j] = accepted[j]
        BY <2>4, <3>3 DEF Said
      <4> QED BY <1>1, <3>1, <4>1 DEF AcceptanceAdvances
    <3> QED BY <3>2, <3>3
  <2> QED BY <1>3, <2>6, <2>7, <2>14, <2>15 DEF IInv
<1> QED BY <1>4, <1>5

\* A restart keeps the invariant: nothing was accepted in the new life.
LEMMA RestartKeeps ==
  ASSUME TrustConstants, IInv, Restart
  PROVE  IInv'
<1>1. TypeOK /\ SentInOrder /\ BootsAreFresh /\ NoncesAreUnique /\ AcceptedWasSent
      /\ TrustIsHistory /\ AcceptanceAdvances
  BY DEF IInv
<1>2. /\ life' = life + 1 /\ trust' = Fresh
      /\ UNCHANGED <<now, boot, sequence, booted, sent, revokedAt, accepted>>
  BY DEF Restart, device
<1>3. trust'.sequences = [p \in Device \X BootId |-> NoSequence] /\ trust'.ids = {}
      /\ trust'.nonces = {}
  BY <1>2 DEF Fresh
<1>4. life \in Nat /\ \A i \in DOMAIN accepted : accepted[i].life \in Nat
  <2>1. life \in Nat /\ \A i \in DOMAIN accepted : accepted[i] \in Acceptance
    BY <1>1 DEF TypeOK
  <2> QED BY <2>1 DEF Acceptance
<1>5. TypeOK'
  BY <1>1, <1>2, <1>3 DEF TypeOK, NoSequence, TrustConstants
<1>6. SentInOrder' /\ BootsAreFresh' /\ NoncesAreUnique'
  BY <1>1, <1>2 DEF SentInOrder, BootsAreFresh, NoncesAreUnique, Nonce
<1>7. AcceptedWasSent' /\ AcceptanceAdvances'
  BY <1>1, <1>2, <1>4 DEF AcceptedWasSent, AcceptanceAdvances, Said, Nonce
<1>8. Current' = {}
  BY <1>1, <1>2, <1>4 DEF Current, AcceptedWasSent
<1>9. TrustIsHistory'
  BY <1>3, <1>8 DEF TrustIsHistory
<1> QED BY <1>5, <1>6, <1>7, <1>9 DEF IInv

\* What neither sends nor boots nor verifies keeps the invariant.
LEMMA QuietKeeps ==
  ASSUME IInv, TypeOK',
         UNCHANGED <<boot, sequence, booted, sent, trust, life, accepted>>
  PROVE  IInv'
<1>1. SentInOrder' /\ BootsAreFresh' /\ NoncesAreUnique'
  BY DEF IInv, SentInOrder, BootsAreFresh, NoncesAreUnique, Nonce
<1>2. AcceptedWasSent' /\ AcceptanceAdvances'
  BY DEF IInv, AcceptedWasSent, AcceptanceAdvances, Said, Nonce
<1>3. TrustIsHistory'
  BY DEF IInv, TrustIsHistory, Current, Said, Nonce
<1> QED BY <1>1, <1>2, <1>3 DEF IInv

\* Every step keeps the invariant.
LEMMA StepsKeep == ASSUME TrustConstants, IInv, [Next]_vars PROVE IInv'
<1>1. ASSUME NEW d \in Device, NEW t \in Time, Revoke(d, t) PROVE IInv'
  <2>1. /\ revokedAt' = [revokedAt EXCEPT ![d] = t]
        /\ UNCHANGED <<now, boot, sequence, booted, sent, trust, life, accepted>>
    BY <1>1 DEF Revoke, device
  <2>2. TypeOK'
    BY <2>1 DEF IInv, TypeOK, Time, Never, TrustConstants
  <2> QED BY <2>1, <2>2, QuietKeeps
<1>2. ASSUME Tick PROVE IInv'
  <2>1. UNCHANGED <<boot, sequence, booted, sent, revokedAt, trust, life, accepted>>
    BY <1>2 DEF Tick, device
  <2>2. now' \in Time
    BY <1>2 DEF Tick, IInv, TypeOK, Time, TrustConstants
  <2>3. TypeOK'
    BY <2>1, <2>2 DEF IInv, TypeOK
  <2> QED BY <2>1, <2>3, QuietKeeps
<1>3. ASSUME UNCHANGED vars PROVE IInv'
  <2>1. UNCHANGED <<now, boot, sequence, booted, sent, revokedAt, trust, life, accepted>>
    BY <1>3 DEF vars, device
  <2>2. TypeOK'
    BY <2>1 DEF IInv, TypeOK
  <2> QED BY <2>1, <2>2, QuietKeeps
<1> QED BY <1>1, <1>2, <1>3, ProtectKeeps, BootKeeps, VerifyKeeps, RestartKeeps DEF Next

\* IInv holds in every reachable state, for any devices, boots and lives.
THEOREM Inductive == Spec => []IInv
<1>1. Init => IInv
  BY Starts, TrustConstants
<1>2. IInv /\ [Next]_vars => IInv'
  BY StepsKeep, TrustConstants
<1> QED BY <1>1, <1>2, PTL DEF Spec

\* In one life no id and no nonce is accepted twice, and sequences of one
\* boot are accepted in increasing order (verify_message 299-307).
THEOREM NoReplayInOneLife == Spec => []AcceptanceAdvances
<1>1. IInv => AcceptanceAdvances
  BY DEF IInv
<1> QED BY <1>1, Inductive, PTL

\* A message is accepted again only in a later life and before it expires
\* (verify_message 297-300).
THEOREM ReplayNeedsRestart == Spec => []ReplayIsBounded
<1>1. ASSUME IInv PROVE ReplayIsBounded
  <2> SUFFICES ASSUME NEW i \in DOMAIN accepted, NEW j \in DOMAIN accepted,
                      i < j, Said(i) = Said(j)
               PROVE  accepted[i].life < accepted[j].life /\ accepted[j].at <= Said(i).expires
    BY DEF ReplayIsBounded
  <2>1. accepted[i].life \in Nat /\ accepted[j].life \in Nat
    <3>1. accepted[i] \in Acceptance /\ accepted[j] \in Acceptance
      BY <1>1 DEF IInv, TypeOK
    <3> QED BY <3>1 DEF Acceptance
  <2>2. accepted[i].life # accepted[j].life
    BY <1>1 DEF IInv, AcceptanceAdvances
  <2>3. accepted[i].life <= accepted[j].life /\ accepted[j].at <= Said(j).expires
    BY <1>1 DEF IInv, AcceptedWasSent
  <2> QED BY <2>1, <2>2, <2>3
<1> QED BY <1>1, Inductive, PTL

\* Only devices that reuse a boot identifier make nonces repeat
\* (protect_message 222-230).
THEOREM NoncesUnique == Spec => []NoncesAreUnique
<1>1. IInv => NoncesAreUnique
  BY DEF IInv
<1> QED BY <1>1, Inductive, PTL

\* What is authentic, authorised and in time is refused only for an
\* acceptance of this life from the same boot (verify_message 299-307).
THEOREM RefusalsExplained == Spec => []LossIsExplained
<1>1. ASSUME IInv PROVE LossIsExplained
  <2> SUFFICES ASSUME NEW m \in sent, ~New(m)
               PROVE  \E i \in Current :
                        /\ Said(i).boot = m.boot
                        /\ \/ Said(i).device = m.device /\ Said(i).sequence >= m.sequence
                           \/ Said(i).device # m.device /\ Nonce(Said(i)) = Nonce(m)
    BY DEF LossIsExplained
  <2>1. TypeOK /\ SentInOrder /\ AcceptedWasSent /\ TrustIsHistory
    BY <1>1 DEF IInv
  <2>2. m \in Message /\ m.device \in Device /\ m.boot \in BootId /\ m.sequence \in Int
    BY <2>1 DEF TypeOK, Message
  <2>3. CASE m.id \in trust.ids
    <3>1. PICK i \in Current : Said(i).id = m.id
      BY <2>1, <2>3 DEF TrustIsHistory
    <3>2. Said(i) = m
      BY <2>1, <3>1 DEF SentInOrder, AcceptedWasSent, Current
    <3> QED BY <2>2, <3>2
  <2>4. CASE Nonce(m) \in trust.nonces
    <3>1. PICK i \in Current : Nonce(Said(i)) = Nonce(m)
      BY <2>1, <2>4 DEF TrustIsHistory
    <3> QED BY <2>2, <3>1 DEF Nonce
  <2>5. CASE Last(m) # NoSequence /\ ~(m.sequence > Last(m))
    <3>1. PICK i \in Current : /\ Said(i).device = m.device /\ Said(i).boot = m.boot
                               /\ Said(i).sequence = Last(m)
      BY <2>1, <2>2, <2>5 DEF TrustIsHistory, Last
    <3>2. Last(m) \in Int
      BY <2>1, <2>2 DEF TypeOK, Last, NoSequence
    <3> QED BY <2>2, <2>5, <3>1, <3>2
  <2> QED BY <2>3, <2>4, <2>5 DEF New
<1> QED BY <1>1, Inductive, PTL
=============================================================================
