---------------------------- MODULE EnergyProofs ----------------------------
(***************************************************************************)
(* Theorems about Energy, for any domains, samples and number of events.   *)
(***************************************************************************)
EXTENDS Energy, TLAPS

\* The thresholds, and that deeper levels have lower ones.
LEMMA Thresholds ==
  /\ Enter[Conserve] = 50 /\ Enter[Critical] = 30 /\ Enter[Survival] = 15 /\ Enter[Shutdown] = 8
  /\ \A l \in Conserve..Shutdown : Enter[l] \in 8..50
  /\ \A l, m \in Conserve..Shutdown : l <= m => Enter[m] <= Enter[l]
<1>1. /\ Enter[Conserve] = 50 /\ Enter[Critical] = 30 /\ Enter[Survival] = 15
      /\ Enter[Shutdown] = 8
  BY DEF Enter, Conserve, Critical, Survival, Shutdown
<1>2. Conserve..Shutdown = {Conserve, Critical, Survival, Shutdown}
  BY DEF Conserve, Critical, Survival, Shutdown
<1>3. Conserve = 1 /\ Critical = 2 /\ Survival = 3 /\ Shutdown = 4
  BY DEF Conserve, Critical, Survival, Shutdown
<1> QED BY <1>1, <1>2, <1>3

\* Target gives a level; what it gives is entered at that sample, and so is
\* every level above it.
LEMMA TargetEnters ==
  ASSUME NEW soc \in Int
  PROVE  /\ Target(soc) \in Levels
         /\ \A l \in Conserve..Shutdown : l <= Target(soc) => soc <= Enter[l]
         /\ soc <= 8 <=> Target(soc) = Shutdown
<1>1. Normal = 0 /\ Conserve = 1 /\ Critical = 2 /\ Survival = 3 /\ Shutdown = 4
      /\ Levels = 0..4
  BY DEF Normal, Conserve, Critical, Survival, Shutdown, Levels
<1>2. Target(soc) = IF soc <= 8 THEN 4 ELSE IF soc <= 15 THEN 3 ELSE IF soc <= 30 THEN 2
                    ELSE IF soc <= 50 THEN 1 ELSE 0
  BY <1>1, Thresholds DEF Target
<1>3. \A l \in Conserve..Shutdown : l = 1 \/ l = 2 \/ l = 3 \/ l = 4
  BY <1>1
<1> QED BY <1>1, <1>2, <1>3, Thresholds

\* A plain step from a level falls only on a sample that enters every level
\* it passes, rises by one level at most, on a sample clear of it, and is
\* never better than the sample.
LEMMA PlainStep ==
  ASSUME NEW soc \in Nat, NEW kind \in Kinds \ Restarts,
         NEW previous \in Levels \cup {None, Blind}
  PROVE  LET s == next_energy_state(previous, soc, kind) IN
         /\ s \in Levels /\ s >= Target(soc)
         /\ s = Shutdown => soc <= 8
         /\ previous \in Levels =>
              /\ \A l \in Levels : previous < l /\ l <= s => soc <= Enter[l]
              /\ \A l \in Conserve..Survival : s < l /\ l <= previous => soc >= Enter[l] + 5
<1> DEFINE s == next_energy_state(previous, soc, kind)
<1>1. Normal = 0 /\ Conserve = 1 /\ Critical = 2 /\ Survival = 3 /\ Shutdown = 4
      /\ Levels = 0..4 /\ Unknown = -1 /\ None = -2 /\ Blind = -1
  BY DEF Normal, Conserve, Critical, Survival, Shutdown, Levels, Unknown, None, Blind
<1>2. soc # Unknown
  BY <1>1
<1>3. /\ Target(soc) \in 0..4 /\ (soc <= 8 <=> Target(soc) = 4)
      /\ \A l \in 1..4 : l <= Target(soc) => soc <= Enter[l]
  BY <1>1, TargetEnters
<1>4. s = IF previous \in {None, Blind} \/ Target(soc) >= previous
          THEN Target(soc) ELSE Recovered(previous, soc)
  BY <1>2 DEF next_energy_state
<1> HIDE DEF s
<1>5. CASE previous \in {None, Blind}
  <2>1. s = Target(soc) /\ previous \notin Levels
    BY <1>1, <1>4, <1>5
  <2> QED BY <1>1, <1>3, <2>1 DEF s
<1>6. CASE previous \in Levels /\ Target(soc) >= previous
  <2>1. s = Target(soc)
    BY <1>4, <1>6
  <2>2. \A l \in Levels : previous < l /\ l <= s => soc <= Enter[l]
    BY <1>1, <1>3, <1>6, <2>1
  <2>3. \A l \in Conserve..Survival : ~(s < l /\ l <= previous)
    BY <1>1, <1>3, <1>6, <2>1
  <2> QED BY <1>1, <1>3, <2>1, <2>2, <2>3 DEF s
<1>7. CASE previous \in Levels /\ ~(Target(soc) >= previous)
  <2>1. s = Recovered(previous, soc)
    BY <1>1, <1>4, <1>7
  <2>2. previous \in 1..4 /\ Target(soc) < previous
    BY <1>1, <1>3, <1>7
  <2>3. CASE previous = 4
    <3>1. s = 3
      BY <1>1, <2>1, <2>3 DEF Recovered
    <3> QED BY <1>1, <1>3, <2>2, <2>3, <3>1 DEF s
  <2>4. CASE previous \in 1..3
    <3>1. s = IF soc >= Enter[previous] + 5 THEN previous - 1 ELSE previous
      BY <1>1, <2>1, <2>4 DEF Recovered
    <3>2. s \in 0..3 /\ Target(soc) <= s /\ s <= previous
      BY <1>3, <2>2, <2>4, <3>1
    <3>3. \A l \in 1..3 : s < l /\ l <= previous => l = previous /\ soc >= Enter[previous] + 5
      BY <2>4, <3>1
    <3> QED BY <1>1, <1>3, <2>4, <3>2, <3>3 DEF s
  <2> QED BY <2>2, <2>3, <2>4
<1> QED BY <1>5, <1>6, <1>7 DEF s

\* The initial state satisfies the invariant.
LEMMA Starts == Init => IInv
<1> SUFFICES ASSUME Init PROVE IInv
  OBVIOUS
<1>1. TypeOK
  <2>1. <<>> \in Seq(Status)
    OBVIOUS
  <2> QED BY <2>1 DEF Init, TypeOK
<1>2. FallsOnSamples /\ RisesOnSamples
  BY DEF Init, FallsOnSamples, RisesOnSamples
<1>3. NeverOptimistic /\ LifeSafetyKept
  BY DEF Init, NeverOptimistic, LifeSafetyKept
<1> QED BY <1>1, <1>2, <1>3 DEF IInv

\* An event keeps the invariant.
LEMMA EventKeeps ==
  ASSUME EnergyConstants, IInv, NEW kind \in Kinds, NEW soc \in Sample \cup {Unknown},
         Event(kind, soc)
  PROVE  IInv'
<1> DEFINE s == next_energy_state(Previous, soc, kind)
           status == [kind |-> kind, soc |-> soc, state |-> s, shed |-> LoadsShed(s, kind),
                      runtime |-> IF soc = Unknown THEN Unknown ELSE Budget(domain).runtime,
                      boot |-> IF kind \in Restarts THEN Boots + 1 ELSE Boots]
<1>1. TypeOK /\ FallsOnSamples /\ RisesOnSamples /\ NeverOptimistic /\ LifeSafetyKept
  BY DEF IInv
<1>2. timeline' = Append(timeline, status) /\ UNCHANGED <<domain, failed>>
  BY DEF Event
<1>3. Normal = 0 /\ Conserve = 1 /\ Critical = 2 /\ Survival = 3 /\ Shutdown = 4
      /\ Levels = 0..4 /\ Unknown = -1 /\ None = -2 /\ Blind = -1
  BY DEF Normal, Conserve, Critical, Survival, Shutdown, Levels, Unknown, None, Blind
<1>4. PICK n : n = Len(timeline) + 1
  OBVIOUS
<1>5. /\ status.kind = kind /\ status.soc = soc /\ status.state = s
      /\ status.shed = LoadsShed(s, kind)
  OBVIOUS
<1>6. Previous \in Levels \cup {None, Blind} /\ Boots \in Nat
  <2>1. CASE timeline = <<>>
    BY <2>1 DEF Previous, Boots
  <2>2. CASE timeline # <<>>
    <3>1. timeline[Len(timeline)] \in Status
      BY <1>1, <2>2 DEF TypeOK
    <3> QED BY <2>2, <3>1 DEF Previous, Boots, Status
  <2> QED BY <2>1, <2>2
<1>7. soc # Unknown => soc \in Nat
  BY DEF EnergyConstants
<1>8. s \in Levels \cup {Blind}
  <2>1. CASE kind \in Restarts
    BY <1>3, <2>1 DEF next_energy_state
  <2>2. CASE kind \notin Restarts /\ soc = Unknown
    BY <2>2 DEF next_energy_state
  <2>3. CASE kind \notin Restarts /\ soc # Unknown
    BY <1>6, <1>7, <2>3, PlainStep
  <2> QED BY <2>1, <2>2, <2>3
<1>9. Budget(domain).runtime \in Nat \cup {Unknown}
  <2>1. IsDomain(domain)
    BY <1>1 DEF TypeOK, EnergyConstants
  <2>2. CASE domain.soc = Unknown \/ domain.power = 0
    BY <2>2 DEF Budget
  <2>3. CASE ~(domain.soc = Unknown \/ domain.power = 0)
    <3>1. Budget(domain).runtime = Runtime(domain, domain.soc)
      BY <2>3 DEF Budget
    <3>2. domain.power \in Nat \ {0}
      BY <2>1, <2>3 DEF IsDomain
    <3>3. AtLeastZero(Remaining(domain, domain.soc) - 100 * domain.shutdown) \in Nat
      <4>1. \A x \in Int : AtLeastZero(x) \in Nat
        BY DEF AtLeastZero
      <4>2. domain.capacity \in Nat /\ domain.shutdown \in Nat
            /\ domain.soc - domain.uncertainty \in Int
        BY <2>1, <2>3 DEF IsDomain
      <4>3. Remaining(domain, domain.soc) \in Nat
        BY <4>1, <4>2 DEF Remaining
      <4> QED BY <4>1, <4>2, <4>3
    <3> DEFINE e == AtLeastZero(Remaining(domain, domain.soc) - 100 * domain.shutdown)
    <3>4. \A x \in Nat, y \in Nat \ {0} : (Hour * x) \div (100 * y) \in Nat
      BY DEF Hour
    <3>5. (Hour * e) \div (100 * domain.power) \in Nat
      BY <3>2, <3>3, <3>4
    <3> QED BY <3>1, <3>5 DEF Runtime
  <2> QED BY <2>2, <2>3
<1>10. status \in Status
  <2>1. LoadsShed(s, kind) \in SUBSET Classes
    BY <1>3, <1>8 DEF LoadsShed, Classes
  <2> QED BY <1>6, <1>8, <1>9, <2>1 DEF Status
<1> HIDE DEF s, status
<1>11. /\ Len(timeline) \in Nat /\ DOMAIN timeline = 1..(n - 1) /\ DOMAIN timeline' = 1..n
       /\ timeline'[n] = status /\ \A i \in 1..(n - 1) : timeline'[i] = timeline[i]
       /\ n \in Nat \ {0}
  BY <1>1, <1>2, <1>4, <1>10 DEF TypeOK
<1>12. TypeOK'
  BY <1>1, <1>2, <1>10 DEF TypeOK
<1>13. \A i \in DOMAIN timeline : timeline[i].soc \in Sample \cup {Unknown} /\ State(i) \in Levels \cup {Blind}
  <2>1. \A i \in DOMAIN timeline : timeline[i] \in Status
    BY <1>1 DEF TypeOK
  <2> QED BY <2>1 DEF Status, State
<1>14. (kind \notin Restarts /\ soc # Unknown) =>
         /\ s \in Levels /\ s >= Target(soc) /\ (s = Shutdown => soc <= 8)
         /\ Previous \in Levels =>
              /\ \A l \in Levels : Previous < l /\ l <= s => soc <= Enter[l]
              /\ \A l \in Conserve..Survival : s < l /\ l <= Previous => soc >= Enter[l] + 5
  BY <1>6, <1>7, PlainStep DEF s
<1>15. NeverOptimistic'
  BY <1>1, <1>5, <1>11, <1>14 DEF NeverOptimistic, Plain, State
<1>16. LifeSafetyKept'
  <2>1. LoadsShed(s, kind) \cap {"L0_LIFE_SAFETY", "L1_MISSION_CRITICAL"} # {} => s = Shutdown
    BY <1>3, <1>8 DEF LoadsShed, Classes
  <2>2. s = Shutdown => kind \notin Restarts /\ soc # Unknown
    BY <1>3 DEF s, next_energy_state
  <2>3. \A i \in 1..(n - 1) : Plain(i)' = Plain(i)
    BY <1>11 DEF Plain
  <2>4. s = Shutdown => Plain(n)' /\ timeline'[n].soc <= Enter[Shutdown]
    BY <1>5, <1>11, <1>14, <2>2, Thresholds DEF Plain
  <2> QED BY <1>1, <1>5, <1>11, <2>1, <2>3, <2>4 DEF LifeSafetyKept, Plain
<1>17. \A i, k \in 1..(n - 1) : Steady(i, k)' = Steady(i, k)
  BY <1>11 DEF Steady, Plain
<1>18. ASSUME NEW i \in 1..(n - 1), Steady(i, n)'
       PROVE  /\ kind \notin Restarts /\ soc # Unknown
              /\ Previous = State(n - 1) /\ (i = n - 1 \/ Steady(i, n - 1))
              /\ State(i)' = State(i) /\ State(n)' = s /\ Previous \in Levels
  <2>1. kind \notin Restarts /\ soc # Unknown
    BY <1>5, <1>11, <1>18 DEF Steady, Plain
  <2>2. timeline # <<>> /\ Len(timeline) = n - 1
    BY <1>4, <1>11
  <2>3. \A j \in i..(n - 1) : Plain(j)
    BY <1>11, <1>18 DEF Steady, Plain
  <2>4. i = n - 1 \/ Steady(i, n - 1)
    BY <1>11, <2>3 DEF Steady
  <2>5. Previous = State(n - 1)
    BY <2>2 DEF Previous, State
  <2>6. Plain(n - 1) /\ n - 1 \in DOMAIN timeline
    BY <1>11, <2>3
  <2>7. State(n - 1) \in Levels
    <3>1. timeline[n - 1].soc \in Int
      <4>1. Sample \subseteq Int
        BY DEF EnergyConstants
      <4>2. timeline[n - 1].soc # Unknown
        BY <2>6 DEF Plain
      <4> QED BY <1>13, <2>6, <4>1, <4>2
    <3>2. State(n - 1) >= Target(timeline[n - 1].soc)
      BY <1>1, <2>6 DEF NeverOptimistic
    <3>3. Target(timeline[n - 1].soc) \in Levels
      BY <3>1, TargetEnters
    <3> QED BY <1>3, <1>13, <2>6, <3>2, <3>3
  <2> QED BY <1>5, <1>11, <2>1, <2>4, <2>5, <2>7 DEF State
<1>19. FallsOnSamples'
  <2> SUFFICES ASSUME NEW i \in DOMAIN timeline', NEW k \in DOMAIN timeline', Steady(i, k)',
                      NEW l \in Levels, State(i)' < l, l <= State(k)'
               PROVE  \E j \in (i + 1)..k : timeline'[j].soc <= Enter[l]
    BY DEF FallsOnSamples
  <2>1. i \in 1..(n - 1) /\ i < k
    BY <1>11 DEF Steady
  <2>2. CASE k # n
    <3>1. k \in 1..(n - 1) /\ State(i)' = State(i) /\ State(k)' = State(k) /\ Steady(i, k)
      BY <1>11, <1>17, <2>1, <2>2 DEF State
    <3>2. PICK j \in (i + 1)..k : timeline[j].soc <= Enter[l]
      BY <1>1, <1>11, <2>1, <3>1 DEF FallsOnSamples
    <3> QED BY <1>11, <2>1, <3>1, <3>2
  <2>3. CASE k = n
    <3>1. CASE l <= State(n - 1)
      <4>1. Steady(i, n - 1)
        BY <1>3, <1>13, <1>11, <1>18, <2>1, <2>3, <3>1
      <4>2. PICK j \in (i + 1)..(n - 1) : timeline[j].soc <= Enter[l]
        BY <1>1, <1>11, <1>18, <2>1, <2>3, <3>1, <4>1 DEF FallsOnSamples, Steady
      <4> QED BY <1>11, <2>1, <2>3, <4>2
    <3>2. CASE ~(l <= State(n - 1))
      <4>1. soc <= Enter[l]
        BY <1>3, <1>14, <1>18, <2>1, <2>3, <3>2
      <4> QED BY <1>5, <1>11, <2>1, <2>3, <4>1
    <3> QED BY <3>1, <3>2
  <2> QED BY <2>2, <2>3
<1>20. RisesOnSamples'
  <2> SUFFICES ASSUME NEW i \in DOMAIN timeline', NEW k \in DOMAIN timeline', Steady(i, k)',
                      NEW l \in Conserve..Survival, State(k)' < l, l <= State(i)'
               PROVE  \E j \in (i + 1)..k : timeline'[j].soc >= Enter[l] + 5
    BY DEF RisesOnSamples
  <2>1. i \in 1..(n - 1) /\ i < k
    BY <1>11 DEF Steady
  <2>2. CASE k # n
    <3>1. k \in 1..(n - 1) /\ State(i)' = State(i) /\ State(k)' = State(k) /\ Steady(i, k)
      BY <1>11, <1>17, <2>1, <2>2 DEF State
    <3>2. PICK j \in (i + 1)..k : timeline[j].soc >= Enter[l] + 5
      BY <1>1, <1>11, <2>1, <3>1 DEF RisesOnSamples
    <3> QED BY <1>11, <2>1, <3>1, <3>2
  <2>3. CASE k = n
    <3>1. CASE State(n - 1) < l
      <4>1. Steady(i, n - 1)
        BY <1>3, <1>13, <1>11, <1>18, <2>1, <2>3, <3>1
      <4>2. PICK j \in (i + 1)..(n - 1) : timeline[j].soc >= Enter[l] + 5
        BY <1>1, <1>11, <1>18, <2>1, <2>3, <3>1, <4>1 DEF RisesOnSamples, Steady
      <4> QED BY <1>11, <2>1, <2>3, <4>2
    <3>2. CASE ~(State(n - 1) < l)
      <4>1. soc >= Enter[l] + 5
        BY <1>3, <1>14, <1>18, <2>1, <2>3, <3>2
      <4> QED BY <1>5, <1>11, <2>1, <2>3, <4>1
    <3> QED BY <3>1, <3>2
  <2> QED BY <2>2, <2>3
<1> QED BY <1>12, <1>15, <1>16, <1>19, <1>20 DEF IInv

\* Every step keeps the invariant.
LEMMA StepsKeep == ASSUME EnergyConstants, IInv, [Next]_vars PROVE IInv'
<1>1. ASSUME NEW soc \in Sample \cup {Unknown}, Fail(soc) PROVE IInv'
  <2>1. failed' = TRUE /\ UNCHANGED <<domain, timeline>>
    BY <1>1 DEF Fail
  <2> QED BY <2>1 DEF IInv, TypeOK, FallsOnSamples, RisesOnSamples, NeverOptimistic,
                      LifeSafetyKept, Steady, Plain, State
<1>2. ASSUME UNCHANGED vars PROVE IInv'
  <2>1. UNCHANGED <<domain, timeline, failed>>
    BY <1>2 DEF vars
  <2> QED BY <2>1 DEF IInv, TypeOK, FallsOnSamples, RisesOnSamples, NeverOptimistic,
                      LifeSafetyKept, Steady, Plain, State
<1> QED BY <1>1, <1>2, EventKeeps DEF Next

\* The invariant holds in every reachable state.
THEOREM Inductive == Spec => []IInv
<1>1. IInv /\ [Next]_vars => IInv'
  BY StepsKeep, EnergyConstants
<1> QED BY Starts, <1>1, PTL DEF Spec

\* The state is never better than what the current sample alone would give
\* (next_energy_state 197-228).
THEOREM StateIsConservative == Spec => []NeverOptimistic
<1>1. IInv => NeverOptimistic
  BY DEF IInv
<1> QED BY <1>1, Inductive, PTL

\* Life safety and mission critical loads are shed only at the shutdown
\* threshold (_loads_shed 231-240).
THEOREM LifeSafetyIsKept == Spec => []LifeSafetyKept
<1>1. IInv => LifeSafetyKept
  BY DEF IInv
<1> QED BY <1>1, Inductive, PTL

\* In a replay of any length, no state but shutdown is left and taken again
\* while the state of charge moves by less than five points.
THEOREM HysteresisHolds == Spec => []NoFlapping
<1>1. ASSUME IInv PROVE NoFlapping
  <2> SUFFICES ASSUME NEW i \in DOMAIN timeline, NEW j \in DOMAIN timeline,
                      NEW k \in DOMAIN timeline, i < j, j < k, Steady(i, k),
                      State(i) = State(k), State(j) # State(i),
                      \A l \in i..k : State(l) # Shutdown
               PROVE  \E l, m \in i..k : timeline[l].soc >= timeline[m].soc + 5
    BY DEF NoFlapping
  <2>1. i \in Int /\ j \in Int /\ k \in Int /\ DOMAIN timeline \subseteq Int
        /\ \A l \in i..k : l \in DOMAIN timeline
    <3>1. DOMAIN timeline = 1..Len(timeline) /\ Len(timeline) \in Nat
      BY <1>1 DEF IInv, TypeOK
    <3> QED BY <3>1
  <2>2. Normal = 0 /\ Conserve = 1 /\ Critical = 2 /\ Survival = 3 /\ Shutdown = 4
        /\ Levels = 0..4 /\ Unknown = -1 /\ None = -2 /\ Blind = -1
    BY DEF Normal, Conserve, Critical, Survival, Shutdown, Levels, Unknown, None, Blind
  <2>3. Steady(i, j) /\ Steady(j, k)
    BY <2>1 DEF Steady
  <2>4. \A l \in i..k : timeline[l].soc \in Int /\ State(l) \in 0..3
    <3> SUFFICES ASSUME NEW l \in i..k
                 PROVE  timeline[l].soc \in Int /\ State(l) \in 0..3
      OBVIOUS
    <3>1. timeline[l] \in Status /\ Plain(l)
      BY <1>1, <2>1 DEF IInv, TypeOK, Steady
    <3>2. timeline[l].soc \in Int /\ State(l) \in Levels \cup {Blind}
      <4>1. Sample \subseteq Int
        BY EnergyConstants DEF EnergyConstants
      <4>2. timeline[l].soc \in Sample \cup {Unknown} /\ State(l) \in Levels \cup {Blind}
        BY <3>1 DEF Status, State
      <4>3. timeline[l].soc # Unknown
        BY <3>1 DEF Plain
      <4> QED BY <4>1, <4>2, <4>3
    <3>3. State(l) >= Target(timeline[l].soc)
      BY <1>1, <2>1, <3>1 DEF IInv, NeverOptimistic
    <3>4. Target(timeline[l].soc) \in Levels
      BY <3>2, TargetEnters
    <3>5. State(l) # Shutdown
      OBVIOUS
    <3> QED BY <2>2, <3>2, <3>3, <3>4, <3>5
  <2>5. ASSUME NEW a \in DOMAIN timeline, NEW b \in DOMAIN timeline, NEW c \in DOMAIN timeline,
               NEW d \in DOMAIN timeline, NEW l \in 1..3,
               i <= a, a < b, b <= k, i <= c, c < d, d <= k, Steady(a, b), Steady(c, d),
               State(a) < l, l <= State(b), State(d) < l, l <= State(c)
        PROVE  \E x, y \in i..k : timeline[x].soc >= timeline[y].soc + 5
    <3>1. PICK y \in (a + 1)..b : timeline[y].soc <= Enter[l]
      BY <1>1, <2>2, <2>5 DEF IInv, FallsOnSamples
    <3>2. PICK x \in (c + 1)..d : timeline[x].soc >= Enter[l] + 5
      BY <1>1, <2>2, <2>5 DEF IInv, RisesOnSamples
    <3>3. x \in i..k /\ y \in i..k
      BY <2>1, <2>5, <3>1, <3>2
    <3>4. Enter[l] \in Int
      BY <2>2, Thresholds
    <3> QED BY <2>4, <3>1, <3>2, <3>3, <3>4
  <2>6. State(i) \in 0..3 /\ State(j) \in 0..3 /\ State(k) \in 0..3
    BY <2>1, <2>4
  <2>7. CASE State(j) > State(i)
    <3>1. State(j) \in 1..3
      BY <2>6, <2>7
    <3> QED BY <2>1, <2>3, <2>5, <2>6, <2>7, <3>1
  <2>8. CASE State(j) < State(i)
    <3>1. State(i) \in 1..3
      BY <2>6, <2>8
    <3> QED BY <2>1, <2>3, <2>5, <2>6, <2>8, <3>1
  <2> QED BY <2>6, <2>7, <2>8
<1> QED BY <1>1, Inductive, PTL

\* What the budget calls sufficient lasts the window by its own runtime,
\* whatever the deratings, reserves and margin (_budget 279-305).
LEMMA SufficientIsEnough ==
  ASSUME EnergyConstants, NEW d, IsDomain(d), d.soc # Unknown, d.power # 0, Sufficient(d)
  PROVE  Runtime(d, d.soc) >= Window
<1> DEFINE r == Remaining(d, d.soc)
           need == 100 * d.power * Window + Hour * Reserves(d)
           e == AtLeastZero(r - 100 * d.shutdown)
<1>1. d.power \in Nat \ {0} /\ d.shutdown \in Nat /\ d.sos \in Nat /\ d.transition \in Nat
      /\ d.capacity \in Nat /\ d.soc - d.uncertainty \in Int
  BY DEF IsDomain
<1>2. r \in Nat
  <2>1. AtLeastZero(d.soc - d.uncertainty) \in Nat
    BY <1>1 DEF AtLeastZero
  <2> QED BY <1>1, <2>1 DEF Remaining
<1>3. Reserves(d) \in Nat /\ Reserves(d) >= 100 * d.shutdown
  BY <1>1 DEF Reserves
<1>4. Window \in Nat \ {0} /\ Margin \in Nat /\ Margin >= 100
  BY DEF EnergyConstants
<1>5. d.power * Window \in Nat
  BY <1>1, <1>4
<1>6. 100 * d.power * Window = 100 * (d.power * Window)
  BY <1>1, <1>4
<1>7. need \in Nat /\ 100 * Hour * r >= Margin * need
  BY <1>3, <1>5, <1>6 DEF Sufficient, Hour
<1> HIDE DEF r
<1>8. Margin * need >= 100 * need
  <2>1. \A x \in Nat : Margin * x >= 100 * x
    BY <1>4
  <2> HIDE DEF need
  <2> QED BY <1>7, <2>1
<1>9. Hour * r >= 100 * (d.power * Window) + Hour * (100 * d.shutdown)
  BY <1>1, <1>2, <1>3, <1>4, <1>5, <1>6, <1>7, <1>8 DEF Hour
<1>10. e \in Nat /\ Hour * e >= 100 * (d.power * Window)
  BY <1>1, <1>2, <1>5, <1>9 DEF AtLeastZero, Hour
<1> HIDE DEF e
<1>11. \A x \in Nat, y \in Nat \ {0}, z \in Nat : x >= y * z => x \div y >= z
  OBVIOUS
<1>12. 100 * (d.power * Window) = (100 * d.power) * Window /\ 100 * d.power \in Nat \ {0}
  BY <1>1, <1>4
<1>13. (Hour * e) \div (100 * d.power) >= Window
  <2> DEFINE x == Hour * e
             y == 100 * d.power
  <2>1. x \in Nat /\ y \in Nat \ {0} /\ x >= y * Window
    BY <1>10, <1>12 DEF Hour
  <2> HIDE DEF x, y
  <2>2. x \div y >= Window
    BY <1>4, <1>11, <2>1
  <2> QED BY <2>2 DEF x, y
<1> QED BY <1>13 DEF Runtime, e, r

\* A budget that is sufficient under the model reports a runtime of at least
\* the window.
THEOREM BudgetIsConsistent == Spec => []SufficientLasts
<1>1. ASSUME IInv PROVE SufficientLasts
  <2> SUFFICES ASSUME Budget(domain).result = "sufficient" PROVE Budget(domain).runtime >= Window
    BY DEF SufficientLasts
  <2>1. IsDomain(domain)
    BY <1>1, EnergyConstants DEF IInv, TypeOK, EnergyConstants
  <2>2. domain.soc # Unknown /\ domain.power # 0
    BY DEF Budget
  <2>3. Sufficient(domain) /\ Budget(domain).runtime = Runtime(domain, domain.soc)
    BY <2>2 DEF Budget
  <2> QED BY <2>1, <2>2, <2>3, SufficientIsEnough, EnergyConstants
<1> QED BY <1>1, Inductive, PTL
=============================================================================
