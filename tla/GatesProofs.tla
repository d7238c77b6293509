----------------------------- MODULE GatesProofs -----------------------------
(***************************************************************************)
(* Proofs about Gates, for any lists of gates, trees, entries, records and *)
(* documents: each component has an invariant of its own, which the steps  *)
(* of the others leave alone.                                              *)
(***************************************************************************)
EXTENDS Gates, FiniteSetTheorems, SequenceTheorems, WellFoundedInduction, TLAPS

\* A non-empty set of naturals has a least element.
LEMMA LeastNat ==
  ASSUME NEW S, S \subseteq Nat, S # {}
  PROVE  \E x \in S : \A y \in S : x <= y
<1> DEFINE Less == OpToRel(<, Nat)
<1>1. IsWellFoundedOn(Less, Nat)
  BY NatLessThanWellFounded
<1>2. \A x, y \in Nat : y < x => <<y, x>> \in Less
  BY DEF OpToRel
<1> HIDE DEF Less
<1>3. PICK x \in S : \A y \in S : <<y, x>> \notin Less
  BY <1>1, WFMin
<1>4. ASSUME NEW y \in S PROVE x <= y
  <2>1. x \in Nat /\ y \in Nat
    OBVIOUS
  <2>2. ~(y < x)
    BY <1>2, <1>3, <2>1
  <2> QED BY <2>1, <2>2
<1> QED
  BY <1>4

\* A step moves one component or none.
LEMMA StepsApart ==
  ASSUME [GatesNext]_gatesVars
  PROVE  /\ Contracts!Next \/ UNCHANGED contractVars
         /\ Radio!Next \/ UNCHANGED transportVars
         /\ Integrated!Next \/ UNCHANGED campaignVars
         /\ Assets!Next \/ UNCHANGED assetVars
         /\ Documents!Next \/ UNCHANGED documentVars
<1>1. CASE GatesNext
  BY <1>1 DEF GatesNext, CommandsMove, ContractsMove, RadioMoves, CampaignMoves, AssetsMove, DocumentsMove
<1>2. CASE UNCHANGED gatesVars
  BY <1>2 DEF gatesVars
<1> QED BY <1>1, <1>2

-----------------------------------------------------------------------------
(* ContractAssets                                                          *)

TreesOf == {Targets[k] : k \in DOMAIN Targets}

\* While no schema is edited, what the sync built is what the files hold, and
\* the trees it has passed are as it built them.
Passed ==
  ~stale /\ sync.at # 0 =>
    /\ \A t \in TreesOf : Contracts!Built(t) \in {schema[t[1]], Contracts!Missing}
    /\ \A k \in 1..Len(Targets) : k < sync.at => tree[Targets[k]] = schema[Targets[k][1]]

SyncInv ==
  /\ sync = [at |-> sync.at, built |-> sync.built] /\ sync.at \in 0..Len(Targets)
  /\ sync.built = [t \in TreesOf |-> sync.built[t]]
  /\ DOMAIN tree = TreesOf
  /\ Passed /\ Contracts!SyncIsWhole

LEMMA Trees ==
  /\ Len(Targets) \in Nat \ {0} /\ DOMAIN Targets = 1..Len(Targets)
  /\ TreesOf = {Targets[k] : k \in 1..Len(Targets)}
  /\ Contracts!ToSet(Targets) = TreesOf
  /\ Contracts!NoTrees = [t \in TreesOf |-> Contracts!Missing]
  BY ContractConstants DEF Contracts!ToSet, Contracts!NoTrees, TreesOf

LEMMA SyncInit ==
  ASSUME Contracts!Init
  PROVE  SyncInv
<1>1. PICK v \in Version :
        /\ schema = [s \in Sets |-> v] /\ tree = [t \in TreesOf |-> v]
        /\ sync = [at |-> 0, built |-> Contracts!NoTrees] /\ stale = FALSE
  BY Trees DEF Contracts!Init
<1>2. \A t \in TreesOf : t[1] \in Sets
  BY Trees, ContractConstants
<1>3. Contracts!Generated
  BY <1>1, <1>2, Trees DEF Contracts!Generated
<1> QED BY <1>1, <1>3, Trees DEF SyncInv, Passed, Contracts!SyncIsWhole

\* The sync moves on from a tree that is as it built it.
LEMMA AdvanceKeeps ==
  ASSUME SyncInv, Contracts!Visiting, Contracts!Advance, UNCHANGED <<schema, stale>>,
         DOMAIN tree' = TreesOf, tree'[Targets[sync.at]] = Contracts!Built(Targets[sync.at]),
         \A t \in TreesOf : t # Targets[sync.at] => tree'[t] = tree[t]
  PROVE  SyncInv'
<1> DEFINE k == sync.at
<1>1. k \in 1..Len(Targets) /\ Len(Targets) \in Nat /\ k # 0
  BY Trees DEF Contracts!Visiting
<1>2. ASSUME ~stale
      PROVE  \A j \in 1..Len(Targets) : j <= k => tree'[Targets[j]] = schema[Targets[j][1]]
  <2>1. Contracts!Built(Targets[k]) = schema[Targets[k][1]]
    BY <1>1, <1>2, Trees DEF SyncInv, Passed, Contracts!Visiting, Contracts!Unbuilt
  <2>2. \A j \in 1..Len(Targets) : j < k => tree[Targets[j]] = schema[Targets[j][1]]
    BY <1>1, <1>2 DEF SyncInv, Passed
  <2> QED BY <1>1, <2>1, <2>2, Trees
<1>3. CASE k = Len(Targets)
  <2>1. sync' = [at |-> 0, built |-> Contracts!NoTrees]
    BY <1>3 DEF Contracts!Advance
  <2>2. ~stale => Contracts!Generated'
    BY <1>1, <1>2, <1>3, Trees DEF Contracts!Generated
  <2> QED BY <2>1, <2>2, Trees DEF SyncInv, Passed, Contracts!SyncIsWhole
<1>4. CASE k # Len(Targets)
  <2>1. sync' = [at |-> k + 1, built |-> sync.built]
    BY <1>4 DEF Contracts!Advance, SyncInv
  <2>2. ~stale => \A t \in TreesOf : Contracts!Built(t)' \in {schema[t[1]], Contracts!Missing}
    BY <1>1, <2>1 DEF SyncInv, Passed, Contracts!Built
  <2>3. \A j \in 1..Len(Targets) : j < sync'.at => j <= k
    BY <1>1, <2>1
  <2>4. Passed'
    BY <1>2, <2>1, <2>2, <2>3 DEF Passed
  <2> QED BY <1>1, <1>4, <2>1, <2>4 DEF SyncInv, Contracts!SyncIsWhole
<1> QED BY <1>3, <1>4

LEMMA SyncNext ==
  ASSUME SyncInv, Contracts!Next \/ UNCHANGED contractVars
  PROVE  SyncInv'
<1>1. ASSUME NEW s \in Sets, NEW v \in Version, Contracts!EditSchema(s, v)
      PROVE  SyncInv'
  BY <1>1 DEF Contracts!EditSchema, SyncInv, Passed, Contracts!SyncIsWhole
<1>2. ASSUME UNCHANGED <<schema, tree, sync, stale>>
      PROVE  SyncInv'
  BY <1>2 DEF SyncInv, Passed, Contracts!SyncIsWhole, Contracts!Built, Contracts!Generated
<1>3. CASE Contracts!Generate
  <2>1. 1 \in 0..Len(Targets)
    BY Trees
  <2> QED BY <1>3, <2>1, Trees DEF Contracts!Generate, Contracts!Built, SyncInv, Passed, Contracts!SyncIsWhole
<1>4. CASE Contracts!Keep
  BY <1>4, AdvanceKeeps DEF Contracts!Keep, Contracts!Differs, SyncInv
<1>5. CASE Contracts!RemoveTree
  <2>1. sync.at \in 1..Len(Targets) /\ UNCHANGED <<schema, sync, stale>>
        /\ tree' = [tree EXCEPT ![Targets[sync.at]] = Contracts!Missing] /\ Contracts!Differs(Targets[sync.at])
    BY <1>5, Trees DEF Contracts!RemoveTree, Contracts!Visiting
  <2>2. ~stale => /\ \A t \in TreesOf : Contracts!Built(t) \in {schema[t[1]], Contracts!Missing}
                  /\ \A k \in 1..Len(Targets) : k < sync.at => tree[Targets[k]] = schema[Targets[k][1]]
    BY <2>1, Trees DEF SyncInv, Passed
  <2>3. ~stale => tree[Targets[sync.at]] # schema[Targets[sync.at][1]]
    BY <1>5, <2>1, <2>2, Trees DEF Contracts!RemoveTree, Contracts!Visiting, Contracts!Unbuilt, Contracts!Differs
  <2>4. ~stale => \A k \in 1..Len(Targets) : k < sync.at => Targets[k] # Targets[sync.at]
    BY <2>2, <2>3
  <2>5. Passed'
    BY <2>1, <2>2, <2>4, Trees DEF SyncInv, Passed, Contracts!Built
  <2> QED BY <2>1, <2>5 DEF SyncInv, Contracts!SyncIsWhole
<1>6. CASE Contracts!CopyTree
  <2>1. /\ Contracts!Visiting /\ Contracts!Advance /\ UNCHANGED <<schema, stale>>
        /\ tree' = [tree EXCEPT ![Targets[sync.at]] = Contracts!Built(Targets[sync.at])]
    BY <1>6 DEF Contracts!CopyTree
  <2>2. Targets[sync.at] \in TreesOf
    BY <2>1, Trees DEF Contracts!Visiting
  <2> QED BY <2>1, <2>2, AdvanceKeeps DEF SyncInv
<1>7. CASE Contracts!Interrupt
  BY <1>7, Trees DEF Contracts!Interrupt, SyncInv, Passed, Contracts!SyncIsWhole
<1>8. ASSUME NEW s \in Sets, NEW r \in Contracts!Records, Contracts!EditCatalog(s, r) \/ Contracts!EditBaseline(s, r)
      PROVE  SyncInv'
  BY <1>2, <1>8 DEF Contracts!EditCatalog, Contracts!EditBaseline
<1>9. CASE UNCHANGED contractVars
  BY <1>2, <1>9 DEF contractVars
<1>10. CASE Contracts!BuildTree
  <2>1. PICK k \in 1..Len(Targets) :
          sync' = [sync EXCEPT !.built[Targets[k]] = schema[Targets[k][1]]]
    BY <1>10, Trees DEF Contracts!BuildTree, Contracts!Unbuilt
  <2>2. sync.at # 0 /\ Targets[k] \in TreesOf /\ UNCHANGED <<schema, tree, stale>>
    BY <1>10, Trees DEF Contracts!BuildTree
  <2>3. /\ sync' = [at |-> sync.at, built |-> sync'.built]
        /\ sync'.built = [sync.built EXCEPT ![Targets[k]] = schema[Targets[k][1]]]
    BY <2>1 DEF SyncInv
  <2>4. Passed'
    BY <2>2, <2>3 DEF SyncInv, Passed, Contracts!Built
  <2> QED BY <2>2, <2>3, <2>4 DEF SyncInv, Contracts!SyncIsWhole
<1> QED BY <1>1, <1>3, <1>4, <1>5, <1>6, <1>7, <1>8, <1>9, <1>10 DEF Contracts!Next

-----------------------------------------------------------------------------
\* A sync that ends over schemas nobody edited since it began leaves every tree
\* as the check wants it, whatever was interrupted before.
THEOREM SyncsAreWhole == GatesSpec => []SyncIsWhole
<1>1. GatesInit => SyncInv
  BY SyncInit DEF GatesInit
<1>2. SyncInv /\ [GatesNext]_gatesVars => SyncInv'
  BY SyncNext, StepsApart
<1>3. SyncInv => SyncIsWhole
  BY DEF SyncInv, SyncIsWhole
<1> QED BY <1>1, <1>2, <1>3, PTL DEF GatesSpec

-----------------------------------------------------------------------------
(* IntegratedCampaign                                                      *)

\* What the campaign has of a file that nobody wrote since it was loaded is what
\* the gates of that file answer still; a verdict is passed on all of it.
CampaignInv ==
  /\ results = [i \in 1..Len(results) |-> results[i]] /\ Len(results) \in Nat
  /\ \A i \in DOMAIN results :
       i \in DOMAIN CampaignGates /\ FileOf[CampaignGates[i]] \notin touched =>
         results[i] = answer[CampaignGates[i]]
  /\ verdict = "passed" =>
       /\ Len(results) = Len(CampaignGates)
       /\ \A i \in DOMAIN results : ~results[i].errors
       /\ expected # "TBD" => \A i \in DOMAIN results : results[i].summary = "first"

\* A write leaves what the other files give.
LEMMA WriteKeeps ==
  ASSUME CampaignInv, NEW f \in Integrated!Files, Integrated!Edit(f) \/ Integrated!Restore(f)
  PROVE  CampaignInv'
<1>1. UNCHANGED <<results, expected, verdict>> /\ touched' = touched \cup {f}
  BY DEF Integrated!Edit, Integrated!Restore, Integrated!Write
<1>2. ASSUME NEW i \in DOMAIN CampaignGates, FileOf[CampaignGates[i]] # f
      PROVE  answer'[CampaignGates[i]] = answer[CampaignGates[i]]
  <2>1. CampaignGates[i] \in Integrated!ToSet(CampaignGates) /\ CampaignGates[i] \notin Integrated!Of(f)
    BY <1>2 DEF Integrated!ToSet, Integrated!Of
  <2> QED BY <2>1 DEF Integrated!Edit, Integrated!Restore
<1> QED BY <1>1, <1>2 DEF CampaignInv

LEMMA CampaignNext ==
  ASSUME CampaignInv, Integrated!Next \/ UNCHANGED campaignVars
  PROVE  CampaignInv'
<1>1. CASE \E f \in Integrated!Files : Integrated!Edit(f) \/ Integrated!Restore(f)
  BY <1>1, WriteKeeps
<1>2. CASE Integrated!Load
  BY <1>2 DEF Integrated!Load, CampaignInv
<1>3. CASE Integrated!RunComponent
  <2> DEFINE r == answer[CampaignGates[Len(results) + 1]]
  <2>1. results' = Append(results, r) /\ verdict' # "passed" /\ UNCHANGED <<answer, touched>>
    BY <1>3 DEF Integrated!RunComponent
  <2>2. /\ results' \in Seq({results[i] : i \in DOMAIN results} \cup {r})
        /\ Len(results') = Len(results) + 1 /\ results'[Len(results) + 1] = r
        /\ \A i \in 1..Len(results) : results'[i] = results[i]
    <3>1. results \in Seq({results[i] : i \in DOMAIN results} \cup {r})
      BY DEF CampaignInv
    <3> QED BY <2>1, <3>1, AppendProperties
  <2> QED BY <2>1, <2>2 DEF CampaignInv
<1>4. CASE Integrated!Project
  <2>1. /\ UNCHANGED <<answer, touched, expected, results>> /\ Len(results) = Len(CampaignGates)
        /\ verdict' = "passed" => ~Integrated!Errors(results)
    BY <1>4 DEF Integrated!Project
  <2>2. ~Integrated!Errors(results) =>
          /\ \A i \in DOMAIN results : ~results[i].errors
          /\ expected # "TBD" => \A i \in DOMAIN results : results[i].summary = "first"
    BY DEF Integrated!Errors, Integrated!Failures, Integrated!Frozen
  <2> QED BY <2>1, <2>2 DEF CampaignInv
<1>5. CASE UNCHANGED campaignVars
  BY <1>5 DEF campaignVars, CampaignInv
<1> QED BY <1>1, <1>2, <1>3, <1>4, <1>5 DEF Integrated!Next

\* A campaign that passed vouches for the files nobody wrote since it was
\* loaded, whatever was edited before and between its gates.
THEOREM PassesStand == GatesSpec => []PassStands
<1>1. GatesInit => CampaignInv
  BY DEF GatesInit, Integrated!Init, CampaignInv
<1>2. CampaignInv /\ [GatesNext]_gatesVars => CampaignInv'
  BY CampaignNext, StepsApart
<1>3. CampaignInv => PassStands
  <2> SUFFICES ASSUME CampaignInv, verdict = "passed", NEW i \in DOMAIN CampaignGates,
                      FileOf[CampaignGates[i]] \notin touched
               PROVE  /\ ~answer[CampaignGates[i]].errors
                      /\ expected # "TBD" => answer[CampaignGates[i]].summary = "first"
    BY DEF PassStands, Integrated!PassStands
  <2>1. i \in DOMAIN results
    BY CampaignConstants DEF CampaignInv
  <2> QED BY <2>1 DEF CampaignInv
<1> QED BY <1>1, <1>2, <1>3, PTL DEF GatesSpec

-----------------------------------------------------------------------------
(* Transports                                                              *)

TrafficInv == traffic \in Seq(Radio!Traffic)

\* A sequence with an element taken out is one of the same elements.
LEMMA RemovedAt ==
  ASSUME NEW S, NEW s \in Seq(S), NEW i \in DOMAIN s
  PROVE  SubSeq(s, 1, i - 1) \o SubSeq(s, i + 1, Len(s)) \in Seq(S)
<1>1. i \in 1..Len(s) /\ Len(s) \in Nat
  OBVIOUS
<1>2. \A k \in 1..Len(s) : s[k] \in S
  OBVIOUS
<1>3. SubSeq(s, 1, i - 1) \in Seq(S) /\ SubSeq(s, i + 1, Len(s)) \in Seq(S)
  BY <1>1, <1>2, SubSeqProperties
<1> QED BY <1>3, ConcatProperties

LEMMA TrafficNext ==
  ASSUME TrafficInv, Radio!Next \/ UNCHANGED transportVars
  PROVE  TrafficInv'
<1>1. ASSUME NEW e \in Radio!Traffic, Radio!Declare(e) PROVE TrafficInv'
  BY <1>1, AppendProperties DEF Radio!Declare, TrafficInv
<1>2. ASSUME NEW i \in DOMAIN traffic, Radio!Withdraw(i) PROVE TrafficInv'
  BY <1>2, RemovedAt DEF Radio!Withdraw, Radio!RemoveAt, TrafficInv
<1>3. ASSUME NEW f \in Fault, NEW p \in Penalty, Radio!Penalise(f, p) PROVE TrafficInv'
  BY <1>3 DEF Radio!Penalise, TrafficInv
<1>4. CASE UNCHANGED transportVars
  BY <1>4 DEF transportVars, TrafficInv
<1> QED BY <1>1, <1>2, <1>3, <1>4 DEF Radio!Next

\* The sort of the queue has a first element: of every prefix one entry is
\* ahead of the others.
LEMMA QueueHasHead ==
  ASSUME TrafficInv, traffic # <<>>
  PROVE  \E i \in DOMAIN traffic : \A j \in DOMAIN traffic : Radio!Ahead(i, j)
<1> DEFINE n == Len(traffic)
           P(k) == \E i \in 1..k : \A j \in 1..k : Radio!Ahead(i, j)
           Bad == {k \in 1..n : ~P(k)}
<1>1. n \in Nat \ {0} /\ DOMAIN traffic = 1..n
  BY DEF TrafficInv
<1>2. \A i \in 1..n : traffic[i].priority \in Int /\ Radio!Rank[traffic[i].type] \in Nat
  <2>1. \A i \in 1..n : traffic[i] \in Radio!Traffic
    BY DEF TrafficInv
  <2>2. \A t \in DOMAIN Radio!Rank : Radio!Rank[t] \in Nat
    BY DEF Radio!Rank
  <2> QED BY <2>1, <2>2, TrafficConstants DEF Radio!Traffic
<1>3. \A i, j \in 1..n : Radio!Ahead(i, j) \/ Radio!Ahead(j, i)
  BY <1>2 DEF Radio!Ahead
<1>4. \A i, j, k \in 1..n : Radio!Ahead(i, j) /\ Radio!Ahead(j, k) => Radio!Ahead(i, k)
  BY <1>2 DEF Radio!Ahead
<1>5. ASSUME Bad # {} PROVE FALSE
  <2>1. Bad \subseteq Nat
    BY <1>1
  <2>2. PICK k \in Bad : \A m \in Bad : k <= m
    <3> HIDE DEF Bad
    <3> QED BY <1>5, <2>1, LeastNat
  <2>3. k # 1
    BY <1>1, <1>3
  <2>4. k \in 1..n /\ k - 1 \in 1..n /\ ~(k <= k - 1)
    BY <1>1, <2>3
  <2>5. P(k - 1)
    BY <2>2, <2>4
  <2>6. PICK i \in 1..(k - 1) : \A j \in 1..(k - 1) : Radio!Ahead(i, j)
    BY <2>5
  <2>7. i \in 1..n /\ i \in 1..k /\ k \in 1..k
        /\ \A j \in 1..k : j \in 1..n /\ (j = k \/ j \in 1..(k - 1))
    BY <1>1, <2>4
  <2>8. CASE Radio!Ahead(i, k)
    BY <2>2, <2>6, <2>7, <2>8
  <2>9. CASE Radio!Ahead(k, i)
    BY <1>3, <1>4, <2>2, <2>4, <2>6, <2>7, <2>9
  <2> QED BY <1>3, <2>4, <2>7, <2>8, <2>9
<1>6. P(n)
  <2>1. n \in 1..n
    BY <1>1
  <2>2. n \notin Bad
    <3> HIDE DEF Bad
    <3> QED BY <1>5
  <2> QED BY <2>1, <2>2
<1> QED BY <1>1, <1>6

\* A comparison that passes puts an SOS at the head of every bearer's queue,
\* whichever of several entries the loader looked at.
THEOREM SosLeads == GatesSpec => []SosLeadsWherePassed
<1>1. GatesInit => TrafficInv
  BY DEF GatesInit, Radio!Init, TrafficInv
<1>2. TrafficInv /\ [GatesNext]_gatesVars => TrafficInv'
  BY TrafficNext, StepsApart
<1>3. TrafficInv => SosLeadsWherePassed
  <2> SUFFICES ASSUME TrafficInv, Radio!Loads, Radio!SosFirst
               PROVE  \E s \in Radio!Of("sos") : \A i \in DOMAIN traffic :
                        /\ traffic[s].priority <= traffic[i].priority
                        /\ traffic[i].type = "location" => traffic[s].priority < traffic[i].priority
    BY DEF SosLeadsWherePassed, Radio!SosLeadsWherePassed, Radio!ComparisonPasses
  <2>1. traffic # <<>>
    <3>1. Radio!Of("sos") # {}
      BY DEF Radio!Loads, Radio!Rank
    <3> QED BY <3>1 DEF Radio!Of
  <2>2. PICK s \in DOMAIN traffic : \A j \in DOMAIN traffic : Radio!Ahead(s, j)
    BY <2>1, QueueHasHead
  <2>3. s \in Radio!QueueHead
    BY <2>2 DEF Radio!QueueHead
  <2>4. traffic[s].type = "sos" /\ s \in Radio!Of("sos")
    BY <2>3 DEF Radio!SosFirst, Radio!Of
  <2>5. \A i \in DOMAIN traffic : traffic[i].priority \in Int
    <3>1. \A i \in DOMAIN traffic : traffic[i] \in Radio!Traffic
      BY DEF TrafficInv
    <3> QED BY <3>1, TrafficConstants DEF Radio!Traffic
  <2> QED BY <2>2, <2>4, <2>5 DEF Radio!Ahead, Radio!Rank
<1> QED BY <1>1, <1>2, <1>3, PTL DEF GatesSpec

-----------------------------------------------------------------------------
(* AssetIntake                                                             *)

\* What is filed is one of the records, and a file holds a manifest or none.
AssetsInv ==
  /\ register \in Seq(Authorization)
  /\ files \in [1..MaxFiles -> Manifest \cup {Assets!Absent}]

LEMMA AssetsNext ==
  ASSUME AssetsInv, Assets!Next \/ UNCHANGED assetVars
  PROVE  AssetsInv'
<1>1. ASSUME NEW a \in Authorization, Assets!Authorize(a) PROVE AssetsInv'
  BY <1>1, AppendProperties DEF Assets!Authorize, AssetsInv
<1>2. CASE Assets!Withdraw
  BY <1>2, RemovedAt DEF Assets!Withdraw, Assets!RemoveAt, AssetsInv
<1>3. ASSUME NEW f \in 1..MaxFiles, NEW m \in Manifest \cup {Assets!Absent}, Assets!File(f, m)
      PROVE  AssetsInv'
  BY <1>3 DEF Assets!File, AssetsInv
<1>4. CASE UNCHANGED assetVars
  BY <1>4 DEF assetVars, AssetsInv
<1> QED BY <1>1, <1>2, <1>3, <1>4 DEF Assets!Next

LEMMA CardinalityOfAssets == \A S : Assets!Cardinality(S) = Cardinality(S)
BY DEF Assets!Cardinality, Cardinality

\* Records of which no two are of one category: the first of a category is the
\* only one.
LEMMA OnlyOne ==
  ASSUME NEW records, IsFiniteSet(DOMAIN records), DOMAIN records \subseteq Nat, NEW c,
         Assets!FirstOf(records, c) # Assets!Absent, ~(Assets!Count(records, c) > 1)
  PROVE  \E i \in DOMAIN records :
           /\ records[i].category = c /\ Assets!FirstOf(records, c) = records[i]
           /\ \A j \in DOMAIN records : records[j].category = c => j = i
<1> DEFINE R == Assets!InCategory(records, c)
<1>1. R # {}
  BY DEF Assets!FirstOf, Assets!At
<1>2. R \in SUBSET (DOMAIN records)
  BY DEF Assets!InCategory
<1>3. IsFiniteSet(R) /\ Cardinality(R) \in Nat
  BY <1>2, FS_Subset, FS_CardinalityType
<1>4. Cardinality(R) = 1
  <2>1. Cardinality(R) # 0
    BY <1>1, <1>3, FS_EmptySet
  <2>2. ~(Cardinality(R) > 1)
    BY CardinalityOfAssets DEF Assets!Count
  <2> HIDE DEF R
  <2> QED BY <1>3, <2>1, <2>2
<1>5. PICK i : R = {i}
  BY <1>3, <1>4, FS_Singleton
<1>6. i \in DOMAIN records /\ i \in Nat
  BY <1>2, <1>5
<1>7. Assets!Min({i}) = i
  BY <1>6 DEF Assets!Min
<1>8. Assets!FirstOf(records, c) = records[i]
  BY <1>1, <1>5, <1>7 DEF Assets!FirstOf, Assets!At
<1>9. \A j \in DOMAIN records : records[j].category = c <=> j \in R
  BY DEF Assets!InCategory
<1> QED BY <1>5, <1>6, <1>8, <1>9

\* Then there are as many records as categories.
LEMMA OneEach ==
  ASSUME NEW records, IsFiniteSet(DOMAIN records),
         \A i \in DOMAIN records : records[i].category \in AssetCategory,
         \A c \in AssetCategory : \E i \in DOMAIN records :
           /\ records[i].category = c
           /\ \A j \in DOMAIN records : records[j].category = c => j = i
  PROVE  Cardinality(DOMAIN records) = Cardinality(AssetCategory)
<1> DEFINE f == [i \in DOMAIN records |-> records[i].category]
<1>1. f \in Bijection(DOMAIN records, AssetCategory)
  BY DEF Bijection, Injection, IsInjective, Surjection
<1> QED BY <1>1, FS_Bijection DEF ExistsBijection

\* No two records of governed categories share a field nobody reuses.
LEMMA NotReused ==
  ASSUME NEW records, NEW field,
         \A i \in DOMAIN records : records[i].category \in AssetCategory,
         \A i \in DOMAIN records : records[i][field] \notin Assets!Reused(records, field)
  PROVE  /\ Assets!Reused(records, field) = {}
         /\ \A i, j \in DOMAIN records : i # j => records[i][field] # records[j][field]
BY DEF Assets!Reused

\* Each category has one record and one manifest, and no reason to be refused.
LEMMA ReadyCategory ==
  ASSUME NEW reg, NEW ms, Assets!Ready(reg, ms), NEW c \in AssetCategory
  PROVE  /\ ~Assets!RegisterFails(reg, c) /\ ~Assets!FilesFail(ms, c)
         /\ Assets!FirstOf(reg, c) # Assets!Absent /\ Assets!FirstOf(ms, c) # Assets!Absent
         /\ ~Assets!PairFails(Assets!FirstOf(reg, c), Assets!FirstOf(ms, c))
<1>1. Assets!Status(reg, ms, c) = "validated_for_acceptance_gate"
  BY DEF Assets!Ready
<1> QED BY <1>1 DEF Assets!Status

\* With the ids of their custodies put right, manifests the intake calls ready
\* are accepted.
LEMMA ReadyIsAccepted ==
  ASSUME NEW reg \in Seq(Authorization), NEW ms, IsFiniteSet(DOMAIN ms), DOMAIN ms \subseteq Nat,
         \A i \in DOMAIN ms : ms[i] \in Manifest, Assets!Ready(reg, ms)
  PROVE  Assets!Accepted(reg, Assets!Relinked(reg, ms))
<1> DEFINE new == Assets!Relinked(reg, ms)
<1>1. /\ \A i \in DOMAIN reg : reg[i] \in Authorization /\ reg[i].category \in AssetCategory
      /\ \A i \in DOMAIN ms : ms[i].category \in AssetCategory
      /\ DOMAIN reg = 1..Len(reg) /\ Len(reg) \in Nat /\ DOMAIN reg \subseteq Nat
  BY DEF Assets!Ready, Assets!Ungoverned
<1>2. IsFiniteSet(DOMAIN reg) /\ Cardinality(DOMAIN reg) = Len(reg)
  BY <1>1, FS_Interval
<1>3. \A c \in AssetCategory :
        /\ ~(Assets!Count(reg, c) > 1) /\ ~(Assets!Count(ms, c) > 1)
        /\ Assets!FirstOf(reg, c) # Assets!Absent /\ Assets!FirstOf(ms, c) # Assets!Absent
  BY ReadyCategory DEF Assets!RegisterFails, Assets!FilesFail
<1>4. \A c \in AssetCategory : \E i \in DOMAIN reg :
        /\ reg[i].category = c /\ Assets!FirstOf(reg, c) = reg[i]
        /\ \A j \in DOMAIN reg : reg[j].category = c => j = i
  BY <1>1, <1>2, <1>3, OnlyOne
<1>5. \A c \in AssetCategory : \E i \in DOMAIN ms :
        /\ ms[i].category = c /\ Assets!FirstOf(ms, c) = ms[i]
        /\ \A j \in DOMAIN ms : ms[j].category = c => j = i
  BY <1>3, OnlyOne
<1>6. Len(reg) = Cardinality(AssetCategory) /\ Cardinality(DOMAIN ms) = Cardinality(AssetCategory)
  BY <1>1, <1>2, <1>4, <1>5, OneEach
<1>7. /\ \A i \in DOMAIN reg : Assets!FirstOf(reg, reg[i].category) = reg[i]
      /\ \A i \in DOMAIN ms : Assets!FirstOf(ms, ms[i].category) = ms[i]
  BY <1>1, <1>4, <1>5
<1>8. \A i \in DOMAIN ms : \A j \in Assets!InCategory(ms, ms[i].category) : i <= j
  BY <1>1, <1>5 DEF Assets!InCategory
<1>9. Assets!Kept(ms) = [i \in DOMAIN ms |-> ms[i]]
  BY <1>1, <1>8 DEF Assets!Kept
<1>10. Assets!RegisterAccepted(reg)
  <2>1. \A i \in DOMAIN reg : /\ reg[i].valid
                              /\ reg[i].id \notin Assets!Reused(reg, "id")
                              /\ reg[i].evidence \notin Assets!Reused(reg, "evidence")
    BY <1>1, ReadyCategory DEF Assets!RegisterFails
  <2>2. /\ \A i, j \in DOMAIN reg : i # j => reg[i].id # reg[j].id
        /\ Assets!Reused(reg, "evidence") = {}
    <3>1. \A i \in DOMAIN reg : /\ reg[i]["id"] \notin Assets!Reused(reg, "id")
                                /\ reg[i]["evidence"] \notin Assets!Reused(reg, "evidence")
      BY <2>1
    <3> QED BY <1>1, <3>1, NotReused
  <2> QED BY <1>1, <1>6, <2>1, <2>2, CardinalityOfAssets DEF Assets!RegisterAccepted
<1>11. /\ DOMAIN new = DOMAIN ms
       /\ \A i \in DOMAIN ms :
            /\ new[i] = [ms[i] EXCEPT !.link = Assets!FirstOf(reg, ms[i].category).id]
            /\ new[i].link = Assets!FirstOf(reg, ms[i].category).id
            /\ new[i].category = ms[i].category /\ new[i].candidate = ms[i].candidate
            /\ new[i].asset = ms[i].asset /\ new[i].method = ms[i].method /\ new[i].custodian = ms[i].custodian
            /\ new[i].receipt = ms[i].receipt /\ new[i].serial = ms[i].serial
            /\ new[i].inspection = ms[i].inspection /\ new[i].inspectedAt = ms[i].inspectedAt
            /\ new[i].valid = ms[i].valid /\ new[i].review = ms[i].review
            /\ new[i].sourcesLate = ms[i].sourcesLate
  BY AssetConstants DEF Assets!Relinked
<1>12. Assets!FilesAccepted(new)
  <2>1. {new[i].category : i \in DOMAIN new} = AssetCategory
    BY <1>1, <1>5, <1>11
  <2>2. \A i \in DOMAIN new : ~Assets!ManifestFails(new[i])
    <3>1. \A i \in DOMAIN ms : ~Assets!ManifestFails(ms[i])
      BY <1>1, ReadyCategory DEF Assets!FilesFail
    <3> QED BY <1>11, <3>1 DEF Assets!ManifestFails, Assets!ReviewFails
  <2>3. \A i \in DOMAIN ms :
          /\ ms[i].asset \notin Assets!Reused(Assets!Kept(ms), "asset")
          /\ ms[i].serial \notin Assets!Reused(Assets!Kept(ms), "serial")
          /\ ms[i].receipt \notin Assets!Reused(Assets!Kept(ms), "receipt")
          /\ ms[i].inspection \notin Assets!Reused(Assets!Kept(ms), "inspection")
    BY <1>1, <1>9, ReadyCategory DEF Assets!FilesFail
  <2>4. \A field \in {"asset", "serial", "receipt", "inspection"} :
          Assets!Reused(Assets!Kept(ms), field) = Assets!Reused(new, field)
    <3>1. /\ DOMAIN Assets!Kept(ms) = DOMAIN new
          /\ \A i \in DOMAIN new : Assets!Kept(ms)[i].category = new[i].category
      BY <1>9, <1>11
    <3>2. \A i \in DOMAIN new : \A field \in {"asset", "serial", "receipt", "inspection"} :
            Assets!Kept(ms)[i][field] = new[i][field]
      BY <1>9, <1>11
    <3> HIDE DEF new
    <3> QED BY <3>1, <3>2 DEF Assets!Reused
  <2>5. /\ Assets!Reused(new, "asset") = {} /\ Assets!Reused(new, "serial") = {}
        /\ Assets!Reused(new, "receipt") = {} /\ Assets!Reused(new, "inspection") = {}
    <3>1. \A i \in DOMAIN new : new[i].category \in AssetCategory
      BY <1>1, <1>11
    <3>2. \A i \in DOMAIN new :
            /\ new[i]["asset"] \notin Assets!Reused(new, "asset")
            /\ new[i]["serial"] \notin Assets!Reused(new, "serial")
            /\ new[i]["receipt"] \notin Assets!Reused(new, "receipt")
            /\ new[i]["inspection"] \notin Assets!Reused(new, "inspection")
      BY <1>11, <2>3, <2>4
    <3> QED BY <3>1, <3>2, NotReused
  <2> QED BY <1>6, <1>11, <2>1, <2>2, <2>5, CardinalityOfAssets DEF Assets!FilesAccepted
<1>13. ASSUME NEW i \in DOMAIN new
       PROVE  LET a == Assets!Linked(reg, new[i]) IN a # Assets!Absent /\ ~Assets!PairFails(a, new[i])
  <2> DEFINE a == Assets!FirstOf(reg, ms[i].category)
  <2>1. i \in DOMAIN ms /\ ms[i].category \in AssetCategory
    BY <1>1, <1>11
  <2>2. PICK k \in DOMAIN reg : reg[k].category = ms[i].category /\ a = reg[k]
    BY <1>4, <2>1
  <2>3. \A j \in DOMAIN reg : reg[j].id = new[i].link => j = k
    BY <1>10, <1>11, <2>1, <2>2 DEF Assets!RegisterAccepted
  <2>4. {j \in DOMAIN reg : reg[j].id = new[i].link} = {k}
    BY <1>11, <2>1, <2>2, <2>3
  <2>5. Assets!Min({k}) = k
    BY <1>1 DEF Assets!Min
  <2>6. Assets!Linked(reg, new[i]) = a
    BY <2>2, <2>4, <2>5 DEF Assets!Linked, Assets!At
  <2>7. a # Assets!Absent /\ ~Assets!PairFails(a, ms[i])
    BY <1>7, <2>1, ReadyCategory
  <2>8. ~Assets!PairFails(a, new[i])
    BY <1>11, <2>1, <2>7 DEF Assets!PairFails, Assets!Matches, Assets!InspectedEarly
  <2> QED BY <2>6, <2>7, <2>8
<1> QED BY <1>10, <1>12, <1>13 DEF Assets!Accepted

\* Evidence the intake calls ready lacks nothing the gate asks for but the ids
\* its custodies name.
THEOREM ReadyIsAlmostAccepted == GatesSpec => []ReadyLacksOnlyLinks
<1>1. GatesInit => AssetsInv
  BY AssetConstants DEF GatesInit, Assets!Init, AssetsInv
<1>2. AssetsInv /\ [GatesNext]_gatesVars => AssetsInv'
  BY AssetsNext, StepsApart
<1>3. AssetsInv => ReadyLacksOnlyLinks
  <2> DEFINE ms == Assets!Manifests(files)
  <2> SUFFICES ASSUME AssetsInv, Assets!Ready(register, ms)
               PROVE  Assets!Accepted(register, Assets!Relinked(register, ms))
    BY DEF ReadyLacksOnlyLinks, Assets!ReadyLacksOnlyLinks
  <2>1. DOMAIN ms \in SUBSET (1..MaxFiles) /\ \A i \in DOMAIN ms : ms[i] \in Manifest
    BY DEF Assets!Manifests, AssetsInv
  <2>2. IsFiniteSet(DOMAIN ms) /\ DOMAIN ms \subseteq Nat
    <3>1. IsFiniteSet(1..MaxFiles) /\ 1..MaxFiles \subseteq Nat
      BY FS_Interval, AssetConstants
    <3> HIDE DEF ms
    <3> QED BY <2>1, <3>1, FS_Subset
  <2> HIDE DEF ms
  <2> QED BY <2>1, <2>2, ReadyIsAccepted DEF AssetsInv
<1> QED BY <1>1, <1>2, <1>3, PTL DEF GatesSpec

=============================================================================
