------------------------------- MODULE Gates -------------------------------
(***************************************************************************)
(* The verification commands, and what some of their gates judge: the      *)
(* generated contract assets, the comparison of transports, the integrated *)
(* campaign, the intake of assets and the governance documents.  A gate    *)
(* reads its documents and changes nothing, so a behaviour moves one of    *)
(* them, `part', and leaves the others as they begin.                      *)
(***************************************************************************)
EXTENDS VerificationGates

CONSTANTS
  Sets, Version, Targets, MaxSchemaEdits,                        \* ContractAssets
  Priority, MaxTraffic, Fault, Penalty, Success, Slope, Scale,   \* Transports
  CampaignGates, FileOf, Read, DomainOf, MaxCampaignEdits,       \* IntegratedCampaign
  AssetCategory, Firmware, Authorization, Manifest, MaxRecords, MaxFiles, \* AssetIntake
  PhysicalTask, SpecTask, Residual, Functionality, Category, Name, \* Governance
  MinResiduals, MinCategories, MaxDocumentEdits

\* A sync visits at least one tree (openbrec/contracts.py).
ASSUME ContractConstants == Targets \in Seq(Sets \X STRING) /\ Targets # <<>>

\* The components run one after the other (openbrec/integrated.py).
ASSUME CampaignConstants == CampaignGates \in Seq(DOMAIN FileOf)

\* The entries of a workload state integers.  load_workload looks at the last
\* entry of each type only; another value in an earlier one is not modelled.
ASSUME TrafficConstants == Priority \subseteq Int

\* The fields the schemas of the two records require; a category is never the
\* name the model gives to no record.
ASSUME AssetConstants ==
  /\ IsFiniteSet(AssetCategory) /\ MaxFiles \in Nat
  /\ Authorization \subseteq
       [id : STRING, category : STRING, candidate : STRING, asset : STRING, method : STRING,
        custodian : STRING, evidence : STRING, receipt : STRING, at : Int, valid : BOOLEAN]
  /\ Manifest \subseteq
       [category : STRING, candidate : STRING, asset : STRING, method : STRING,
        custodian : STRING, link : STRING, receipt : STRING, serial : STRING,
        inspection : STRING, inspectedAt : Int, valid : BOOLEAN, review : STRING, sourcesLate : BOOLEAN]

\* The shortlist the repository begins with names the categories.
ASSUME DocumentConstants == IsFiniteSet(Category) /\ Category \subseteq Name

VARIABLES
  part,                                     \* the component that moves
  schema, catalog, baseline, tree, sync, stale, schemaEdits, \* ContractAssets
  traffic, penalty,                         \* Transports
  answer, edited, touched, campaignEdits, expected, results, verdict, \* IntegratedCampaign
  register, files,                          \* AssetIntake
  accepted, stated, spec, registered, refs, shortlist, breached, documentEdits \* Governance

contractVars == <<schema, catalog, baseline, tree, sync, stale, schemaEdits>>
transportVars == <<traffic, penalty>>
campaignVars == <<answer, edited, touched, campaignEdits, expected, results, verdict>>
assetVars == <<register, files>>
documentVars == <<accepted, stated, spec, registered, refs, shortlist, breached, documentEdits>>

Contracts == INSTANCE ContractAssets WITH MaxEdits <- MaxSchemaEdits, edits <- schemaEdits

Radio == INSTANCE Transports

Integrated ==
  INSTANCE IntegratedCampaign WITH
    Gates <- CampaignGates, MaxEdits <- MaxCampaignEdits, edits <- campaignEdits

Assets == INSTANCE AssetIntake WITH Category <- AssetCategory

Documents == INSTANCE Governance WITH MaxEdits <- MaxDocumentEdits, edits <- documentEdits

-----------------------------------------------------------------------------
Parts == {"gates", "contracts", "radio", "integrated", "assets", "documents"}

\* A component that does not move begins in one way.
GatesInit ==
  /\ part \in Parts
  /\ Init /\ Contracts!Init /\ (part # "contracts" => schema = [s \in Sets |-> CHOOSE v \in Version : TRUE])
  /\ Radio!Init /\ (part # "radio" => penalty = [f \in Fault |-> CHOOSE p \in Penalty : TRUE])
  /\ Integrated!Init /\ (part # "integrated" => expected = "TBD")
  /\ Assets!Init /\ Documents!Init

CommandsMove ==
  part = "gates" /\ Next
  /\ UNCHANGED <<part, contractVars, transportVars, campaignVars, assetVars, documentVars>>

ContractsMove ==
  part = "contracts" /\ Contracts!Next
  /\ UNCHANGED <<part, vars, transportVars, campaignVars, assetVars, documentVars>>

RadioMoves ==
  part = "radio" /\ Radio!Next
  /\ UNCHANGED <<part, vars, contractVars, campaignVars, assetVars, documentVars>>

CampaignMoves ==
  part = "integrated" /\ Integrated!Next
  /\ UNCHANGED <<part, vars, contractVars, transportVars, assetVars, documentVars>>

AssetsMove ==
  part = "assets" /\ Assets!Next
  /\ UNCHANGED <<part, vars, contractVars, transportVars, campaignVars, documentVars>>

DocumentsMove ==
  part = "documents" /\ Documents!Next
  /\ UNCHANGED <<part, vars, contractVars, transportVars, campaignVars, assetVars>>

GatesNext ==
  CommandsMove \/ ContractsMove \/ RadioMoves \/ CampaignMoves \/ AssetsMove \/ DocumentsMove

gatesVars ==
  <<part, vars, contractVars, transportVars, campaignVars, assetVars, documentVars>>

GatesSpec == GatesInit /\ [][GatesNext]_gatesVars

-----------------------------------------------------------------------------
(* openbrec/contracts.py: a sync that ran to its end over schemas nobody   *)
(* edited leaves the generated trees as the check wants them.              *)
SyncIsWhole == Contracts!SyncIsWhole

(* openbrec/transports.py: a comparison that passes puts an SOS at the     *)
(* head of every bearer's queue.                                           *)
SosLeadsWherePassed == Radio!SosLeadsWherePassed

(* openbrec/integrated.py: a campaign that passed vouches for the files    *)
(* nobody wrote since it was loaded.                                       *)
PassStands == Integrated!PassStands

(* openbrec/p1a_assets.py: what the intake calls ready the gate accepts,   *)
(* but for the ids that only the gate reads.                               *)
ReadyLacksOnlyLinks == Assets!ReadyLacksOnlyLinks

-----------------------------------------------------------------------------
(* More of the same components, in MCGatesMore.cfg.                        *)

(* When all gates of the contracts pass, one version is everywhere.        *)
OneVersion == Contracts!OneVersion

(* The faults of a workload cost every run a message.                      *)
FaultsAreShown == Radio!FaultsAreShown

(* A campaign that passes hides no failure and no degradation.             *)
PassHidesNothing == Integrated!PassHidesNothing

(* What the gate accepts the intake calls ready.                           *)
AcceptedIsReady == Assets!AcceptedIsReady

(* Accepted evidence pairs each authorization with one manifest.           *)
AcceptedPairsOff == Assets!AcceptedPairsOff

(* A file of one category touches another's row through a shared value.    *)
OthersKeepTheirRow == Assets!OthersKeepTheirRow

-----------------------------------------------------------------------------
(* What a reader may expect and the code does not do, each in a            *)
(* configuration of its own.                                               *)

(* The hash an entry of the catalog declares is that of its file.          *)
EntriesAreTrue == Contracts!EntriesAreTrue

(* Every SOS leaves before other traffic (openbrec/transports.py).         *)
EverySosLeads == Radio!EverySosLeads

(* A campaign that passes against its frozen hash ran on the frozen files  *)
(* (openbrec/integrated.py).                                               *)
PassRanOnFrozen == Integrated!PassRanOnFrozen

(* One degraded domain alone is no failure (openbrec/integrated.py).       *)
DegradationIsNoFailure == Integrated!DegradationIsNoFailure

(* A campaign that fails names what failed (openbrec/integrated.py).       *)
NeverCrashes == Integrated!NeverCrashes

(* The shortlist two gates pass names the governed categories              *)
(* (openbrec/p0_exit.py:105, p1a_readiness.py:146).                        *)
ShortlistIsGoverned == Documents!ShortlistIsGoverned

(* openbrec/open_spec_exit.py:100: the physical lane blocks nothing.       *)
LaneNeverBlocks == Documents!LaneNeverBlocks
=============================================================================
