------------------------------- MODULE Records -------------------------------
(***************************************************************************)
(* The parts of the system that make something of records: the SQLite      *)
(* vault, and what is computed of SOS events, of the events of response    *)
(* cells, of beacon observations and authorizations, of RF lines, of the   *)
(* simulated faults and of recorded bundles.  They share no state, so a    *)
(* behaviour moves one of them, `part', and leaves the others as they      *)
(* begin.                                                                  *)
(***************************************************************************)
EXTENDS EvidenceVault

CONSTANTS
  SosEvent, MaxArrived,                                          \* SosHistory
  Cells, ConflictCount, Extra, MaxDelivered,                     \* Federation
  Source, Authorization, Material, Time, MaxBreakGlass, MaxLogged, \* BeaconCampaign
  Line, Cases, OwnFleet, Companions, ProfileOf, Window, Modalities, CsiCases, MaxLines, \* RfSensing
  Node, Zone, ZoneOf, Nominal, Strikes,                          \* Simulator
  Recorded, Foreign, Received, MaxBundle, MaxLog                 \* Replay

\* Times and ids are ordered, here as numbers, and an id is of one event.
ASSUME SosConstants ==
  /\ \A e \in SosEvent : e.at \in Int /\ e.id \in Int
  /\ \A e, f \in SosEvent : e.id = f.id => e = f

\* Times are numbers; the schema gives every authorization event both of its own.
ASSUME AuthorityConstants ==
  /\ Time \subseteq Int /\ MaxBreakGlass \in Nat
  /\ \A e \in Authorization : e.from \in Int /\ e.until \in Int

\* A scenario has a few nodes, each of a quality that is no less than zero.
ASSUME ScenarioConstants ==
  IsFiniteSet(Node) /\ \A n \in Node : Nominal[n] \in Nat

VARIABLES
  part,                              \* the component that moves
  arrived,                           \* SosHistory
  received,                          \* Federation
  sources, log, kept,                \* BeaconCampaign
  campaign, lines, active, windows,  \* RfSensing
  strikes, enabled,                  \* Simulator
  bundle, sound, written             \* Replay

beaconVars == <<sources, log, kept>>
rfVars == <<campaign, lines, active, windows>>
simVars == <<strikes, enabled>>
replayVars == <<bundle, sound, written>>

Sos == INSTANCE SosHistory WITH MaxEvents <- MaxArrived

Fed == INSTANCE Federation WITH MaxEvents <- MaxDelivered

Beacon == INSTANCE BeaconCampaign WITH MaxEvents <- MaxLogged

Rf == INSTANCE RfSensing WITH Sources <- Modalities

Sim == INSTANCE Simulator

Rep == INSTANCE Replay WITH Observation <- Recorded, log <- written

-----------------------------------------------------------------------------
Parts == {"vault", "sos", "federation", "beacons", "rf", "simulator", "replay"}

\* A component that does not move begins in one way.
RecordsInit ==
  /\ part \in Parts
  /\ Init /\ Sos!Init /\ Fed!Init /\ Beacon!Init
  /\ Rf!Init /\ (part # "rf" => campaign = "passive")
  /\ Sim!Init /\ (part # "simulator" => strikes = CHOOSE s \in Strikes : TRUE)
  /\ Rep!Init /\ (part # "replay" => sound)

VaultMoves ==
  part = "vault" /\ Next
  /\ UNCHANGED <<part, arrived, received, beaconVars, rfVars, simVars, replayVars>>

SosMoves ==
  part = "sos" /\ Sos!Next
  /\ UNCHANGED <<part, vars, received, beaconVars, rfVars, simVars, replayVars>>

FederationMoves ==
  part = "federation" /\ Fed!Next
  /\ UNCHANGED <<part, vars, arrived, beaconVars, rfVars, simVars, replayVars>>

BeaconsMove ==
  part = "beacons" /\ Beacon!Next
  /\ UNCHANGED <<part, vars, arrived, received, rfVars, simVars, replayVars>>

RfMoves ==
  part = "rf" /\ Rf!Next
  /\ UNCHANGED <<part, vars, arrived, received, beaconVars, simVars, replayVars>>

SimulatorMoves ==
  part = "simulator" /\ Sim!Next
  /\ UNCHANGED <<part, vars, arrived, received, beaconVars, rfVars, replayVars>>

ReplayMoves ==
  part = "replay" /\ Rep!Next
  /\ UNCHANGED <<part, vars, arrived, received, beaconVars, rfVars, simVars>>

RecordsNext ==
  VaultMoves \/ SosMoves \/ FederationMoves \/ BeaconsMove \/ RfMoves \/ SimulatorMoves \/ ReplayMoves

recordsVars ==
  <<part, vars, arrived, received, beaconVars, rfVars, simVars, replayVars>>

RecordsSpec == RecordsInit /\ [][RecordsNext]_recordsVars

-----------------------------------------------------------------------------
(* openbrec/messaging.py reduce_sos: the order of arrival decides only     *)
(* between an event and a cause of its own time.                           *)
OnlyTiesMatter == Sos!OnlyTiesMatter

(* openbrec/messaging.py: a history of SOS events that is refused is       *)
(* healed only by a cause that was missing.                                *)
OnlyACauseHeals == Sos!OnlyACauseHeals

(* openbrec/open_spec_messaging.py: the replay of the specification agrees *)
(* with the one of the program on what stands and what is refused.         *)
SpecAgrees == Sos!SpecAgrees

(* openbrec/federation.py _reconcile: of two claims of one offer a hub     *)
(* never quietly keeps one.                                                *)
ClaimsStayVisible == Fed!ClaimsStayVisible

(* openbrec/beacons.py: a capture has two people, or a commander, behind   *)
(* it, whatever else is in the log and in which order.                     *)
CaptureHasAuthority == Beacon!CaptureHasAuthority

(* openbrec/rf_sensing.py: the few orders a campaign tries stand for all.  *)
PassedIsOrderFree == Rf!PassedIsOrderFree

(* openbrec/simulator.py: a fault more never raises a zone's confidence.   *)
ConfidenceOnlyDegrades == Sim!ConfidenceOnlyDegrades

(* openbrec/replay.py: a log in any order, with repetitions, replays to    *)
(* the same end.                                                           *)
ReplayIsOrderFree == Rep!ReplayIsOrderFree

-----------------------------------------------------------------------------
(* More of the same components, in MCRecordsMore.cfg.                      *)

(* A replay of SOS events raises for a reason of the events, and for no    *)
(* other.                                                                  *)
RefusedForAReason == Sos!RefusedForAReason

(* The terminal and the replay agree on what stands.                       *)
TerminalAgrees == Sos!TerminalAgrees

(* The terminal never shows a message in a state it had left.              *)
NeverFallsBack == Sos!NeverFallsBack

(* The counts of a reconciliation add up.                                  *)
Reconciled == Fed!Reconciled

(* Another event takes nothing away from what a hub shows.                 *)
NothingDisappears == Fed!NothingDisappears

(* One beacon, or one group of beacons, does not corroborate itself.       *)
CorroborationIsIndependent == Beacon!CorroborationIsIndependent

(* Only the order of break-glass events matters.                           *)
OnlyBreakGlassIsOrdered == Beacon!OnlyBreakGlassIsOrdered

(* Only a break-glass takes authority away.                                *)
OnlyBreakGlassRevokes == Beacon!OnlyBreakGlassRevokes

(* What a capture left is governed.                                        *)
MaterialIsGoverned == Beacon!MaterialIsGoverned

(* The counts of a campaign of lines add up.                               *)
LinesReconcile == Rf!LinesReconcile

(* Findings and associations corroborate nothing.                          *)
WeakStaysWeak == Rf!WeakStaysWeak

(* What is published was authorized by two.                                *)
PublishedIsGoverned == Rf!PublishedIsGoverned

(* Silence of a modality cancels nothing.                                  *)
SilenceCancelsNothing == Rf!SilenceCancelsNothing

(* The simulator's counts differ only by nodes lost under another name.    *)
MiscountsAreRenamed == Sim!MiscountsAreRenamed

(* What an adapter passed, the core refuses only for its order.            *)
AdapterFeedsCore == Rep!AdapterFeedsCore

(* The outputs of a replay are a log of their own when it is sparse.       *)
OutputsReplayWhenSparse == Rep!OutputsReplayWhenSparse

-----------------------------------------------------------------------------
(* What a reader may expect and the code does not do, each in a            *)
(* configuration of its own.                                               *)

(* tests/test_rf_sensing.py:128: a campaign that passes is deterministic.  *)
PassedIsDeterministic == Rf!PassedIsDeterministic

(* tests/test_rf_sensing.py:273: an expired profile publishes nothing.     *)
ExpiredPublishesNothing == Rf!ExpiredPublishesNothing

(* tests/test_simulator_m0.py:73: losing a source degrades the coverage.   *)
LossDegradesCoverage == Sim!LossDegradesCoverage

(* A replay ends with a receipt (openbrec/replay.py).                      *)
EndsWithReceipt == Rep!EndsWithReceipt
=============================================================================
