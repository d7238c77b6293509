------------------------------- MODULE Fusion -------------------------------
(***************************************************************************)
(* The deterministic rules of openbrec/fusion.py and the evidence query of *)
(* openbrec/fusion_store.py, as operators on sets of observations.         *)
(*                                                                         *)
(* An observation is a record                                              *)
(*   [id, sensor, type, kind, quality, zone, start, end, absent]           *)
(* where start and end are the window's timestamps (the contract admits a  *)
(* single canonical UTC format, so the string order the code compares is   *)
(* the order of time), quality is in tenths and absent is the set          *)
(* capabilities_absent.  zone is a value of its own when zone_id is left   *)
(* out.                                                                    *)
(***************************************************************************)
EXTENDS Integers, FiniteSetsExt

CONSTANTS
  MinEvidenceQuality,  \* MIN_EVIDENCE_QUALITY, in tenths
  EvidenceLookback,    \* EVIDENCE_LOOKBACK_S
  EvidenceLimit        \* the query's LIMIT, 100 in the code

ASSUME FusionConstants ==
  /\ MinEvidenceQuality \in Int
  /\ EvidenceLookback \in Nat
  /\ EvidenceLimit \in Nat \ {0}

Usable(o) == o.kind = "measurement" /\ o.quality >= MinEvidenceQuality

\* Two observations meet when one falls in the other's widened window.
InWindow(o, x) ==
  /\ x.zone = o.zone
  /\ x.end >= o.start - EvidenceLookback
  /\ x.start <= o.end + EvidenceLookback

\* ORDER BY window_start, observation_id
Precedes(x, y) == x.start < y.start \/ (x.start = y.start /\ x.id < y.id)

Meeting(rows, o) == {x \in rows : InWindow(o, x)}

\* Seeded fault: the LIMIT is off by one.
EvidenceShort(rows, o) ==
  {x \in Meeting(rows, o) :
     Cardinality({y \in Meeting(rows, o) : Precedes(y, x)}) < EvidenceLimit - 1}

\* The first EvidenceLimit rows that meet o: the oldest windows are kept.
Evidence(rows, o) ==
  {x \in Meeting(rows, o) :
     Cardinality({y \in Meeting(rows, o) : Precedes(y, x)}) < EvidenceLimit}

Corroborated(usable) ==
  /\ Cardinality({o.sensor : o \in usable}) >= 2
  /\ Cardinality({o.type : o \in usable}) >= 2

\* fuse_observations: a function of the evidence as a set, so the arrival
\* order cannot matter.  The confidence is a function of the coverage.
Fuse(evidence, zone) ==
  LET usable == {o \in evidence : Usable(o)}
  IN  [support  |-> {o.id : o \in usable},
       zone     |-> zone,
       start    |-> Min({o.start : o \in evidence}),
       end      |-> Max({o.end : o \in evidence}),
       state    |-> IF usable = {} THEN "abstained" ELSE "indicator",
       coverage |-> IF usable = {} THEN "insufficient"
                    ELSE IF Corroborated(usable) THEN "sufficient"
                    ELSE "single-source",
       absent   |-> UNION {o.absent : o \in IF usable = {} THEN evidence ELSE usable}]

\* Seeded fault: the recipe forgets the supporting observations.
ResultIdUnsupported(r) == <<r.zone, r.start, r.end>>

\* _result_id: the recipe hashed into result_id.  The engine configuration is
\* constant; what the result says of absent capabilities is not in the recipe.
ResultId(r) == <<r.support, r.zone, r.start, r.end>>

=============================================================================
