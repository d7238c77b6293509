---------------------------- MODULE FusionLedger ----------------------------
(***************************************************************************)
(* What the runtime promises about its durable state, without queues,      *)
(* workers or failures: four collections that only grow, each entry        *)
(* supported by what was committed before it.  The rule that turns         *)
(* evidence into a result is a parameter.                                  *)
(***************************************************************************)
EXTENDS Integers, Sequences

CONSTANTS
  Observation,
  InWindow(_, _),   \* two observations may be evidence for one result
  Fuse(_, _),       \* the result of a set of evidence in a zone
  ResultId(_)       \* the identity of a result

VARIABLES
  log,      \* the accepted units, in order
  rows,     \* the observations of the read model
  results,  \* the fusion results of the read model
  notices   \* what was announced as durably processed

vars == <<log, rows, results, notices>>

Init == log = <<>> /\ rows = {} /\ results = {} /\ notices = {}

Accepted(o) == \E k \in DOMAIN log : log[k] = o

Accept(o) ==
  /\ ~Accepted(o)
  /\ log' = Append(log, o)
  /\ UNCHANGED <<rows, results, notices>>

Show(o) ==
  /\ Accepted(o)
  /\ \A x \in rows : x.id # o.id
  /\ rows' = rows \cup {o}
  /\ UNCHANGED <<log, results, notices>>

\* Evidence about the observation o of the read model.
Supports(evidence, o) ==
  /\ o \in rows /\ evidence \subseteq rows /\ evidence # {}
  /\ \A x \in evidence : InWindow(o, x)

Conclude(o, evidence) ==
  /\ Supports(evidence, o)
  /\ \A r \in results : ResultId(r) # ResultId(Fuse(evidence, o.zone))
  /\ results' = results \cup {Fuse(evidence, o.zone)}
  /\ UNCHANGED <<log, rows, notices>>

Announce(o, evidence) ==
  /\ Supports(evidence, o)
  /\ Fuse(evidence, o.zone) \in results
  /\ notices' = notices \cup {[id |-> o.id, result |-> Fuse(evidence, o.zone)]}
  /\ UNCHANGED <<log, rows, results>>

Next ==
  \E o \in Observation :
    \/ Accept(o) \/ Show(o)
    \/ \E evidence \in SUBSET rows : Conclude(o, evidence) \/ Announce(o, evidence)

Spec == Init /\ [][Next]_vars

=============================================================================
