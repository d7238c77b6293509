--------------------------- MODULE ContractAssets ---------------------------
(***************************************************************************)
(* openbrec/contracts.py: schemas, the catalog and the compatibility       *)
(* baseline that record their hashes, and the consumers generated from     *)
(* them.  A sync builds one tree after the other aside, reading the        *)
(* schemas again for each, then replaces them one after the other,         *)
(* removing a tree before it copies the new one.                           *)
(***************************************************************************)
EXTENDS Integers, Sequences, FiniteSets, SequencesExt

CONSTANTS
  Sets,    \* contract sets: "core" and "addon"
  Targets, \* the sequence of <<set, kind>> trees a sync visits
  Version, \* contents of a schema file, and so of its hash
  MaxEdits \* bound

\* Absent, or the part of itself an interrupted copy left: neither equals a tree.
Missing == "missing"

VARIABLES
  schema,   \* [Sets -> Version]: the files of the set
  catalog,  \* [Sets -> [set, entry]]: hashes the catalog declares
  baseline, \* [Sets -> [set, entry]]: hashes the baseline declares
  tree,     \* [targets -> Version or Missing]: the generated trees
  sync,     \* [at, built]: the next target to replace, 0 outside a sync, and what
            \*   it built of each tree so far, Missing of the others
  stale,    \* a schema was edited since the last sync began, or it was interrupted
  edits     \* bounded by MaxEdits

vars == <<schema, catalog, baseline, tree, sync, stale, edits>>

NoTrees == [t \in ToSet(Targets) |-> Missing]

Records == [set : Version, entry : Version]

Init ==
  \E v \in Version :
    /\ schema = [s \in Sets |-> v]
    /\ catalog = [s \in Sets |-> [set |-> v, entry |-> v]]
    /\ baseline = catalog
    /\ tree = [t \in ToSet(Targets) |-> v]
    /\ sync = [at |-> 0, built |-> NoTrees]
    /\ stale = FALSE
    /\ edits = 0

Edited == edits < MaxEdits /\ edits' = edits + 1

EditSchema(s, v) ==
  /\ Edited
  /\ schema' = [schema EXCEPT ![s] = v]
  /\ stale' = TRUE
  /\ UNCHANGED <<catalog, baseline, tree, sync>>

EditCatalog(s, r) ==
  /\ Edited
  /\ catalog' = [catalog EXCEPT ![s] = r]
  /\ UNCHANGED <<schema, baseline, tree, sync, stale>>

EditBaseline(s, r) ==
  /\ Edited
  /\ baseline' = [baseline EXCEPT ![s] = r]
  /\ UNCHANGED <<schema, catalog, tree, sync, stale>>

-----------------------------------------------------------------------------
(* sync_generated_assets(check=False) *)

Generate ==
  /\ sync.at = 0
  /\ sync' = [at |-> 1, built |-> NoTrees]
  /\ stale' = FALSE
  /\ UNCHANGED <<schema, catalog, baseline, tree, edits>>

Built(t) == sync.built[t]

Unbuilt == {k \in DOMAIN Targets : Built(Targets[k]) = Missing}

\* One of generate_fixture_tree, generate_python_models and
\* generate_typescript_models, for one set: each reads the schemas for itself.
BuildTree ==
  /\ sync.at # 0
  /\ \E k \in Unbuilt :
       /\ \A j \in Unbuilt : k <= j
       /\ sync' = [sync EXCEPT !.built[Targets[k]] = schema[Targets[k][1]]]
  /\ UNCHANGED <<schema, catalog, baseline, tree, stale, edits>>

\* Seeded fault: a tree that exists is taken to be the one to have.
DiffersIfMissing(t) == tree[t] = Missing

\* _tree_bytes(source) != _tree_bytes(destination)
Differs(t) == tree[t] # Built(t)

Visiting == sync.at \in DOMAIN Targets /\ Unbuilt = {}

\* After the last tree the temporary directory is gone.
Advance ==
  sync' = IF sync.at = Len(Targets) THEN [at |-> 0, built |-> NoTrees]
          ELSE [sync EXCEPT !.at = @ + 1]

Keep ==
  /\ Visiting /\ ~Differs(Targets[sync.at])
  /\ Advance
  /\ UNCHANGED <<schema, catalog, baseline, tree, stale, edits>>

\* shutil.rmtree
RemoveTree ==
  /\ Visiting
  /\ Differs(Targets[sync.at]) /\ tree[Targets[sync.at]] # Missing
  /\ tree' = [tree EXCEPT ![Targets[sync.at]] = Missing]
  /\ UNCHANGED <<schema, catalog, baseline, sync, stale, edits>>

\* shutil.copytree
CopyTree ==
  /\ Visiting /\ tree[Targets[sync.at]] = Missing
  /\ tree' = [tree EXCEPT ![Targets[sync.at]] = Built(Targets[sync.at])]
  /\ Advance
  /\ UNCHANGED <<schema, catalog, baseline, stale, edits>>

\* Interrupted: what it built is gone, and the trees stay as they are.
Interrupt ==
  /\ sync.at # 0
  /\ sync' = [at |-> 0, built |-> NoTrees]
  /\ stale' = TRUE
  /\ UNCHANGED <<schema, catalog, baseline, tree, edits>>

Next ==
  \/ \E s \in Sets, v \in Version : EditSchema(s, v)
  \/ \E s \in Sets, r \in Records : EditCatalog(s, r) \/ EditBaseline(s, r)
  \/ Generate \/ BuildTree \/ Keep \/ RemoveTree \/ CopyTree \/ Interrupt

Spec == Init /\ [][Next]_vars

-----------------------------------------------------------------------------
(* The gates. *)

\* validate_core_schemas and validate_addon_schemas, from the files.
CoreSchemas == "core" \in Sets => catalog["core"].set = schema["core"]
AddonSchemas == "addon" \in Sets => catalog["addon"].set = schema["addon"]

\* sync_generated_assets(check=True)
Generated == \A t \in ToSet(Targets) : tree[t] = schema[t[1]]

\* validate_compatibility: one declaration against the other, no file read.
Compatible == \A s \in Sets : baseline[s] = catalog[s]

GatesPass == CoreSchemas /\ AddonSchemas /\ Generated /\ Compatible

-----------------------------------------------------------------------------
(* Once a sync has run to its end and no schema was edited since it began, *)
(* the check finds nothing to say: an earlier one that was interrupted     *)
(* between removing a tree and copying it, or that built from schemas      *)
(* edited meanwhile, leaves no trace.                                      *)
SyncIsWhole == ~stale /\ sync.at = 0 => Generated

(* When every gate passes, one version of each set is in its files, its    *)
(* consumers and the hashes of both records, whatever was edited and       *)
(* wherever a sync was interrupted, and the two records agree on entries.  *)
OneVersion ==
  GatesPass => \A s \in Sets :
    /\ {schema[s], catalog[s].set, baseline[s].set} = {schema[s]}
    /\ {tree[t] : t \in {u \in ToSet(Targets) : u[1] = s}} \subseteq {schema[s]}
    /\ baseline[s].entry = catalog[s].entry

(* The hash an entry of the catalog declares is that of its file.          *)
EntriesAreTrue == GatesPass => \A s \in Sets : catalog[s].entry = schema[s]
=============================================================================
