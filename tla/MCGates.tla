------------------------------ MODULE MCGates ------------------------------
(***************************************************************************)
(* A small instance of Gates.                                              *)
(***************************************************************************)
EXTENDS Gates, TLC

-----------------------------------------------------------------------------
(* The two commands at once, or one of them twice, with short lists: of    *)
(* `all' a build and a gate that starts the stack; of `p0-all' a gate that *)
(* lets exceptions through and one that catches them.                      *)
MCPlan ==
  ("all" :> <<"compose-build", "offline-startup">>) @@ ("p0-all" :> <<"schema", "energy-replay">>)

\* Two kinds of the core set and one of the other; two contents of a schema.
Trees == <<<<"core", "python">>, <<"core", "typescript">>, <<"addon", "python">>>>

(* Two gates that share a file, one that the projection does not read, and *)
(* three domains that degrade.                                             *)
Components ==
  <<"energy-replay", "transport-comparison", "malicious-transport", "accessibility", "beacon-replay">>

CampaignFile ==
  ("energy-replay" :> "energy") @@ ("transport-comparison" :> "communication")
  @@ ("malicious-transport" :> "communication") @@ ("accessibility" :> "terminal")
  @@ ("beacon-replay" :> "beacon")

Projected == {"energy-replay", "transport-comparison", "malicious-transport", "beacon-replay"}

CampaignDomain ==
  ("energy-replay" :> "energy") @@ ("transport-comparison" :> "radio") @@ ("beacon-replay" :> "sensing")

-----------------------------------------------------------------------------
(* Assets: a right record of each category, and records that are right but *)
(* for one thing.                                                          *)
A(c) == [id |-> c, category |-> c, candidate |-> c, asset |-> c, method |-> "loan", custodian |-> "k",
         evidence |-> c, receipt |-> c, at |-> 2, valid |-> TRUE]

M(c) == [category |-> c, candidate |-> c, asset |-> c, method |-> "loan", custodian |-> "k", link |-> c,
         receipt |-> c, serial |-> c, inspection |-> c, inspectedAt |-> 2, valid |-> TRUE,
         review |-> "no_known_blocker", sourcesLate |-> FALSE]

Records ==
  {A("radio"), A("battery"), [A("radio") EXCEPT !.id = "battery"],
   [A("battery") EXCEPT !.evidence = "radio"], [A("battery") EXCEPT !.at = 3],
   [A("radio") EXCEPT !.category = "battery"], [A("radio") EXCEPT !.valid = FALSE],
   [A("battery") EXCEPT !.receipt = "radio"], [A("radio") EXCEPT !.method = "purchase"], [A("battery") EXCEPT !.category = "drone"]}

Manifests ==
  {M("radio"), M("battery"), [M("radio") EXCEPT !.link = "battery"],
   [M("battery") EXCEPT !.link = "radio"], [M("battery") EXCEPT !.asset = "radio"],
   [M("battery") EXCEPT !.serial = "radio"], [M("battery") EXCEPT !.receipt = "radio"],
   [M("radio") EXCEPT !.inspection = "battery"], [M("radio") EXCEPT !.inspectedAt = 1],
   [M("radio") EXCEPT !.review = "block_firmware_use"], [M("radio") EXCEPT !.sourcesLate = TRUE],
   [M("battery") EXCEPT !.review = "missing"], [M("battery") EXCEPT !.category = "drone"]}
=============================================================================
