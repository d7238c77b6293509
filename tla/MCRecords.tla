------------------------------ MODULE MCRecords ------------------------------
(***************************************************************************)
(* A small instance of Records.                                            *)
(***************************************************************************)
EXTENDS Records, TLC

-----------------------------------------------------------------------------
(* The vault: bytes sealed at two offsets, bytes for the other             *)
(* destinations and a break-glass call without an actor; reads and         *)
(* deletions at the last instant of the retention and after it, by one and *)
(* by two people, and twice with the same words.                           *)
Call(sha, offset, class, relevant, breakGlass, actor, reason) ==
  [sha |-> sha, offset |-> offset, class |-> class, relevant |-> relevant,
   breakGlass |-> breakGlass, actor |-> actor, reason |-> reason]

MCInput ==
  {Call("a", 0, "other", TRUE, FALSE, None, "policy"), Call("a", 1, "other", TRUE, FALSE, None, "policy"),
   Call("b", 0, "event", FALSE, TRUE, None, "audit"), Call("b", 0, "event", FALSE, TRUE, "ana", "audit"),
   Call("c", 0, "secret", FALSE, FALSE, None, "policy"), Call("d", 0, "other", FALSE, FALSE, None, "policy")}

MCReadCall ==
  {[actor |-> "ana", purpose |-> "audit", at |-> 2], [actor |-> "ana", purpose |-> "audit", at |-> 3],
   [actor |-> "bo", purpose |-> None, at |-> 2], [actor |-> None, purpose |-> "audit", at |-> 1]}

MCDeleteCall ==
  {[actor |-> "ana", reviewer |-> "bo", reason |-> "expired", at |-> 2],
   [actor |-> "ana", reviewer |-> "bo", reason |-> "expired", at |-> 3],
   [actor |-> "bo", reviewer |-> "ana", reason |-> "expired", at |-> 3],
   [actor |-> "bo", reviewer |-> "bo", reason |-> "expired", at |-> 3],
   [actor |-> "ana", reviewer |-> None, reason |-> "expired", at |-> 3],
   [actor |-> "ana", reviewer |-> "bo", reason |-> None, at |-> 3]}

-----------------------------------------------------------------------------
(* SOS: ties, a cancellation, an acceptance by an acceptor and by another. *)
Sign(id, type, at, causes, acceptor) ==
  [id |-> id, type |-> type, at |-> at, causes |-> causes, acceptor |-> acceptor]

SosEvents ==
  {Sign(1, "sos.created", 1, {}, FALSE), Sign(2, "transport.transmitted", 1, {1}, FALSE),
   Sign(3, "gateway.received", 2, {1}, FALSE), Sign(4, "operator.seen", 2, {3}, FALSE),
   Sign(5, "operator.seen", 3, {}, FALSE), Sign(6, "operator.accepted", 4, {3, 4}, TRUE),
   Sign(7, "operator.accepted", 4, {3}, TRUE), Sign(8, "operator.accepted", 5, {3, 4}, FALSE),
   Sign(9, "sos.cancel_requested", 3, {1}, FALSE), Sign(10, "sos.expired", 2, {}, FALSE)}

(* Federation: one cell's events and the campaign's conflicts, a second    *)
(* body of a claim, and claims with another source and with none.          *)
Signed(id, body, type, first) ==
  [id |-> id, body |-> body, type |-> type, sources |-> first]

Claims ==
  {Signed(<<1, 101>>, "conflicting", "handoff_acceptance", <<<<"offer", 1>>>>),
   Signed(<<2, 201>>, "signed", "resource_assignment", <<<<"offer", 1>>>>),
   Signed(<<2, 300>>, "signed", "handoff_acceptance", <<>>),
   Signed(<<2, 300>>, "conflicting", "handoff_acceptance", <<>>)}

-----------------------------------------------------------------------------
(* Beacons: two beacons in two groups; authorizations of both roles,       *)
(* overlapping break-glass events, short and long; material of each fault. *)
Seen == [beacon : {"b1", "b2"}, group : {"g1", "g2"}]

Auth(type, from, until, actor) == [type |-> type, from |-> from, until |-> until, actor |-> actor]

Authorizations ==
  {Auth("granted", 0, 2, "search-lead"), Auth("granted", 1, 3, "privacy-safety-reviewer"),
   Auth("revoked", 1, 3, "privacy-safety-reviewer"), Auth("break_glass", 1, 3, "incident-commander"),
   Auth("break_glass", 0, 3, "incident-commander"), Auth("break_glass", 2, 3, "search-lead")}

Mat(encrypted, over, receipt, state, reviewed) ==
  [encrypted |-> encrypted, overCap |-> over, receipt |-> receipt, state |-> state, reviewed |-> reviewed]

Materials ==
  {Mat(TRUE, FALSE, TRUE, "active", FALSE), Mat(TRUE, FALSE, TRUE, "deleted", FALSE),
   Mat(TRUE, FALSE, TRUE, "deleted", TRUE), Mat(FALSE, FALSE, TRUE, "hold", FALSE),
   Mat(TRUE, TRUE, TRUE, "hold", FALSE), Mat(TRUE, FALSE, FALSE, "active", TRUE)}

-----------------------------------------------------------------------------
(* RF: two lines of one id that differ in strength, lines of other ids,    *)
(* and lines of every verdict.                                             *)
L(shape, case, subject, kind, good, rssi, at, pattern) ==
  [shape |-> shape, case |-> case, subject |-> subject, kind |-> kind, sound |-> good,
   rssi |-> rssi, at |-> at, pattern |-> pattern]

BlankLine == L("blank", "none", "none", "none", FALSE, 0, 0, "none")
ForeignLine == L("foreign", "c1", "s1", "k1", TRUE, -60, 1, "known")

RfLines ==
  [passive |-> {L("object", "none", "s1", "k1", TRUE, -60, 1, "none"),
                L("object", "none", "s1", "k1", TRUE, -80, 1, "none"),
                L("object", "none", "s2", "k1", TRUE, -60, 1, "none"),
                L("object", "none", "", "k1", TRUE, -60, 1, "none"), ForeignLine, BlankLine},
   finding |-> {L("object", "c1", "s1", "k1", TRUE, -60, 1, "known"),
                L("object", "c1", "s1", "k1", TRUE, -80, 1, "known"),
                L("object", "c2", "s2", "k1", TRUE, -60, 1, "known"),
                L("object", "c1", "own", "bad", FALSE, -60, 1, "none"),
                L("object", "c2", "s1", "bad", FALSE, -60, 1, "known"),
                L("object", "c1", "none", "k1", TRUE, -60, 1, "known"),
                L("object", "c1", "s2", "k1", TRUE, -60, 1, "unknown"), ForeignLine},
   autojoin |-> {L("object", "c1", "s1", "k1", TRUE, -60, 1, "none"),
                 L("object", "c1", "s1", "k1", TRUE, -80, 1, "none"),
                 L("object", "c1", "s1", "k1", TRUE, -60, 5, "none"),
                 L("object", "c2", "s1", "k1", TRUE, -60, 1, "none"),
                 L("object", "c3", "s1", "k1", TRUE, -60, 1, "none"),
                 L("object", "c2", "own", "k1", TRUE, -60, 1, "none"),
                 L("object", "c1", "own", "bad", FALSE, -60, 1, "none"), ForeignLine, BlankLine}]

DeclaredCompanions == [c2 |-> 90]

Profiles == [c1 |-> [actors |-> {"commander", "reviewer"}, expires |-> 5],
             c2 |-> [actors |-> {"commander", "reviewer"}, expires |-> 0],
             c3 |-> [actors |-> {"commander"}, expires |-> 5]]

Src(sensor, group, quality) == [sensor |-> sensor, group |-> group, quality |-> quality]

Signals == [wifi |-> Src("a", "rf", 70), csi |-> Src("a", "csi", 60), ble |-> Src("b", "rf", 60),
            thermal |-> Src("c", "thermal", 50), mmwave |-> Src("d", "radar", 40)]

Rooms == [quiet |-> [kind |-> "quiet_person", quality |-> 50],
          empty |-> [kind |-> "empty", quality |-> 60]]

-----------------------------------------------------------------------------
(* The simulator: three nodes of three qualities in a zone, and another;   *)
(* every fault strikes every node.                                         *)
Nodes == {"n1", "n2", "n3", "n4"}

EveryStrike == [{"loss", "brownout", "partition", "restart"} -> Nodes]

(* Replay: observations that touch, that follow and that do not fit;       *)
(* events of others that collide, rest, fall back and boot again.          *)
O(id, start, end, fit) == [id |-> id, start |-> start, end |-> end, fit |-> fit]

Recordings == {O("o1", 1, 3, TRUE), O("o2", 2, 3, TRUE), O("o3", 4, 7, TRUE), O("o4", 1, 3, FALSE)}

Ev(key, node, boot, sequence, obs) ==
  [key |-> [source |-> key, number |-> 0, step |-> "adapter"], node |-> node, boot |-> boot,
   sequence |-> sequence, captured |-> obs.start, received |-> obs.end, obs |-> obs]

Elsewhere ==
  {Ev("k1", "n1", "boot", 4, O("p1", 1, 3, TRUE)), Ev("k1", "n1", "boot", 4, O("p1", 1, 4, TRUE)),
   Ev("k2", "n1", "boot", 6, O("p2", 2, 3, TRUE)), Ev("k3", "n1", "boot", 9, O("p3", 2, 4, TRUE)),
   Ev("k4", "n2", "boot2", 5, O("p4", 3, 4, TRUE)), Ev("k5", "n1", "boot", 6, O("p2", 2, 3, TRUE)),
   Ev("k6", "n2", "boot2", 2, O("p4", 1, 5, TRUE)), Ev("k7", "n1", "boot", 12, O("p5", 3, 3, TRUE))}

QualityOf == ("n1" :> 800) @@ ("n2" :> 400) @@ ("n3" :> 1200) @@ ("n4" :> 800)

ZoneMap == ("n1" :> "z1") @@ ("n2" :> "z1") @@ ("n3" :> "z1") @@ ("n4" :> "z2")
=============================================================================
