----------------------- MODULE DispositionStoreProofs -----------------------
(***************************************************************************)
(* Proofs about DispositionStore, for any clients, inputs and bounds.      *)
(***************************************************************************)
EXTENDS DispositionStore, FiniteSetTheorems, TLAPS

-----------------------------------------------------------------------------
(* Rows and keys. *)

LEMMA UnitRows ==
  ASSUME NEW i \in Input
  PROVE  /\ Destination(i) \in Destinations
         /\ IngressRow(i) = [table |-> "ingress_units", unit |-> Unit(i),
                             destination |-> Destination(i)]
         /\ IngressRow(i) \in Rows /\ DispositionRows(i) \subseteq Rows
         /\ \A r \in WholeUnit(i) : r.unit = Unit(i) /\ r.destination = Destination(i)
         /\ \A r, s \in WholeUnit(i) : r.table = s.table => r = s
         /\ \A r \in DispositionRows(i) : r.table # "ingress_units"
         /\ {r.table : r \in {s \in WholeUnit(i) : s.table \in Destinations}} = {Destination(i)}
<1>1. Destination(i) \in Destinations
  BY StoreConstants DEF Destination, Destinations
<1>2. IngressRow(i) = [table |-> "ingress_units", unit |-> Unit(i),
                       destination |-> Destination(i)]
  BY DEF IngressRow, Row
<1>3. DispositionRows(i) \subseteq
        {[table |-> Destination(i), unit |-> Unit(i), destination |-> Destination(i)],
         [table |-> "audit_events", unit |-> Unit(i), destination |-> Destination(i)]}
      /\ [table |-> Destination(i), unit |-> Unit(i), destination |-> Destination(i)]
           \in DispositionRows(i)
  BY DEF DispositionRows, Row
<1>4. IngressRow(i) \in Rows /\ DispositionRows(i) \subseteq Rows
  BY <1>1, <1>2, <1>3 DEF Rows, Tables, Destinations
<1>5. \A r \in WholeUnit(i) : r.unit = Unit(i) /\ r.destination = Destination(i)
  BY <1>2, <1>3 DEF WholeUnit
<1>6. \A r, s \in WholeUnit(i) : r.table = s.table => r = s
  BY <1>1, <1>2, <1>3 DEF WholeUnit, Destinations
<1>7. \A r \in DispositionRows(i) : r.table # "ingress_units"
  BY <1>1, <1>3 DEF Destinations
<1>8. {r.table : r \in {s \in WholeUnit(i) : s.table \in Destinations}} = {Destination(i)}
  BY <1>1, <1>2, <1>3 DEF WholeUnit, Destinations
<1> QED BY <1>1, <1>2, <1>4, <1>5, <1>6, <1>7, <1>8

LEMMA ClashFacts ==
  ASSUME NEW R, NEW S, NEW X
  PROVE  /\ Clashes(R, S) <=> Clashes(S, R)
         /\ Clashes(R \cup X, S) <=> Clashes(R, S) \/ Clashes(X, S)
         /\ X \subseteq R /\ ~Clashes(R, S) => ~Clashes(X, S)
  BY DEF Clashes, SameKey

\* A unit whose ingress row meets no key is new to the database.
LEMMA NewUnit ==
  ASSUME NEW i \in Input, OneDisposition, ~Clashes({IngressRow(i)}, db), db \subseteq Rows
  PROVE  \A r \in db : r.unit # Unit(i)
<1> SUFFICES ASSUME NEW r \in db, r.unit = Unit(i) PROVE FALSE
  OBVIOUS
<1>1. PICK s \in db : s.table = "ingress_units" /\ s.unit = Unit(i)
  <2>1. CASE r.table = "ingress_units"
    BY <2>1
  <2>2. CASE r.table # "ingress_units"
    BY <2>2 DEF OneDisposition, Row
  <2> QED BY <2>1, <2>2
<1> QED BY <1>1, UnitRows DEF Clashes, SameKey

\* Committing a whole new unit keeps one disposition per unit.
LEMMA CommitWholeUnit ==
  ASSUME NEW i \in Input, OneDisposition, db \subseteq Rows,
         ~Clashes(WholeUnit(i), db), db' = db \cup WholeUnit(i)
  PROVE  OneDisposition' /\ \A r \in db : r.unit # Unit(i)
<1>1. \A r \in db : r.unit # Unit(i)
  <2>1. ~Clashes({IngressRow(i)}, db)
    BY DEF WholeUnit, Clashes
  <2> QED BY <2>1, NewUnit
<1>2. ASSUME NEW r \in db', r.table = "ingress_units"
      PROVE  {s.table : s \in {t \in db' : t.unit = r.unit /\ t.table \in Destinations}}
               = {r.destination}
  <2>1. CASE r \in db
    <3>1. {t \in db' : t.unit = r.unit /\ t.table \in Destinations}
            = {t \in db : t.unit = r.unit /\ t.table \in Destinations}
      BY <1>1, <2>1, UnitRows
    <3> QED BY <1>2, <2>1, <3>1 DEF OneDisposition
  <2>2. CASE r \in WholeUnit(i)
    <3>1. {t \in db' : t.unit = r.unit /\ t.table \in Destinations}
            = {s \in WholeUnit(i) : s.table \in Destinations}
      BY <1>1, <2>2, UnitRows
    <3> QED BY <2>2, <3>1, UnitRows
  <2> QED BY <2>1, <2>2
<1>3. ASSUME NEW r \in db', r.table # "ingress_units"
      PROVE  Row("ingress_units", r.unit, r.destination) \in db'
  <2>1. CASE r \in db
    BY <1>3, <2>1 DEF OneDisposition
  <2>2. CASE r \in WholeUnit(i)
    BY <2>2, UnitRows DEF WholeUnit, Row
  <2> QED BY <2>1, <2>2
<1>4. ASSUME NEW r \in db', NEW s \in db', SameKey(r, s) PROVE r = s
  <2>1. CASE r \in db /\ s \in db
    BY <1>4, <2>1 DEF OneDisposition
  <2>2. CASE r \in WholeUnit(i) /\ s \in WholeUnit(i)
    BY <1>4, <2>2, UnitRows DEF SameKey
  <2>3. CASE (r \in db /\ s \in WholeUnit(i)) \/ (r \in WholeUnit(i) /\ s \in db)
    BY <1>4, <2>3 DEF Clashes, SameKey
  <2> QED BY <2>1, <2>2, <2>3
<1> QED BY <1>1, <1>2, <1>3, <1>4 DEF OneDisposition

-----------------------------------------------------------------------------
(* Calls. *)

\* A call of ingest, as an explicit record, and what a step does to it.
LEMMA CallRecord ==
  ASSUME NEW c \in Client, CallOK(c), task[c].pc \in InCall, TypeOK
  PROVE  /\ task[c].input \in Input /\ task[c].saved \subseteq Rows
         /\ \A p : [task[c] EXCEPT !.pc = p]
              = [pc |-> p, input |-> task[c].input, saved |-> task[c].saved]
  BY DEF CallOK

LEMMA InsertingRows ==
  ASSUME NEW c \in Client, TypeOK, CallOK(c)
  PROVE  /\ Inserting(c) \subseteq Rows
         /\ Inserting(c) # {} => task[c].pc \in {"unit", "place"}
         /\ task[c].pc = "unit" => Inserting(c) = {IngressRow(Call(c))}
         /\ task[c].pc = "place" => Inserting(c) = DispositionRows(Call(c))
<1>1. task[c].pc \in {"unit", "place"} => Call(c) \in Input
  BY CallRecord DEF Call, InCall
<1>2. task[c].pc = "unit" => Inserting(c) = {IngressRow(Call(c))}
  BY DEF Inserting
<1>3. task[c].pc = "place" => Inserting(c) = DispositionRows(Call(c))
  BY DEF Inserting
<1>4. task[c].pc \notin {"unit", "place"} => Inserting(c) = {}
  BY DEF Inserting
<1> QED BY <1>1, <1>2, <1>3, <1>4, UnitRows

\* Only the client itself changes what CallOK says of it, save that the
\* database grows.
LEMMA OthersKeep ==
  ASSUME NEW c \in Client, CallOK(c), task'[c] = task[c], pending'[c] = pending[c],
         nested'[c] = nested[c], db \subseteq db'
  PROVE  CallOK(c)'
  BY DEF CallOK, Visible, Call

\* A client whose transaction holds no more than before, beside a database
\* that does not change, meets no new keys.
LEMMA ShrinkKeeps ==
  ASSUME KeysAreExclusive, NEW c \in Client, db' = db,
         pending' \in [Client -> SUBSET Rows], pending'[c] \subseteq pending[c],
         \A d \in Client \ {c} : pending'[d] = pending[d]
  PROVE  KeysAreExclusive'
<1>1. \A d \in Client : pending'[d] \subseteq pending[d]
  OBVIOUS
<1>2. \A d \in Client : ~Clashes(pending'[d], db)
  BY <1>1 DEF KeysAreExclusive, Clashes
<1>3. \A d, e \in Client : d # e => ~Clashes(pending'[d], pending'[e])
  BY <1>1 DEF KeysAreExclusive, Clashes
<1> QED BY <1>2, <1>3 DEF KeysAreExclusive

\* An INSERT that waited for nobody takes keys nobody holds.
LEMMA InsertKeeps ==
  ASSUME KeysAreExclusive, NEW c \in Client, Blockers(c) = {}, db' = db,
         ~Clashes(Inserting(c), Visible(c)), pending \in [Client -> SUBSET Rows],
         pending' = [pending EXCEPT ![c] = @ \cup Inserting(c)]
  PROVE  KeysAreExclusive'
<1>1. ~Clashes(Inserting(c), db)
  BY DEF Visible, Clashes
<1>2. \A d \in Client \ {c} : ~Clashes(Inserting(c), pending[d])
  BY DEF Blockers
<1>3. /\ pending'[c] = pending[c] \cup Inserting(c)
      /\ \A d \in Client \ {c} : pending'[d] = pending[d]
  OBVIOUS
<1>4. \A d \in Client : ~Clashes(pending'[d], db)
  BY <1>1, <1>3, ClashFacts DEF KeysAreExclusive
<1>5. ASSUME NEW d \in Client, NEW e \in Client, d # e
      PROVE  ~Clashes(pending'[d], pending'[e])
  <2>1. CASE d = c
    BY <1>2, <1>3, <1>5, <2>1, ClashFacts DEF KeysAreExclusive
  <2>2. CASE e = c
    <3>1. ~Clashes(pending[c], pending[d]) /\ ~Clashes(Inserting(c), pending[d])
      BY <1>2, <1>5, <2>2 DEF KeysAreExclusive
    <3>2. ~Clashes(pending[c] \cup Inserting(c), pending[d])
      BY <3>1, ClashFacts
    <3> QED BY <1>3, <1>5, <2>2, <3>2, ClashFacts
  <2>3. CASE d # c /\ e # c
    BY <1>3, <1>5, <2>3 DEF KeysAreExclusive
  <2> QED BY <2>1, <2>2, <2>3
<1> QED BY <1>4, <1>5 DEF KeysAreExclusive

-----------------------------------------------------------------------------
(* Each step keeps the invariant. *)

\* What a COMMIT of the client's own transaction does.
LEMMA CommitKeeps ==
  ASSUME IInv, NEW c \in Client, task[c].pc = "commit", ~nested[c],
         db' = db \cup pending[c], pending' = [pending EXCEPT ![c] = {}]
  PROVE  /\ OneDisposition' /\ KeysAreExclusive' /\ db' \subseteq Rows
         /\ IngressRow(Call(c)) \in db' /\ Call(c) \in Input
         /\ \/ db' = db
            \/ /\ db' = db \cup WholeUnit(Call(c))
               /\ Unit(Call(c)) \notin {r.unit : r \in db}
<1>1. /\ task[c].saved = {} /\ Call(c) \in Input /\ pending[c] \subseteq Rows /\ db \subseteq Rows
  BY CallRecord DEF IInv, TypeOK, CallOK, InCall, Call
<1>2. \/ pending[c] = WholeUnit(Call(c))
      \/ pending[c] = {} /\ IngressRow(Call(c)) \in db
  BY <1>1 DEF IInv, CallOK, Visible
<1>3. OneDisposition' /\ \/ db' = db
                         \/ /\ db' = db \cup WholeUnit(Call(c))
                            /\ Unit(Call(c)) \notin {r.unit : r \in db}
  <2>1. CASE pending[c] = WholeUnit(Call(c))
    <3>1. ~Clashes(WholeUnit(Call(c)), db)
      BY <2>1 DEF IInv, KeysAreExclusive
    <3>2. OneDisposition' /\ \A r \in db : r.unit # Unit(Call(c))
      BY <1>1, <2>1, <3>1, CommitWholeUnit DEF IInv
    <3> QED BY <2>1, <3>2
  <2>2. CASE pending[c] = {}
    BY <2>2 DEF IInv, OneDisposition
  <2> QED BY <1>2, <2>1, <2>2
<1>4. KeysAreExclusive'
  <2>1. /\ pending'[c] = {} /\ \A d \in Client \ {c} : pending'[d] = pending[d]
    BY DEF IInv, TypeOK
  <2>2. ASSUME NEW d \in Client PROVE ~Clashes(pending'[d], db')
    <3>1. CASE d = c
      BY <2>1, <3>1 DEF Clashes
    <3>2. CASE d # c
      <4>1. ~Clashes(db, pending[d]) /\ ~Clashes(pending[c], pending[d])
        BY <3>2, ClashFacts DEF IInv, KeysAreExclusive
      <4> QED BY <2>1, <3>2, <4>1, ClashFacts
    <3> QED BY <3>1, <3>2
  <2>3. \A d, e \in Client : d # e => ~Clashes(pending'[d], pending'[e])
    BY <2>1 DEF IInv, KeysAreExclusive, Clashes
  <2> QED BY <2>2, <2>3 DEF KeysAreExclusive
<1> QED BY <1>1, <1>2, <1>3, <1>4 DEF WholeUnit

\* A step of one client: it is enough to look at that client and at the parts
\* of the invariant that speak of the whole database.
LEMMA StepKeeps ==
  ASSUME IInv, NEW c \in Client, OneDisposition', KeysAreExclusive', ReturnedIsDurable',
         db \subseteq db', db' \subseteq Rows, pending' \in [Client -> SUBSET Rows],
         nested' \in [Client -> BOOLEAN], keyActive' \in [Client -> BOOLEAN],
         calls' \in 0..MaxCalls, DOMAIN task' = Client,
         \A d \in Client \ {c} :
           task'[d] = task[d] /\ pending'[d] = pending[d] /\ nested'[d] = nested[d],
         task'[c].pc \in {"idle", "unit", "place", "commit", "count"}, CallOK(c)'
  PROVE  IInv'
<1>1. ASSUME NEW d \in Client PROVE CallOK(d)'
  <2>1. CASE d = c
    BY <2>1
  <2>2. CASE d # c
    BY <2>2, OthersKeep DEF IInv
  <2> QED BY <2>1, <2>2
<1>2. ASSUME NEW d \in Client
      PROVE  /\ task'[d].pc \in {"idle", "unit", "place", "commit", "count"}
             /\ task'[d] = Idle /\ ~nested'[d] => pending'[d] = {}
  <2>1. task'[d].pc \in {"idle", "unit", "place", "commit", "count"}
    BY DEF IInv, TypeOK
  <2>2. task'[d] = Idle => task'[d].pc \notin InCall
    BY DEF Idle, InCall
  <2> QED BY <1>1, <2>1, <2>2 DEF CallOK
<1>3. TypeOK'
  BY <1>2 DEF TypeOK
<1> QED BY <1>1, <1>3 DEF IInv

\* What was durable stays so while the database grows and no call ends.
LEMMA DurableKeeps ==
  ASSUME ReturnedIsDurable, db \subseteq db', outcomes' = outcomes
  PROVE  ReturnedIsDurable'
  BY DEF ReturnedIsDurable

\* A call that ends as anything but "returned" promises nothing.
LEMMA EndedKeeps ==
  ASSUME ReturnedIsDurable, db \subseteq db', NEW c \in Client, NEW how, Ended(c, how),
         \/ how # "returned" \/ nested[c]
         \/ IngressRow(Call(c)) \in db'
  PROVE  ReturnedIsDurable'
  BY DEF ReturnedIsDurable, Ended, IngressRow

LEMMA BeginKeeps ==
  ASSUME IInv, NEW c \in Client, NEW i \in Input, Begin(c, i)
  PROVE  IInv'
<1>1. /\ task[c] = Idle /\ calls < MaxCalls /\ calls' = calls + 1
      /\ task' = [task EXCEPT ![c] = [pc |-> "unit", input |-> i, saved |-> pending[c]]]
      /\ UNCHANGED <<db, pending, nested, keyActive, outcomes, reports>>
  BY DEF Begin, BeginCall
<1>2. /\ task'[c] = [pc |-> "unit", input |-> i, saved |-> pending[c]]
      /\ DOMAIN task' = Client /\ \A d \in Client \ {c} : task'[d] = task[d]
  BY <1>1 DEF IInv, TypeOK
<1>3. calls' \in 0..MaxCalls
  BY <1>1, StoreConstants DEF IInv, TypeOK
<1>4. CallOK(c)'
  <2>1. pending[c] \subseteq Rows /\ (~nested[c] => pending[c] = {})
    BY <1>1 DEF IInv, TypeOK
  <2> QED BY <1>1, <1>2, <2>1 DEF CallOK, InCall
<1>5. OneDisposition' /\ KeysAreExclusive' /\ ReturnedIsDurable'
  BY <1>1 DEF IInv, OneDisposition, KeysAreExclusive, ReturnedIsDurable
<1> QED BY <1>1, <1>2, <1>3, <1>4, <1>5, StepKeeps DEF IInv, TypeOK

LEMMA InsertUnitKeeps ==
  ASSUME IInv, NEW c \in Client, InsertUnit(c)
  PROVE  IInv'
<1>1. /\ task[c].pc = "unit" /\ Blockers(c) = {} /\ ~Clashes(Inserting(c), Visible(c))
      /\ pending' = [pending EXCEPT ![c] = @ \cup Inserting(c)]
      /\ task' = [task EXCEPT ![c].pc = "place"]
      /\ UNCHANGED <<db, nested, keyActive, outcomes, reports, calls>>
  BY DEF InsertUnit
<1>2. /\ Inserting(c) = {IngressRow(Call(c))} /\ Inserting(c) \subseteq Rows
      /\ task[c].input \in Input /\ task[c].saved \subseteq Rows
      /\ [task[c] EXCEPT !.pc = "place"]
           = [pc |-> "place", input |-> task[c].input, saved |-> task[c].saved]
  BY <1>1, InsertingRows, CallRecord DEF IInv, InCall
<1>3. /\ task'[c] = [pc |-> "place", input |-> task[c].input, saved |-> task[c].saved]
      /\ DOMAIN task' = Client /\ \A d \in Client \ {c} : task'[d] = task[d]
  BY <1>1, <1>2 DEF IInv, TypeOK
<1>4. /\ pending' \in [Client -> SUBSET Rows] /\ pending'[c] = pending[c] \cup Inserting(c)
      /\ \A d \in Client \ {c} : pending'[d] = pending[d]
  BY <1>1, <1>2 DEF IInv, TypeOK
<1>5. CallOK(c)'
  <2>1. pending[c] = task[c].saved /\ (~nested[c] => task[c].saved = {})
    BY <1>1 DEF IInv, CallOK, InCall
  <2>2. Call(c)' = Call(c)
    BY <1>3 DEF Call
  <2>3. IngressRow(Call(c))' = IngressRow(Call(c))
    BY <2>2 DEF IngressRow, Row, Unit, Destination
  <2> QED BY <1>1, <1>2, <1>3, <1>4, <2>1, <2>3 DEF CallOK, InCall
<1>6. KeysAreExclusive'
  BY <1>1, InsertKeeps DEF IInv, TypeOK
<1>7. OneDisposition' /\ ReturnedIsDurable'
  BY <1>1 DEF IInv, OneDisposition, ReturnedIsDurable
<1> QED BY <1>1, <1>3, <1>4, <1>5, <1>6, <1>7, StepKeeps DEF IInv, TypeOK

LEMMA FindUnitKeeps ==
  ASSUME IInv, NEW c \in Client, FindUnit(c)
  PROVE  IInv'
<1>1. /\ task[c].pc = "unit" /\ IngressRow(Call(c)) \in Visible(c)
      /\ task' = [task EXCEPT ![c].pc = "commit"]
      /\ UNCHANGED <<db, pending, nested, keyActive, outcomes, reports, calls>>
  BY DEF FindUnit
<1>2. /\ task[c].input \in Input /\ task[c].saved \subseteq Rows
      /\ [task[c] EXCEPT !.pc = "commit"]
           = [pc |-> "commit", input |-> task[c].input, saved |-> task[c].saved]
  BY <1>1, CallRecord DEF IInv, InCall
<1>3. /\ task'[c] = [pc |-> "commit", input |-> task[c].input, saved |-> task[c].saved]
      /\ DOMAIN task' = Client /\ \A d \in Client \ {c} : task'[d] = task[d]
  BY <1>1, <1>2 DEF IInv, TypeOK
<1>4. CallOK(c)'
  <2>1. pending[c] = task[c].saved /\ (~nested[c] => task[c].saved = {})
    BY <1>1 DEF IInv, CallOK, InCall
  <2>2. Call(c)' = Call(c)
    BY <1>3 DEF Call
  <2>3. IngressRow(Call(c))' = IngressRow(Call(c)) /\ Visible(c)' = Visible(c)
    BY <1>1, <2>2 DEF IngressRow, Row, Unit, Destination, Visible
  <2> QED BY <1>1, <1>2, <1>3, <2>1, <2>3 DEF CallOK, InCall
<1>5. OneDisposition' /\ KeysAreExclusive' /\ ReturnedIsDurable'
  BY <1>1 DEF IInv, OneDisposition, KeysAreExclusive, ReturnedIsDurable
<1> QED BY <1>1, <1>3, <1>4, <1>5, StepKeeps DEF IInv, TypeOK

LEMMA PlaceKeeps ==
  ASSUME IInv, NEW c \in Client, Place(c)
  PROVE  IInv'
<1>1. /\ task[c].pc = "place" /\ Blockers(c) = {} /\ ~Clashes(Inserting(c), Visible(c))
      /\ pending' = [pending EXCEPT ![c] = @ \cup Inserting(c)]
      /\ task' = [task EXCEPT ![c].pc = "commit"]
      /\ UNCHANGED <<db, nested, keyActive, outcomes, reports, calls>>
  BY DEF Place
<1>2. /\ Inserting(c) = DispositionRows(Call(c)) /\ Inserting(c) \subseteq Rows
      /\ task[c].input \in Input /\ task[c].saved \subseteq Rows
      /\ [task[c] EXCEPT !.pc = "commit"]
           = [pc |-> "commit", input |-> task[c].input, saved |-> task[c].saved]
  BY <1>1, InsertingRows, CallRecord DEF IInv, InCall
<1>3. /\ task'[c] = [pc |-> "commit", input |-> task[c].input, saved |-> task[c].saved]
      /\ DOMAIN task' = Client /\ \A d \in Client \ {c} : task'[d] = task[d]
  BY <1>1, <1>2 DEF IInv, TypeOK
<1>4. /\ pending' \in [Client -> SUBSET Rows] /\ pending'[c] = pending[c] \cup Inserting(c)
      /\ \A d \in Client \ {c} : pending'[d] = pending[d]
  BY <1>1, <1>2 DEF IInv, TypeOK
<1>5. CallOK(c)'
  <2>1. pending[c] = task[c].saved \cup {IngressRow(Call(c))} /\ (~nested[c] => task[c].saved = {})
    BY <1>1 DEF IInv, CallOK, InCall
  <2>2. pending'[c] = task[c].saved \cup WholeUnit(Call(c))
    BY <1>2, <1>4, <2>1 DEF WholeUnit
  <2>3. Call(c)' = Call(c)
    BY <1>3 DEF Call
  <2>4. WholeUnit(Call(c))' = WholeUnit(Call(c))
    BY <2>3 DEF WholeUnit, IngressRow, DispositionRows, Row, Unit, Destination
  <2> QED BY <1>1, <1>2, <1>3, <2>1, <2>2, <2>4 DEF CallOK, InCall
<1>6. KeysAreExclusive'
  BY <1>1, InsertKeeps DEF IInv, TypeOK
<1>7. OneDisposition' /\ ReturnedIsDurable'
  BY <1>1 DEF IInv, OneDisposition, ReturnedIsDurable
<1> QED BY <1>1, <1>3, <1>4, <1>5, <1>6, <1>7, StepKeeps DEF IInv, TypeOK

LEMMA ReturnKeeps ==
  ASSUME IInv, NEW c \in Client, Return(c)
  PROVE  IInv'
<1>1. /\ task[c].pc = "commit" /\ Ended(c, "returned")
      /\ task' = [task EXCEPT ![c] = Idle]
      /\ UNCHANGED <<nested, keyActive, reports, calls>>
  BY DEF Return, Ended
<1>2. /\ task'[c] = Idle /\ Idle.pc = "idle" /\ DOMAIN task' = Client
      /\ \A d \in Client \ {c} : task'[d] = task[d]
  BY <1>1 DEF IInv, TypeOK, Idle
<1>3. CASE nested[c]
  <2>1. db' = db /\ pending' = pending
    BY <1>3 DEF Return
  <2>2. CallOK(c)'
    BY <1>1, <1>2, <1>3 DEF CallOK, InCall
  <2>3. OneDisposition' /\ KeysAreExclusive'
    BY <2>1 DEF IInv, OneDisposition, KeysAreExclusive
  <2>4. ReturnedIsDurable'
    BY <1>1, <1>3, <2>1, EndedKeeps DEF IInv
  <2> QED BY <1>1, <1>2, <2>1, <2>2, <2>3, <2>4, StepKeeps DEF IInv, TypeOK
<1>4. CASE ~nested[c]
  <2>1. db' = db \cup pending[c] /\ pending' = [pending EXCEPT ![c] = {}]
    BY <1>4 DEF Return
  <2>2. /\ pending' \in [Client -> SUBSET Rows] /\ pending'[c] = {}
        /\ \A d \in Client \ {c} : pending'[d] = pending[d]
    BY <2>1 DEF IInv, TypeOK
  <2>3. CallOK(c)'
    BY <1>2, <2>2 DEF CallOK, InCall
  <2>4. /\ OneDisposition' /\ KeysAreExclusive' /\ db' \subseteq Rows
        /\ IngressRow(Call(c)) \in db'
    BY <1>1, <1>4, <2>1, CommitKeeps
  <2>5. ReturnedIsDurable'
    BY <1>1, <2>1, <2>4, EndedKeeps DEF IInv
  <2> QED BY <1>1, <1>2, <2>1, <2>2, <2>3, <2>4, <2>5, StepKeeps DEF IInv, TypeOK
<1> QED BY <1>3, <1>4

LEMMA AbortKeeps ==
  ASSUME IInv, NEW c \in Client, Abort(c)
  PROVE  IInv'
<1>1. PICK how \in {"incompatible", "key", "unique", "deadlock"} :
        /\ Raises(c, how) /\ Ended(c, how)
        /\ pending' = [pending EXCEPT ![c] = task[c].saved]
        /\ UNCHANGED <<db, nested, keyActive, reports, calls>>
  BY DEF Abort
<1>2. /\ task' = [task EXCEPT ![c] = Idle] /\ task'[c] = Idle /\ Idle.pc = "idle"
      /\ DOMAIN task' = Client /\ \A d \in Client \ {c} : task'[d] = task[d]
  BY <1>1 DEF IInv, TypeOK, Idle, Ended
<1>3. task[c].pc \in {"unit", "place"}
  <2>1. CASE how = "deadlock"
    <3>1. Blockers(c) # {}
      BY <1>1, <2>1 DEF Raises, Deadlocked
    <3>2. Inserting(c) # {}
      BY <3>1 DEF Blockers, Clashes
    <3> QED BY <3>2, InsertingRows DEF IInv
  <2>2. CASE how # "deadlock"
    BY <1>1, <2>2 DEF Raises
  <2> QED BY <2>1, <2>2
<1>4. /\ task[c].saved \subseteq Rows /\ task[c].saved \subseteq pending[c]
      /\ ~nested[c] => task[c].saved = {}
  BY <1>3, CallRecord DEF IInv, CallOK, InCall
<1>5. /\ pending' \in [Client -> SUBSET Rows] /\ pending'[c] = task[c].saved
      /\ \A d \in Client \ {c} : pending'[d] = pending[d]
  BY <1>1, <1>4 DEF IInv, TypeOK
<1>6. CallOK(c)'
  BY <1>1, <1>2, <1>4, <1>5 DEF CallOK, InCall
<1>7. KeysAreExclusive'
  BY <1>1, <1>4, <1>5, ShrinkKeeps DEF IInv
<1>8. OneDisposition'
  BY <1>1 DEF IInv, OneDisposition
<1>9. ReturnedIsDurable'
  BY <1>1, EndedKeeps DEF IInv
<1> QED BY <1>1, <1>2, <1>5, <1>6, <1>7, <1>8, <1>9, StepKeeps DEF IInv, TypeOK

LEMMA ReconcileUnitsKeeps ==
  ASSUME IInv, NEW c \in Client, ReconcileUnits(c)
  PROVE  IInv'
<1>1. /\ calls < MaxCalls /\ calls' = calls + 1
      /\ nested' = [nested EXCEPT ![c] = TRUE]
      /\ UNCHANGED <<db, pending, keyActive, outcomes, reports>>
  BY DEF ReconcileUnits, BeginCall
<1>2. /\ task'[c].pc = "count" /\ DOMAIN task' = Client
      /\ \A d \in Client \ {c} : task'[d] = task[d]
  BY DEF ReconcileUnits, IInv, TypeOK
<1>3. /\ nested' \in [Client -> BOOLEAN] /\ nested'[c]
      /\ \A d \in Client \ {c} : nested'[d] = nested[d]
  BY <1>1 DEF IInv, TypeOK
<1>4. calls' \in 0..MaxCalls
  BY <1>1, StoreConstants DEF IInv, TypeOK
<1>5. CallOK(c)'
  BY <1>2, <1>3 DEF CallOK, InCall
<1>6. OneDisposition' /\ KeysAreExclusive' /\ ReturnedIsDurable'
  BY <1>1 DEF IInv, OneDisposition, KeysAreExclusive, ReturnedIsDurable
<1> QED BY <1>1, <1>2, <1>3, <1>4, <1>5, <1>6, StepKeeps DEF IInv, TypeOK

\* reconcile counts and reports: nothing but its own call record changes.
LEMMA CountingKeeps ==
  ASSUME IInv, NEW c \in Client, CountTable(c) \/ Report(c)
  PROVE  IInv'
<1>1. /\ task[c].pc = "count"
      /\ UNCHANGED <<db, pending, nested, keyActive, outcomes, calls>>
  BY DEF CountTable, Report
<1>2. /\ task'[c].pc \in {"count", "idle"} /\ DOMAIN task' = Client
      /\ \A d \in Client \ {c} : task'[d] = task[d]
  <2>1. CASE CountTable(c)
    BY <1>1, <2>1 DEF CountTable, IInv, TypeOK
  <2>2. CASE Report(c)
    BY <2>2 DEF Report, IInv, TypeOK, Idle
  <2> QED BY <2>1, <2>2
<1>3. ~nested[c] => pending[c] = {}
  BY <1>1 DEF IInv, CallOK, InCall
<1>4. CallOK(c)'
  BY <1>1, <1>2, <1>3 DEF CallOK, InCall
<1>5. OneDisposition' /\ KeysAreExclusive' /\ ReturnedIsDurable'
  BY <1>1 DEF IInv, OneDisposition, KeysAreExclusive, ReturnedIsDurable
<1> QED BY <1>1, <1>2, <1>4, <1>5, StepKeeps DEF IInv, TypeOK

LEMMA ReopenKeeps ==
  ASSUME IInv, NEW c \in Client, Close(c) \/ Crash(c)
  PROVE  IInv'
<1>1. /\ pending' = [pending EXCEPT ![c] = {}]
      /\ nested' = [nested EXCEPT ![c] = FALSE]
      /\ keyActive' = [keyActive EXCEPT ![c] = TRUE]
      /\ task' = [task EXCEPT ![c] = Idle]
      /\ UNCHANGED <<outcomes, reports, calls>>
  BY DEF Close, Crash, Reopen
<1>2. \/ db' = db
      \/ task[c].pc = "commit" /\ ~nested[c] /\ db' = db \cup pending[c]
  BY DEF Close, Crash
<1>3. /\ task'[c] = Idle /\ Idle.pc = "idle" /\ DOMAIN task' = Client
      /\ pending' \in [Client -> SUBSET Rows] /\ pending'[c] = {}
      /\ nested' \in [Client -> BOOLEAN] /\ keyActive' \in [Client -> BOOLEAN]
      /\ \A d \in Client \ {c} :
           task'[d] = task[d] /\ pending'[d] = pending[d] /\ nested'[d] = nested[d]
  BY <1>1 DEF IInv, TypeOK, Idle
<1>4. CallOK(c)'
  BY <1>3 DEF CallOK, InCall
<1>5. OneDisposition' /\ KeysAreExclusive' /\ db' \subseteq Rows
  <2>1. CASE db' = db
    <3>1. KeysAreExclusive'
      BY <1>3, <2>1, ShrinkKeeps DEF IInv
    <3>2. OneDisposition' /\ db' \subseteq Rows
      BY <2>1 DEF IInv, TypeOK, OneDisposition
    <3> QED BY <3>1, <3>2
  <2>2. CASE task[c].pc = "commit" /\ ~nested[c] /\ db' = db \cup pending[c]
    BY <1>1, <2>2, CommitKeeps
  <2> QED BY <1>2, <2>1, <2>2
<1>6. db \subseteq db' /\ ReturnedIsDurable'
  BY <1>1, <1>2, DurableKeeps DEF IInv
<1> QED BY <1>1, <1>3, <1>4, <1>5, <1>6, StepKeeps DEF IInv, TypeOK

LEMMA RevokeKeeps ==
  ASSUME IInv, NEW c \in Client, Revoke(c)
  PROVE  IInv'
<1>1. /\ keyActive' = [keyActive EXCEPT ![c] = FALSE]
      /\ UNCHANGED <<db, pending, nested, task, outcomes, reports, calls>>
  BY DEF Revoke
<1>2. keyActive' \in [Client -> BOOLEAN]
  BY <1>1 DEF IInv, TypeOK
<1>3. CallOK(c)'
  BY <1>1, OthersKeep DEF IInv
<1>4. OneDisposition' /\ KeysAreExclusive' /\ ReturnedIsDurable'
  BY <1>1 DEF IInv, OneDisposition, KeysAreExclusive, ReturnedIsDurable
<1> QED BY <1>1, <1>2, <1>3, <1>4, StepKeeps DEF IInv, TypeOK

-----------------------------------------------------------------------------
(* The theorems. *)

LEMMA InitInv == Init => IInv
<1> SUFFICES ASSUME Init PROVE IInv
  OBVIOUS
<1>1. TypeOK
  BY StoreConstants DEF Init, TypeOK, Idle
<1>2. OneDisposition /\ KeysAreExclusive /\ ReturnedIsDurable
  BY DEF Init, OneDisposition, KeysAreExclusive, ReturnedIsDurable, Clashes
<1>3. \A c \in Client : CallOK(c)
  BY DEF Init, CallOK, InCall, Idle
<1> QED BY <1>1, <1>2, <1>3 DEF IInv

LEMMA NextInv == IInv /\ [Next]_vars => IInv'
<1> SUFFICES ASSUME IInv, [Next]_vars PROVE IInv'
  OBVIOUS
<1>1. CASE UNCHANGED vars
  BY <1>1 DEF vars, IInv, TypeOK, OneDisposition, KeysAreExclusive, ReturnedIsDurable,
              CallOK, Call, Visible
<1>2. CASE Next
  <2>1. PICK c \in Client :
          \/ \E i \in Input : Begin(c, i)
          \/ Proceed(c) \/ ReconcileUnits(c) \/ Close(c) \/ Crash(c) \/ Revoke(c)
    BY <1>2 DEF Next
  <2>2. CASE \E i \in Input : Begin(c, i)
    BY <2>2, BeginKeeps
  <2>3. CASE Proceed(c)
    BY <2>3, InsertUnitKeeps, FindUnitKeeps, PlaceKeeps, ReturnKeeps, AbortKeeps,
       CountingKeeps DEF Proceed
  <2>4. CASE ReconcileUnits(c) \/ Close(c) \/ Crash(c) \/ Revoke(c)
    BY <2>4, ReconcileUnitsKeeps, ReopenKeeps, RevokeKeeps
  <2> QED BY <2>1, <2>2, <2>3, <2>4
<1> QED BY <1>1, <1>2

\* The strengthened invariant holds in every reachable state: every open
\* transaction holds what its saved rows and the step of its call say.
THEOREM Inductive == Spec => []IInv
  BY InitInv, NextInv, PTL DEF Spec

\* Every variable keeps its type, and a client between calls and outside an
\* implicit transaction has nothing pending.
THEOREM TypeCorrect == Spec => []TypeOK
<1>1. IInv => TypeOK
  BY DEF IInv
<1> QED BY <1>1, Inductive, PTL

\* However many clients ingest the same unit, and wherever they crash, it has
\* one disposition, and no disposition stands without its unit.
THEOREM OneDispositionPerUnit == Spec => []OneDisposition
<1>1. IInv => OneDisposition
  BY DEF IInv
<1> QED BY <1>1, Inductive, PTL

\* No COMMIT can fail on a key: the waiting of INSERT keeps the keys of open
\* transactions apart from each other and from the committed ones.
THEOREM KeysExclusive == Spec => []KeysAreExclusive
<1>1. IInv => KeysAreExclusive
  BY DEF IInv
<1> QED BY <1>1, Inductive, PTL

\* What ingest returned outside an implicit transaction is committed.
THEOREM ReturnedDurable == Spec => []ReturnedIsDurable
<1>1. IInv => ReturnedIsDurable
  BY DEF IInv
<1> QED BY <1>1, Inductive, PTL

\* A step that changes the database commits one whole unit, new to it.
LEMMA CommitStep ==
  ASSUME IInv, [Next]_vars, db' # db
  PROVE  \E i \in Input : /\ db' = db \cup {IngressRow(i)} \cup DispositionRows(i)
                         /\ Unit(i) \notin {r.unit : r \in db}
                         /\ OneDisposition'
<1>1. PICK c \in Client : Return(c) \/ Crash(c)
  BY DEF vars, Next, Proceed, Begin, InsertUnit, FindUnit, Place, Abort, CountTable,
         Report, ReconcileUnits, Close, Revoke
<1>2. /\ task[c].pc = "commit" /\ ~nested[c] /\ db' = db \cup pending[c]
      /\ pending' = [pending EXCEPT ![c] = {}]
  BY <1>1 DEF Return, Crash, Reopen
<1>3. /\ Call(c) \in Input /\ db' = db \cup WholeUnit(Call(c))
      /\ Unit(Call(c)) \notin {r.unit : r \in db} /\ OneDisposition'
  BY <1>2, CommitKeeps
<1> QED BY <1>3 DEF WholeUnit

\* Every change of the database is the addition of one whole unit that was
\* not there: no step alters, removes or splits a disposition.
THEOREM CommitsAreWhole == Spec => CommitIsWhole
<1> DEFINE Whole == \E i \in Input :
             /\ db' = db \cup {IngressRow(i)} \cup DispositionRows(i)
             /\ Unit(i) \notin {r.unit : r \in db}
<1>1. IInv /\ [Next]_vars => [Whole]_db
  BY CommitStep
<1>2. Spec => [][Whole]_db
  BY <1>1, Inductive, PTL DEF Spec
<1> QED BY <1>2 DEF CommitIsWhole

-----------------------------------------------------------------------------
(* What reconcile counts. *)

LEMMA OfFacts ==
  ASSUME NEW R, IsFiniteSet(R)
  PROVE  /\ \A T : IsFiniteSet(Of(T, R)) /\ Cardinality(Of(T, R)) \in Nat
         /\ \A t : CountOf(t, R) = Cardinality(Of({t}, R)) /\ CountOf(t, R) \in Nat
         /\ \A T : \A t \in T : Cardinality(Of(T, R)) = Cardinality(Of(T \ {t}, R)) + CountOf(t, R)
         /\ \A T : \A S : IsFiniteSet(S) /\ R \subseteq S =>
                     Cardinality(Of(T, R)) <= Cardinality(Of(T, S))
<1>1. ASSUME NEW T, NEW S, IsFiniteSet(S)
      PROVE  IsFiniteSet(Of(T, S)) /\ Cardinality(Of(T, S)) \in Nat
  BY <1>1, FS_Subset, FS_CardinalityType DEF Of
<1>2. ASSUME NEW t
      PROVE  CountOf(t, R) = Cardinality(Of({t}, R)) /\ CountOf(t, R) \in Nat
  <2>1. {r \in R : r.table = t} = Of({t}, R)
    BY DEF Of
  <2> QED BY <1>1, <2>1 DEF CountOf
<1>3. ASSUME NEW T, NEW t \in T
      PROVE  Cardinality(Of(T, R)) = Cardinality(Of(T \ {t}, R)) + CountOf(t, R)
  <2>1. Of(T, R) = Of(T \ {t}, R) \cup Of({t}, R) /\ Of(T \ {t}, R) \cap Of({t}, R) = {}
    BY DEF Of
  <2>2. /\ IsFiniteSet(Of(T \ {t}, R)) /\ Cardinality(Of(T \ {t}, R)) \in Nat
        /\ IsFiniteSet(Of({t}, R)) /\ Cardinality(Of({t}, R)) \in Nat
    BY <1>1
  <2>3. Cardinality(Of(T, R))
          = Cardinality(Of(T \ {t}, R)) + Cardinality(Of({t}, R)) - Cardinality({})
    BY <2>1, <2>2, FS_Union
  <2>4. Cardinality({}) = 0
    BY FS_EmptySet
  <2> QED BY <1>2, <2>2, <2>3, <2>4
<1>4. ASSUME NEW T, NEW S, IsFiniteSet(S), R \subseteq S
      PROVE  Cardinality(Of(T, R)) <= Cardinality(Of(T, S))
  <2>1. Of(T, R) \in SUBSET Of(T, S)
    BY <1>4 DEF Of
  <2> QED BY <1>1, <1>4, <2>1, FS_Subset
<1> QED BY <1>1, <1>2, <1>3, <1>4

\* Paired rows have as many units as dispositions.
LEMMA PairedCounts ==
  ASSUME NEW R, IsFiniteSet(R), R \subseteq Rows, Paired(R)
  PROVE  CountOf("ingress_units", R) = Cardinality(Of(Destinations, R))
<1> DEFINE I == Of({"ingress_units"}, R)
           D == Of(Destinations, R)
           f == [r \in I |-> Row(r.destination, r.unit, r.destination)]
<1>1. ASSUME NEW r \in I PROVE f[r] \in D
  BY DEF Of, Paired, Row
<1>2. ASSUME NEW r \in I, NEW s \in I, f[r] = f[s] PROVE r = s
  <2>1. r.destination = s.destination /\ r.unit = s.unit
    BY <1>2 DEF Row
  <2>2. r \in Rows /\ s \in Rows /\ r.table = s.table
    BY DEF Of
  <2> QED BY <2>1, <2>2 DEF Rows
<1>3. ASSUME NEW s \in D PROVE \E r \in I : f[r] = s
  <2>1. /\ s \in Rows /\ s.destination = s.table
        /\ Row("ingress_units", s.unit, s.destination) \in R
    BY DEF Of, Paired
  <2>2. Row("ingress_units", s.unit, s.destination) \in I
    BY <2>1 DEF Of, Row
  <2>3. f[Row("ingress_units", s.unit, s.destination)]
          = [table |-> s.destination, unit |-> s.unit, destination |-> s.destination]
    BY <2>2 DEF Row
  <2>4. s = [table |-> s.destination, unit |-> s.unit, destination |-> s.destination]
    BY <2>1 DEF Rows
  <2> QED BY <2>2, <2>3, <2>4
<1>4. f \in [I -> D]
  BY <1>1
<1> HIDE DEF f
<1>5. f \in Bijection(I, D)
  BY <1>2, <1>3, <1>4 DEF Bijection, Injection, Surjection, IsInjective
<1>6. IsFiniteSet(I) /\ CountOf("ingress_units", R) = Cardinality(I)
  BY OfFacts
<1> QED BY <1>5, <1>6, FS_Bijection DEF ExistsBijection

LEMMA PairedFacts ==
  /\ Paired({})
  /\ \A R, S : Paired(R) /\ Paired(S) => Paired(R \cup S)
  /\ \A i \in Input : Paired(WholeUnit(i)) /\ IsFiniteSet(WholeUnit(i))
<1>1. Paired({})
  BY DEF Paired
<1>2. \A R, S : Paired(R) /\ Paired(S) => Paired(R \cup S)
  BY DEF Paired
<1>3. ASSUME NEW i \in Input PROVE Paired(WholeUnit(i)) /\ IsFiniteSet(WholeUnit(i))
  <2> DEFINE u == Unit(i)
             d == Destination(i)
  <2>1. d \in Destinations
    BY UnitRows
  <2>2. WholeUnit(i) = {Row("ingress_units", u, d), Row(d, u, d)}
                       \cup IF d = "evidence_vault"
                            THEN {Row("audit_events", u, "evidence_vault")} ELSE {}
    BY DEF WholeUnit, IngressRow, DispositionRows
  <2>3. Paired(WholeUnit(i))
    BY <2>1, <2>2 DEF Paired, Row, Destinations
  <2>4. \A a, b : IsFiniteSet({a, b})
    <3> TAKE a, b
    <3>1. IsFiniteSet({a} \cup {b})
      BY FS_Singleton, FS_Union
    <3>2. {a, b} = {a} \cup {b}
      OBVIOUS
    <3> QED BY <3>1, <3>2, Zenon
  <2>5. IsFiniteSet(WholeUnit(i))
    <3>1. \A a : IsFiniteSet(IF d = "evidence_vault" THEN {a} ELSE {})
      BY FS_Singleton, FS_EmptySet
    <3> QED BY <2>2, <2>4, <3>1, FS_Union
  <2> QED BY <2>3, <2>5
<1> QED BY <1>1, <1>2, <1>3

\* What is committed is paired: the invariant says so in its own words.
LEMMA CommittedPaired ==
  ASSUME OneDisposition, db \subseteq Rows
  PROVE  Paired(db)
<1>1. ASSUME NEW r \in db, r.table = "ingress_units"
      PROVE  /\ r.destination \in Destinations
             /\ Row(r.destination, r.unit, r.destination) \in db
  <2>1. PICK s \in db : s.unit = r.unit /\ s.table \in Destinations /\ s.table = r.destination
    BY <1>1 DEF OneDisposition
  <2>2. Row("ingress_units", s.unit, s.destination) \in db
    BY <2>1 DEF OneDisposition, Destinations
  <2>3. Row("ingress_units", s.unit, s.destination) = r
    BY <1>1, <2>1, <2>2 DEF OneDisposition, SameKey, Row
  <2>4. s.destination = r.destination
    BY <2>3 DEF Row
  <2>5. s = Row(r.destination, r.unit, r.destination)
    BY <2>1, <2>4 DEF Rows, Row
  <2> QED BY <2>1, <2>5
<1>2. ASSUME NEW s \in db, s.table \in Destinations
      PROVE  s.destination = s.table /\ Row("ingress_units", s.unit, s.destination) \in db
  <2> DEFINE r == Row("ingress_units", s.unit, s.destination)
  <2>1. r \in db
    BY <1>2 DEF OneDisposition, Destinations
  <2>2. r.table = "ingress_units" /\ r.unit = s.unit /\ r.destination = s.destination
    BY DEF Row
  <2>3. {x.table : x \in {t \in db : t.unit = r.unit /\ t.table \in Destinations}} = {r.destination}
    BY <2>1, <2>2 DEF OneDisposition
  <2> QED BY <1>2, <2>1, <2>2, <2>3
<1> QED BY <1>1, <1>2 DEF Paired

-----------------------------------------------------------------------------
(* Each step keeps what reconcile relies on. *)

\* A count under way stays right while the database grows.
LEMMA CountingStays ==
  ASSUME NEW c \in Client, Counting(c), task'[c] = task[c], pending'[c] = pending[c],
         db \subseteq db', IsFiniteSet(db'), IsFiniteSet(pending[c]), IsFiniteSet(db)
  PROVE  Counting(c)'
<1> SUFFICES ASSUME task[c].pc = "count" PROVE Counting(c)'
  BY DEF Counting
<1>1. Visible(c) \subseteq Visible(c)' /\ IsFiniteSet(Visible(c)) /\ IsFiniteSet(Visible(c)')
  BY FS_Union DEF Visible
<1> DEFINE L == task[c].left
           C == Destinations \ task[c].left
<1>2. /\ Cardinality(Of(L, Visible(c))) <= Cardinality(Of(L, Visible(c)'))
      /\ Cardinality(Of(C, Visible(c))) <= Cardinality(Of(C, Visible(c)'))
      /\ Cardinality(Of(L, Visible(c))) \in Nat /\ Cardinality(Of(L, Visible(c)')) \in Nat
      /\ Cardinality(Of(C, Visible(c))) \in Nat /\ Cardinality(Of(C, Visible(c)')) \in Nat
  <2>1. \A R : IsFiniteSet(R) => \A T : Cardinality(Of(T, R)) \in Nat
    BY OfFacts
  <2>2. \A T : Cardinality(Of(T, Visible(c))) <= Cardinality(Of(T, Visible(c)'))
    BY <1>1, OfFacts
  <2> QED BY <1>1, <2>1, <2>2
<1>3. /\ task[c].physical \in Nat /\ task[c].total \in Nat
      /\ task[c].total <= task[c].physical + Cardinality(Of(L, Visible(c)))
      /\ task[c].physical <= Cardinality(Of(C, Visible(c)))
  BY DEF Counting
<1>4. /\ task[c].total <= task[c].physical + Cardinality(Of(L, Visible(c)'))
      /\ task[c].physical <= Cardinality(Of(C, Visible(c)'))
  BY <1>2, <1>3
<1>5. /\ task[c] \in [pc : {"count"}, left : SUBSET Destinations, physical : Nat,
                      total : Nat, before : Nat]
      /\ task[c].total = task[c].before + CountOf("ingress_units", pending[c])
  BY DEF Counting
<1> QED BY <1>4, <1>5 DEF Counting, Of

\* A step of one client that is not a Report: it is enough to look at it.
LEMMA CountStep ==
  ASSUME CountInv, NEW c \in Client, db \subseteq db', IsFiniteSet(db'),
         reports' = reports,
         \A d \in Client \ {c} : task'[d] = task[d] /\ pending'[d] = pending[d],
         IsFiniteSet(pending'[c]), Paired(Settled(c)'), Counting(c)'
  PROVE  CountInv'
<1>1. ASSUME NEW d \in Client
      PROVE  IsFiniteSet(pending'[d]) /\ Paired(Settled(d)') /\ Counting(d)'
  <2>1. CASE d = c
    BY <2>1
  <2>2. CASE d # c
    <3>1. Settled(d)' = Settled(d)
      BY <2>2 DEF Settled
    <3> QED BY <2>2, <3>1, CountingStays DEF CountInv
  <2> QED BY <2>1, <2>2
<1> QED BY <1>1 DEF CountInv, ReconcileErrsByCommits

LEMMA PendingPaired ==
  ASSUME IInv, CountInv, NEW c \in Client
  PROVE  /\ IsFiniteSet(pending[c]) /\ pending[c] \subseteq Rows
         /\ task[c].pc \in InCall =>
              /\ Call(c) \in Input /\ Settled(c) = task[c].saved
              /\ task[c].saved \subseteq pending[c] /\ IsFiniteSet(task[c].saved)
         /\ task[c].pc \notin {"unit", "place"} => Paired(pending[c])
<1>1. IsFiniteSet(pending[c]) /\ pending[c] \subseteq Rows /\ CallOK(c) /\ Paired(Settled(c))
  BY DEF IInv, CountInv, TypeOK
<1>2. ASSUME task[c].pc \in InCall
      PROVE  /\ Call(c) \in Input /\ Settled(c) = task[c].saved
             /\ task[c].saved \subseteq pending[c] /\ IsFiniteSet(task[c].saved)
  <2>1. Call(c) \in Input
    BY <1>1, <1>2, CallRecord DEF Call, IInv
  <2>2. task[c].saved \subseteq pending[c]
    BY <1>1, <1>2 DEF CallOK, InCall
  <2> QED BY <1>1, <1>2, <2>1, <2>2, FS_Subset DEF Settled
<1>3. ASSUME task[c].pc \notin {"unit", "place"} PROVE Paired(pending[c])
  <2>1. CASE task[c].pc = "commit"
    <3>1. Paired(task[c].saved) /\ Call(c) \in Input
      BY <1>1, <1>2, <2>1 DEF InCall
    <3> QED BY <1>1, <2>1, <3>1, PairedFacts DEF CallOK
  <2>2. CASE task[c].pc # "commit"
    BY <1>1, <1>3, <2>2 DEF Settled, InCall
  <2> QED BY <2>1, <2>2
<1> QED BY <1>1, <1>2, <1>3

\* The steps of ingest.
LEMMA IngestCounts ==
  ASSUME IInv, CountInv, NEW c \in Client,
         \/ \E i \in Input : Begin(c, i)
         \/ InsertUnit(c) \/ FindUnit(c) \/ Place(c) \/ Abort(c)
  PROVE  CountInv'
<1>1. /\ DOMAIN task = Client /\ pending \in [Client -> SUBSET Rows] /\ IsFiniteSet(db)
      /\ IsFiniteSet(pending[c]) /\ Paired(Settled(c))
  BY DEF IInv, TypeOK, CountInv
<1>2. CASE \E i \in Input : Begin(c, i)
  <2>1. PICK i \in Input : Begin(c, i)
    BY <1>2
  <2>2. /\ task[c] = Idle /\ UNCHANGED <<db, pending, reports>>
        /\ task' = [task EXCEPT ![c] = [pc |-> "unit", input |-> i, saved |-> pending[c]]]
    BY <2>1 DEF Begin, BeginCall
  <2>3. /\ task'[c] = [pc |-> "unit", input |-> i, saved |-> pending[c]]
        /\ \A d \in Client \ {c} : task'[d] = task[d] /\ pending'[d] = pending[d]
    BY <1>1, <2>2
  <2>4. Settled(c)' = Settled(c)
    BY <2>2, <2>3 DEF Settled, InCall, Idle
  <2>5. Counting(c)'
    BY <2>3 DEF Counting
  <2> QED BY <1>1, <2>2, <2>3, <2>4, <2>5, CountStep
<1>3. CASE InsertUnit(c) \/ FindUnit(c) \/ Place(c)
  <2>1. /\ task[c].pc \in {"unit", "place"} /\ UNCHANGED <<db, reports>>
        /\ \E p \in {"place", "commit"} : task' = [task EXCEPT ![c].pc = p]
        /\ \/ pending' = pending
           \/ pending' = [pending EXCEPT ![c] = @ \cup Inserting(c)]
    BY <1>3 DEF InsertUnit, FindUnit, Place
  <2>2. PICK p \in {"place", "commit"} : task' = [task EXCEPT ![c].pc = p]
    BY <2>1
  <2>3. [task[c] EXCEPT !.pc = p]
          = [pc |-> p, input |-> task[c].input, saved |-> task[c].saved]
    BY <2>1, CallRecord DEF IInv, InCall
  <2>4. /\ task'[c] = [pc |-> p, input |-> task[c].input, saved |-> task[c].saved]
        /\ \A d \in Client \ {c} : task'[d] = task[d] /\ pending'[d] = pending[d]
    BY <1>1, <2>1, <2>2, <2>3
  <2>5. Settled(c)' = Settled(c) /\ Counting(c)'
    BY <2>1, <2>4 DEF Settled, InCall, Counting
  <2>6. Call(c) \in Input /\ Inserting(c) \subseteq WholeUnit(Call(c))
    BY <2>1, InsertingRows, PendingPaired DEF IInv, InCall, WholeUnit
  <2>7. IsFiniteSet(pending'[c])
    <3>1. IsFiniteSet(Inserting(c))
      BY <2>6, PairedFacts, FS_Subset
    <3>2. pending'[c] = pending[c] \/ pending'[c] = pending[c] \cup Inserting(c)
      BY <1>1, <2>1
    <3> QED BY <1>1, <3>1, <3>2, FS_Union
  <2> QED BY <1>1, <2>1, <2>4, <2>5, <2>7, CountStep
<1>4. CASE Abort(c)
  <2>1. PICK how \in {"incompatible", "key", "unique", "deadlock"} :
          /\ Raises(c, how) /\ Ended(c, how)
          /\ pending' = [pending EXCEPT ![c] = task[c].saved]
          /\ UNCHANGED <<db, reports>>
    BY <1>4 DEF Abort
  <2>2. task[c].pc \in {"unit", "place"}
    <3>1. CASE how = "deadlock"
      <4>1. Inserting(c) # {}
        BY <2>1, <3>1 DEF Raises, Deadlocked, Blockers, Clashes
      <4> QED BY <4>1, InsertingRows DEF IInv
    <3>2. CASE how # "deadlock"
      BY <2>1, <3>2 DEF Raises
    <3> QED BY <3>1, <3>2
  <2>3. /\ task'[c] = Idle /\ pending'[c] = task[c].saved
        /\ \A d \in Client \ {c} : task'[d] = task[d] /\ pending'[d] = pending[d]
    BY <1>1, <2>1 DEF Ended
  <2>4. Settled(c)' = task[c].saved /\ Counting(c)'
    BY <2>3 DEF Settled, InCall, Idle, Counting
  <2>5. Settled(c) = task[c].saved /\ IsFiniteSet(task[c].saved)
    BY <2>2, PendingPaired DEF InCall
  <2> QED BY <1>1, <2>1, <2>3, <2>4, <2>5, CountStep
<1> QED BY <1>2, <1>3, <1>4

\* The steps that end a transaction, or only a call.
LEMMA EndCounts ==
  ASSUME IInv, CountInv, NEW c \in Client, Return(c) \/ Close(c) \/ Crash(c)
  PROVE  CountInv'
<1>1. /\ DOMAIN task = Client /\ pending \in [Client -> SUBSET Rows] /\ IsFiniteSet(db)
      /\ IsFiniteSet(pending[c])
  BY DEF IInv, TypeOK, CountInv
<1>2. /\ task' = [task EXCEPT ![c] = Idle] /\ reports' = reports
      /\ db' = db \/ db' = db \cup pending[c]
      /\ \/ pending' = [pending EXCEPT ![c] = {}]
         \/ pending' = pending /\ task[c].pc = "commit"
  BY DEF Return, Ended, Close, Crash, Reopen
<1>3. /\ task'[c] = Idle /\ \A d \in Client \ {c} : task'[d] = task[d] /\ pending'[d] = pending[d]
      /\ pending'[c] = {} \/ (pending'[c] = pending[c] /\ task[c].pc = "commit")
  BY <1>1, <1>2
<1>4. Settled(c)' = pending'[c] /\ Counting(c)'
  BY <1>3 DEF Settled, InCall, Idle, Counting
<1>5. Paired(pending'[c]) /\ IsFiniteSet(pending'[c])
  BY <1>1, <1>3, PendingPaired, PairedFacts, FS_EmptySet
<1>6. IsFiniteSet(db') /\ db \subseteq db'
  BY <1>1, <1>2, FS_Union
<1> QED BY <1>2, <1>3, <1>4, <1>5, <1>6, CountStep

\* The keys of a transaction are not committed: what it sees is both, apart.
LEMMA CountsApart ==
  ASSUME IInv, CountInv, NEW c \in Client
  PROVE  CountOf("ingress_units", Visible(c))
           = CountOf("ingress_units", db) + CountOf("ingress_units", pending[c])
<1> DEFINE U(R) == Of({"ingress_units"}, R)
<1>1. IsFiniteSet(db) /\ IsFiniteSet(pending[c]) /\ IsFiniteSet(Visible(c))
  BY FS_Union DEF CountInv, Visible
<1>2. db \cap pending[c] = {}
  BY DEF IInv, KeysAreExclusive, Clashes, SameKey
<1>3. U(Visible(c)) = U(db) \cup U(pending[c]) /\ U(db) \cap U(pending[c]) = {}
  BY <1>2 DEF Of, Visible
<1>4. /\ IsFiniteSet(U(db)) /\ Cardinality(U(db)) \in Nat
      /\ IsFiniteSet(U(pending[c])) /\ Cardinality(U(pending[c])) \in Nat
  BY <1>1, OfFacts
<1>5. /\ CountOf("ingress_units", Visible(c)) = Cardinality(U(Visible(c)))
      /\ CountOf("ingress_units", db) = Cardinality(U(db))
      /\ CountOf("ingress_units", pending[c]) = Cardinality(U(pending[c]))
  BY <1>1, OfFacts
<1> HIDE DEF U
<1>6. Cardinality(U(db) \cup U(pending[c]))
        = Cardinality(U(db)) + Cardinality(U(pending[c])) - Cardinality({})
  BY <1>3, <1>4, FS_Union
<1>7. Cardinality({}) = 0
  BY FS_EmptySet
<1> QED BY <1>3, <1>4, <1>5, <1>6, <1>7

LEMMA ReconcileCounts ==
  ASSUME IInv, CountInv, NEW c \in Client, ReconcileUnits(c)
  PROVE  CountInv'
<1> DEFINE new == [pc |-> "count", left |-> Destinations, physical |-> 0,
                   total |-> CountOf("ingress_units", Visible(c)),
                   before |-> CountOf("ingress_units", db)]
<1>1. /\ task[c] = Idle /\ task' = [task EXCEPT ![c] = new]
      /\ UNCHANGED <<db, pending, reports>>
  BY DEF ReconcileUnits, BeginCall
<1>2. /\ DOMAIN task = Client /\ IsFiniteSet(db) /\ IsFiniteSet(pending[c])
      /\ db \subseteq Rows /\ pending[c] \subseteq Rows /\ Paired(pending[c]) /\ Paired(db)
  BY <1>1, PendingPaired, CommittedPaired DEF IInv, TypeOK, CountInv, Idle
<1>3. task'[c] = new /\ \A d \in Client \ {c} : task'[d] = task[d] /\ pending'[d] = pending[d]
  BY <1>1, <1>2
<1>4. /\ IsFiniteSet(Visible(c)) /\ Visible(c) \subseteq Rows /\ Paired(Visible(c))
      /\ Visible(c)' = Visible(c)
  BY <1>1, <1>2, PairedFacts, FS_Union DEF Visible
<1>5. /\ new.total = new.before + CountOf("ingress_units", pending[c])
      /\ new.total = Cardinality(Of(Destinations, Visible(c)))
      /\ new.total \in Nat /\ new.before \in Nat
  BY <1>2, <1>4, CountsApart, PairedCounts, OfFacts
<1>6. Cardinality(Of(Destinations \ Destinations, Visible(c))) \in Nat
  BY <1>4, OfFacts
<1>7. /\ new \in [pc : {"count"}, left : SUBSET Destinations, physical : Nat,
                  total : Nat, before : Nat]
      /\ new.left = Destinations /\ new.physical = 0
  BY <1>5
<1>8. Counting(c)'
  <2> HIDE DEF new
  <2>1. /\ new.total <= new.physical + Cardinality(Of(new.left, Visible(c)))
        /\ new.physical <= Cardinality(Of(Destinations \ new.left, Visible(c)))
    BY <1>5, <1>6, <1>7
  <2> QED BY <1>1, <1>3, <1>4, <1>5, <1>7, <2>1 DEF Counting, Of
<1>9. Paired(Settled(c)')
  BY <1>1, <1>2, <1>3 DEF Settled, InCall
<1> QED BY <1>1, <1>2, <1>3, <1>8, <1>9, CountStep

LEMMA CountTableCounts ==
  ASSUME IInv, CountInv, NEW c \in Client, CountTable(c)
  PROVE  CountInv'
<1>1. /\ task[c].pc = "count" /\ UNCHANGED <<db, pending, reports>> /\ Counting(c)
      /\ DOMAIN task = Client /\ IsFiniteSet(db) /\ IsFiniteSet(pending[c])
  BY DEF CountTable, IInv, TypeOK, CountInv
<1>2. PICK k \in DOMAIN TableOrder :
        /\ task[c].left = {TableOrder[j] : j \in k..Len(TableOrder)}
        /\ task' = [task EXCEPT ![c] =
             [pc |-> "count", left |-> @.left \ {TableOrder[k]},
              physical |-> @.physical + CountOf(TableOrder[k], Visible(c)),
              total |-> @.total, before |-> @.before]]
  BY DEF CountTable
<1> DEFINE t == TableOrder[k]
           old == task[c]
           new == task'[c]
           L == old.left
<1>3. t \in L
  BY <1>2 DEF TableOrder
<1>4. /\ new = [pc |-> "count", left |-> L \ {t}, physical |-> old.physical + CountOf(t, Visible(c)),
                total |-> old.total, before |-> old.before]
      /\ \A d \in Client \ {c} : task'[d] = task[d] /\ pending'[d] = pending[d]
  BY <1>1, <1>2
<1>5. /\ old \in [pc : {"count"}, left : SUBSET Destinations, physical : Nat,
                  total : Nat, before : Nat]
      /\ old.total = old.before + CountOf("ingress_units", pending[c])
      /\ old.total <= old.physical + Cardinality(Of(L, Visible(c)))
      /\ old.physical <= Cardinality(Of(Destinations \ L, Visible(c)))
  BY <1>1 DEF Counting
<1>6. IsFiniteSet(Visible(c)) /\ Visible(c)' = Visible(c)
  BY <1>1, FS_Union DEF Visible
<1> HIDE DEF t
<1>7. t \in Destinations \ (L \ {t}) /\ (Destinations \ (L \ {t})) \ {t} = Destinations \ L
  BY <1>3, <1>5
<1>8. /\ Cardinality(Of(L, Visible(c))) = Cardinality(Of(L \ {t}, Visible(c))) + CountOf(t, Visible(c))
      /\ Cardinality(Of(Destinations \ (L \ {t}), Visible(c)))
           = Cardinality(Of(Destinations \ L, Visible(c))) + CountOf(t, Visible(c))
      /\ CountOf(t, Visible(c)) \in Nat
      /\ Cardinality(Of(L \ {t}, Visible(c))) \in Nat
      /\ Cardinality(Of(Destinations \ L, Visible(c))) \in Nat
  <2>1. /\ \A T : \A x \in T : Cardinality(Of(T, Visible(c)))
                                 = Cardinality(Of(T \ {x}, Visible(c))) + CountOf(x, Visible(c))
        /\ \A T : Cardinality(Of(T, Visible(c))) \in Nat
        /\ CountOf(t, Visible(c)) \in Nat
    BY <1>6, OfFacts
  <2>2. Cardinality(Of(Destinations \ (L \ {t}), Visible(c)))
          = Cardinality(Of((Destinations \ (L \ {t})) \ {t}, Visible(c))) + CountOf(t, Visible(c))
    BY <1>7, <2>1
  <2> QED BY <1>3, <1>7, <2>1, <2>2
<1>9. /\ new.pc = "count" /\ new.left = L \ {t} /\ new.total = old.total /\ new.before = old.before
      /\ new.physical = old.physical + CountOf(t, Visible(c))
      /\ new \in [pc : {"count"}, left : SUBSET Destinations, physical : Nat,
                  total : Nat, before : Nat]
  BY <1>4, <1>5, <1>8
<1>10. /\ new.total <= new.physical + Cardinality(Of(new.left, Visible(c)))
       /\ new.physical <= Cardinality(Of(Destinations \ new.left, Visible(c)))
  BY <1>5, <1>8, <1>9
<1>11. Counting(c)'
  BY <1>1, <1>5, <1>6, <1>9, <1>10 DEF Counting, Of
<1>12. Settled(c)' = Settled(c)
  BY <1>1, <1>9 DEF Settled, InCall
<1> QED BY <1>1, <1>4, <1>11, <1>12, CountStep DEF CountInv

LEMMA ReportCounts ==
  ASSUME IInv, CountInv, NEW c \in Client, Report(c)
  PROVE  CountInv'
<1> DEFINE report == [unreconciled |-> Distance(task[c].total, task[c].physical),
                      commits |-> CountOf("ingress_units", db) - task[c].before]
<1>1. /\ task[c].pc = "count" /\ task[c].left = {} /\ UNCHANGED <<db, pending>>
      /\ reports' = reports \cup {report} /\ task' = [task EXCEPT ![c] = Idle]
      /\ DOMAIN task = Client
  BY DEF Report, IInv, TypeOK
<1>2. /\ IsFiniteSet(db) /\ IsFiniteSet(pending[c]) /\ Counting(c)
      /\ db \subseteq Rows /\ pending[c] \subseteq Rows /\ Paired(pending[c]) /\ Paired(db)
  BY <1>1, PendingPaired, CommittedPaired DEF IInv, TypeOK, CountInv
<1>3. IsFiniteSet(Visible(c)) /\ Visible(c) \subseteq Rows /\ Paired(Visible(c))
  BY <1>2, PairedFacts, FS_Union DEF Visible
<1>4. /\ Cardinality(Of({}, Visible(c))) = 0
      /\ Destinations \ {} = Destinations
      /\ Cardinality(Of(Destinations, Visible(c)))
           = CountOf("ingress_units", db) + CountOf("ingress_units", pending[c])
      /\ CountOf("ingress_units", db) \in Nat /\ CountOf("ingress_units", pending[c]) \in Nat
  <2>1. Of({}, Visible(c)) = {}
    BY DEF Of
  <2> QED BY <1>2, <1>3, <2>1, FS_EmptySet, CountsApart, PairedCounts, OfFacts
<1>5. report.unreconciled <= report.commits
  <2> DEFINE total == task[c].total
             physical == task[c].physical
             before == task[c].before
  <2>1. /\ total \in Nat /\ physical \in Nat /\ before \in Nat
        /\ total = before + CountOf("ingress_units", pending[c])
        /\ total <= physical + 0
        /\ physical <= CountOf("ingress_units", db) + CountOf("ingress_units", pending[c])
    BY <1>1, <1>2, <1>4 DEF Counting
  <2> HIDE DEF total, physical, before
  <2>2. Distance(total, physical) <= CountOf("ingress_units", db) - before
    BY <1>4, <2>1 DEF Distance
  <2> QED BY <2>2 DEF total, physical, before
<1>6. ReconcileErrsByCommits'
  BY <1>1, <1>5 DEF ReconcileErrsByCommits, CountInv
<1>7. ASSUME NEW d \in Client
      PROVE  IsFiniteSet(pending'[d]) /\ Paired(Settled(d)') /\ Counting(d)'
  <2>1. IsFiniteSet(pending[d]) /\ Paired(Settled(d)) /\ Counting(d)
    BY DEF CountInv
  <2>2. CASE d = c
    <3>1. task'[c] = Idle
      BY <1>1
    <3> QED BY <1>1, <1>2, <2>2, <3>1 DEF Settled, Counting, Idle, InCall
  <2>3. CASE d # c
    <3>1. task'[d] = task[d] /\ pending'[d] = pending[d]
      BY <1>1, <2>3
    <3>2. Settled(d)' = Settled(d)
      BY <3>1 DEF Settled
    <3> QED BY <1>1, <1>2, <2>1, <3>1, <3>2, CountingStays
  <2> QED BY <2>2, <2>3
<1> QED BY <1>1, <1>2, <1>6, <1>7 DEF CountInv

LEMMA NextCount == IInv /\ CountInv /\ [Next]_vars => CountInv'
<1> SUFFICES ASSUME IInv, CountInv, [Next]_vars PROVE CountInv'
  OBVIOUS
<1>1. CASE UNCHANGED vars
  BY <1>1 DEF vars, CountInv, Settled, Counting, Visible, ReconcileErrsByCommits
<1>2. CASE Next
  <2>1. PICK c \in Client :
          \/ \E i \in Input : Begin(c, i)
          \/ Proceed(c) \/ ReconcileUnits(c) \/ Close(c) \/ Crash(c) \/ Revoke(c)
    BY <1>2 DEF Next
  <2>2. CASE Revoke(c)
    <3>1. UNCHANGED <<db, pending, task, reports>>
      BY <2>2 DEF Revoke
    <3> QED BY <3>1 DEF CountInv, Settled, Counting, Visible, ReconcileErrsByCommits
  <2> QED BY <2>1, <2>2, IngestCounts, EndCounts, ReconcileCounts, CountTableCounts,
             ReportCounts DEF Proceed
<1> QED BY <1>1, <1>2

LEMMA InitCount == Init => CountInv
  BY FS_EmptySet, PairedFacts
     DEF Init, CountInv, Settled, Counting, Idle, InCall, ReconcileErrsByCommits

\* While one client counts table by table, others commit units under it; still
\* a count is never short of the units it began with, and never over by more
\* than the units committed meanwhile.
THEOREM ReconcileErrs == Spec => []ReconcileErrsByCommits
<1>1. CountInv => ReconcileErrsByCommits
  BY DEF CountInv
<1> QED BY <1>1, InitCount, NextCount, Inductive, PTL DEF Spec

-----------------------------------------------------------------------------
(* The store implements the log of dispositions. *)

\* What a unit adds to each collection of the log.
LEMMA UnitInLog ==
  ASSUME NEW i \in Input
  PROVE  LET u == Unit(i)
             d == Destination(i)
             W == WholeUnit(i)
         IN /\ {r \in W : r.table = "ingress_units"} = {IngressRow(i)}
            /\ {r \in W : r.table \in Destinations} = {Row(d, u, d)}
            /\ {r \in W : r.table = "audit_events"}
                 = IF d = "evidence_vault" THEN {Row("audit_events", u, d)} ELSE {}
<1>1. Destination(i) \in Destinations
  BY UnitRows
<1>2. WholeUnit(i) = {Row("ingress_units", Unit(i), Destination(i)),
                      Row(Destination(i), Unit(i), Destination(i))}
                     \cup IF Destination(i) = "evidence_vault"
                          THEN {Row("audit_events", Unit(i), "evidence_vault")} ELSE {}
  BY DEF WholeUnit, IngressRow, DispositionRows
<1> QED BY <1>1, <1>2 DEF IngressRow, Row, Destinations

\* The commit of a new unit is a disposition of the log.
LEMMA CommitIsDisposition ==
  ASSUME NEW i \in Input, OneDisposition', db' = db \cup WholeUnit(i),
         Unit(i) \notin {r.unit : r \in db}
  PROVE  Log!Next
<1> DEFINE u == Unit(i)
           d == Destination(i)
<1>1. d \in Log!Destinations /\ u \in {Unit(j) : j \in Input}
  BY UnitRows DEF Log!Destinations, Destinations
<1>2. \A r \in db : r.table = "evidence_vault" /\ d = "evidence_vault" => r.unit[1] # u[1]
  <2> SUFFICES ASSUME NEW r \in db, r.table = "evidence_vault", d = "evidence_vault",
                      r.unit[1] = u[1]
               PROVE  FALSE
    OBVIOUS
  <2>1. Row(d, u, d) \in db' /\ r \in db'
    BY DEF WholeUnit, DispositionRows
  <2>2. SameKey(r, Row(d, u, d))
    BY DEF SameKey, Row
  <2>3. r = Row(d, u, d)
    BY <2>1, <2>2 DEF OneDisposition
  <2> QED BY <2>3 DEF Row
<1>3. Log!MayDispose(u, d)
  BY <1>2 DEF Log!MayDispose
<1>4. {[unit |-> r.unit, destination |-> r.destination] :
          r \in {s \in db' : s.table = "ingress_units"}}
        = {[unit |-> r.unit, destination |-> r.destination] :
             r \in {s \in db : s.table = "ingress_units"}}
          \cup {[unit |-> u, destination |-> d]}
  <2>1. {s \in db' : s.table = "ingress_units"}
          = {s \in db : s.table = "ingress_units"} \cup {IngressRow(i)}
    BY UnitInLog
  <2>2. IngressRow(i).unit = u /\ IngressRow(i).destination = d
    BY DEF IngressRow, Row
  <2> QED BY <2>1, <2>2, Zenon
<1>5. {[table |-> r.table, unit |-> r.unit] : r \in {s \in db' : s.table \in Destinations}}
        = {[table |-> r.table, unit |-> r.unit] : r \in {s \in db : s.table \in Destinations}}
          \cup {[table |-> d, unit |-> u]}
  <2>1. {s \in db' : s.table \in Destinations}
          = {s \in db : s.table \in Destinations} \cup {Row(d, u, d)}
    BY UnitInLog
  <2>2. Row(d, u, d).table = d /\ Row(d, u, d).unit = u
    BY DEF Row
  <2> QED BY <2>1, <2>2, Zenon
<1>6. {r.unit[1] : r \in {s \in db' : s.table = "audit_events"}}
        = IF d = "evidence_vault"
          THEN {r.unit[1] : r \in {s \in db : s.table = "audit_events"}} \cup {u[1]}
          ELSE {r.unit[1] : r \in {s \in db : s.table = "audit_events"}}
  <2>1. {s \in db' : s.table = "audit_events"}
          = {s \in db : s.table = "audit_events"}
            \cup IF d = "evidence_vault" THEN {Row("audit_events", u, d)} ELSE {}
    BY UnitInLog
  <2>2. Row("audit_events", u, d).unit = u
    BY DEF Row
  <2>3. CASE d = "evidence_vault"
    BY <2>1, <2>2, <2>3, Zenon
  <2>4. CASE d # "evidence_vault"
    BY <2>1, <2>4, Zenon
  <2> QED BY <2>3, <2>4
<1>7. Log!Dispose(u, d)
  BY <1>3, <1>4, <1>5, <1>6 DEF Log!Dispose
<1> QED BY <1>1, <1>7 DEF Log!Next

\* With all its transactions and failures, the store only ever does what the
\* log of dispositions does.
THEOREM StoreImplementsLog == Spec => StoreKeepsLog
<1>1. Init => Log!Init
  BY DEF Init, Log!Init
<1>2. IInv /\ [Next]_vars => [Log!Next]_(Log!vars)
  <2> SUFFICES ASSUME IInv, [Next]_vars PROVE [Log!Next]_(Log!vars)
    OBVIOUS
  <2>1. CASE db' = db
    BY <2>1 DEF Log!vars
  <2>2. CASE db' # db
    <3>1. PICK i \in Input : /\ db' = db \cup {IngressRow(i)} \cup DispositionRows(i)
                            /\ Unit(i) \notin {r.unit : r \in db} /\ OneDisposition'
      BY <2>2, CommitStep
    <3> QED BY <3>1, CommitIsDisposition DEF WholeUnit
  <2> QED BY <2>1, <2>2
<1> QED BY <1>1, <1>2, Inductive, PTL DEF Spec, StoreKeepsLog, Log!Spec

=============================================================================
