-------------------------- MODULE Boundaries_proofs --------------------------
(***************************************************************************)
(* Proofs about the boundaries of offices and about the incidents that are *)
(* reported within them: first OfficeBoundaries (types, the scope of an    *)
(* office, the areas that an update names), then Incidents and their       *)
(* entries in the audit trail.                                             *)
(***************************************************************************)
EXTENDS OfficeBoundaries, Incidents, TLAPS

\* The areas named for an office are in its state.
NamedFit(o, named) ==
    /\ "lgas" \in named => o.lgas \subseteq LgasIn(o.state)
    /\ "wards" \in named => o.wards \subseteq WardsOfState(o.state)

\* The copy of an update under way, whatever became of the office.
CopiesFit ==
    \A u \in Updates : updates[u].pc # "idle" =>
        ScopeFits(updates[u].copy) /\ NamedFit(updates[u].copy, updates[u].named)

\* Updates begin with an office that has been created.
UpdatesHaveOffice == \A u \in Updates : updates[u].pc # "idle" => office # NONE

OfficeInv == OfficeTypeOK /\ CopiesFit /\ UpdatesHaveOffice
----------------------------------------------------------------------------
LEMMA UpdateTypes ==
    ASSUME NEW x \in UpdateRequest
    PROVE  /\ x.pc # "idle" => x.copy \in Office /\ x.named \in SUBSET Areas
           /\ x.pc \in {"lgas", "wards"} => x.found \in Office
           /\ x.pc = "write" => x.found \in Office \cup {GONE}
           /\ x.pc = "idle" => x = Idle
           /\ x.pc \in {"idle", "save", "lgas", "wards", "write"}
BY DEF UpdateRequest, Idle

LEMMA IdleRequest == Idle \in UpdateRequest /\ Idle.pc = "idle"
BY DEF UpdateRequest, Idle

\* A save that finds the office as it is when it writes leaves its copy.
LEMMA UncontestedWrite ==
    ASSUME office \in Office \cup {GONE}, NEW copy \in Office
    PROVE  Written(copy, office) = copy
<1>1. CASE office = GONE
  BY <1>1 DEF Written
<1>2. CASE office # GONE
  <2>1. PICK o \in Office : o = office
    BY <1>2
  <2>2. /\ Column(o.category, copy.category, o.category) = copy.category
        /\ Column(o.state, copy.state, o.state) = copy.state
    BY DEF Column
  <2>3. /\ copy.lgas \subseteq Lgas /\ o.lgas \subseteq Lgas
        /\ copy.wards \subseteq Wards /\ o.wards \subseteq Wards
    BY DEF Office
  <2>4. /\ List(o.lgas, copy.lgas, o.lgas) = copy.lgas
        /\ List(o.wards, copy.wards, o.wards) = copy.wards
    BY <2>3 DEF List
  <2>5. ~\E f \in Areas : Clash(o[f], copy[f], o[f])
    BY DEF Clash
  <2>6. [category |-> copy.category, state |-> copy.state, lgas |-> copy.lgas,
         wards |-> copy.wards] = copy
    BY DEF Office
  <2> QED BY <1>2, <2>1, <2>2, <2>4, <2>5, <2>6 DEF Written
<1> QED BY <1>1, <1>2

\* Whatever a save has found, it leaves an office.
LEMMA WrittenIsOffice ==
    ASSUME office \in Office \cup {GONE}, NEW copy \in Office,
           NEW found \in Office \cup {GONE}
    PROVE  Written(copy, found) \in Office \cup {GONE}
<1>1. CASE GONE \in {found, office}
  BY <1>1 DEF Written
<1>2. CASE GONE \notin {found, office}
  <2>1. PICK o \in Office, f \in Office : o = office /\ f = found
    BY <1>2
  <2>2. /\ Column(o.category, copy.category, f.category) \in Category
        /\ Column(o.state, copy.state, f.state) \in States \cup {NONE}
    BY DEF Column, Office
  <2>3. /\ List(o.lgas, copy.lgas, f.lgas) \in SUBSET Lgas
        /\ List(o.wards, copy.wards, f.wards) \in SUBSET Wards
    BY DEF List, Office
  <2>4. [category |-> Column(o.category, copy.category, f.category),
         state    |-> Column(o.state, copy.state, f.state),
         lgas     |-> List(o.lgas, copy.lgas, f.lgas),
         wards    |-> List(o.wards, copy.wards, f.wards)] \in Office
    BY <2>2, <2>3 DEF Office
  <2> QED BY <1>2, <2>1, <2>4 DEF Written
<1> QED BY <1>1, <1>2

\* What create stores is an office whose scope fits.
LEMMA CreatedFits ==
    ASSUME NEW b \in Body, Creatable(b)
    PROVE  Created(b) \in Office /\ ScopeFits(Created(b))
<1> DEFINE o == Created(b)
<1>1. b.category \in Category /\ b.category # NONE
  BY DEF Body, Creatable
<1>2. OrKept(b.lgas, {}) \in SUBSET Lgas /\ OrKept(b.wards, {}) \in SUBSET Wards
  BY DEF Body, OrKept
<1>3. /\ o.category = b.category
      /\ o.state = IF b.category = "PRESIDENTIAL" THEN NONE ELSE b.state
      /\ o.lgas = IF b.category \in Legislative \cup {"SENATORIAL"}
                  THEN OrKept(b.lgas, {}) ELSE {}
      /\ o.wards = IF b.category \in Legislative THEN OrKept(b.wards, {}) ELSE {}
  BY DEF Created
<1>4. b.category # "PRESIDENTIAL" => b.state \in States /\ b.state # NONE
  BY DEF Body, Creatable
<1>5. o \in Office
  BY <1>1, <1>2, <1>4 DEF Created, Office
<1>6. ScopeFits(o)
  <2> HIDE DEF o
  <2> QED BY <1>1, <1>3, <1>4 DEF ScopeFits, Legislative, Category
<1> QED BY <1>5, <1>6

\* What update makes of its copy is one too, and named areas are in its state.
LEMMA UpdatedFits ==
    ASSUME NEW o \in Office, NEW b \in Body, Acceptable(o, b)
    PROVE  LET named == {f \in Areas : b[f] # NONE}
           IN /\ Updated(o, b) \in Office
              /\ ScopeFits(Updated(o, b))
              /\ NamedFit(Updated(o, b), named)
<1> DEFINE c == Updated(o, b)
           category == OrKept(b.category, o.category)
           state == OrKept(b.state, o.state)
           named == {f \in Areas : b[f] # NONE}
<1>1. /\ category \in Category
      /\ state \in States \cup {NONE}
      /\ OrKept(b.lgas, o.lgas) \in SUBSET Lgas
      /\ OrKept(b.wards, o.wards) \in SUBSET Wards
  BY DEF Body, Office, OrKept
<1>2. category # "PRESIDENTIAL" =>
        /\ state # NONE
        /\ category \in Legislative \cup {"SENATORIAL"} /\ b.lgas # NONE =>
             b.lgas \subseteq LgasIn(state)
        /\ category \in Legislative /\ b.wards # NONE => b.wards \subseteq WardsOfState(state)
  BY DEF Acceptable
<1>3. /\ c.category = category
      /\ c.state = IF category = "PRESIDENTIAL" THEN NONE ELSE state
      /\ c.lgas = IF category \in Legislative \cup {"SENATORIAL"}
                  THEN OrKept(b.lgas, o.lgas) ELSE {}
      /\ c.wards = IF category \in Legislative THEN OrKept(b.wards, o.wards) ELSE {}
  BY DEF Updated
<1>4. c \in Office
  <2>1. c = [category |-> c.category, state |-> c.state, lgas |-> c.lgas, wards |-> c.wards]
    BY DEF Updated
  <2> HIDE DEF c, category, state
  <2> QED BY <1>1, <1>3, <2>1 DEF Office
<1>5. ScopeFits(c)
  <2> HIDE DEF c, category, state
  <2> QED BY <1>1, <1>2, <1>3 DEF ScopeFits, Legislative, Category
<1>6. NamedFit(c, named)
  <2>1. "lgas" \in named => c.lgas \subseteq LgasIn(c.state)
    <3> SUFFICES ASSUME b.lgas # NONE PROVE c.lgas \subseteq LgasIn(c.state)
      BY DEF Areas
    <3>1. OrKept(b.lgas, o.lgas) = b.lgas
      BY DEF OrKept
    <3> HIDE DEF c, category, state
    <3> QED BY <1>2, <1>3, <3>1 DEF Legislative
  <2>2. "wards" \in named => c.wards \subseteq WardsOfState(c.state)
    <3> SUFFICES ASSUME b.wards # NONE PROVE c.wards \subseteq WardsOfState(c.state)
      BY DEF Areas
    <3>1. OrKept(b.wards, o.wards) = b.wards
      BY DEF OrKept
    <3> HIDE DEF c, category, state
    <3> QED BY <1>2, <1>3, <3>1 DEF Legislative
  <2> QED BY <2>1, <2>2 DEF NamedFit
<1> QED BY <1>4, <1>5, <1>6
----------------------------------------------------------------------------
LEMMA OfficeInvInit == OfficeInit => OfficeInv
<1> SUFFICES ASSUME OfficeInit PROVE OfficeInv
  OBVIOUS
<1>1. OfficeTypeOK
  BY DEF OfficeInit, OfficeTypeOK, UpdateRequest
<1>2. CopiesFit /\ UpdatesHaveOffice
  BY DEF OfficeInit, CopiesFit, UpdatesHaveOffice, Idle
<1> QED BY <1>1, <1>2 DEF OfficeInv

\* An update goes on to a request whose copy fits, or back to idle.
LEMMA UpdateGoesOn ==
    ASSUME OfficeInv, NEW u \in Updates, NEW x \in UpdateRequest,
           updates' = [updates EXCEPT ![u] = x],
           office' \in Office \cup {NONE, GONE}, office # NONE => office' # NONE,
           x.pc # "idle" => /\ office # NONE
                            /\ ScopeFits(x.copy) /\ NamedFit(x.copy, x.named)
    PROVE  OfficeInv'
<1>1. updates \in [Updates -> UpdateRequest]
  BY DEF OfficeInv, OfficeTypeOK
<1>2. \A v \in Updates : updates'[v] = IF v = u THEN x ELSE updates[v]
  BY <1>1
<1>3. OfficeTypeOK'
  BY <1>1 DEF OfficeTypeOK
<1>4. CopiesFit'
  BY <1>2 DEF OfficeInv, CopiesFit
<1>5. UpdatesHaveOffice'
  BY <1>2 DEF OfficeInv, UpdatesHaveOffice
<1> QED BY <1>3, <1>4, <1>5 DEF OfficeInv

LEMMA LoadKeeps ==
    ASSUME OfficeInv, NEW u \in Updates, Load(u)
    PROVE  OfficeInv'
<1>1. office \in Office
  BY DEF Load, OfficeInv, OfficeTypeOK
<1>2. PICK b \in Bodies :
        /\ Acceptable(office, b)
        /\ updates' = [updates EXCEPT ![u] =
                          [pc |-> "save", copy |-> Updated(office, b),
                           named |-> {f \in Areas : b[f] # NONE}]]
  BY DEF Load
<1>3. b \in Body
  BY BodiesAssumption
<1> DEFINE named == {f \in Areas : b[f] # NONE}
<1>4. /\ Updated(office, b) \in Office
      /\ ScopeFits(Updated(office, b))
      /\ NamedFit(Updated(office, b), named)
  BY <1>1, <1>2, <1>3, UpdatedFits
<1>5. named \in SUBSET Areas
  OBVIOUS
<1> HIDE DEF named
<1>6. PICK x : x = [pc |-> "save", copy |-> Updated(office, b), named |-> named]
  OBVIOUS
<1>7. x \in UpdateRequest
  BY <1>4, <1>5, <1>6 DEF UpdateRequest
<1>8. x.copy = Updated(office, b) /\ x.named = named
  BY <1>6
<1>9. updates' = [updates EXCEPT ![u] = x]
  BY <1>2, <1>6 DEF named
<1>10. office' = office /\ office # NONE
  BY DEF Load
<1>11. ScopeFits(x.copy) /\ NamedFit(x.copy, x.named)
  BY <1>4, <1>8
<1> QED BY <1>1, <1>7, <1>9, <1>10, <1>11, UpdateGoesOn

LEMMA StepKeeps ==
    ASSUME OfficeInv, NEW u \in Updates, UpdateStep(u)
    PROVE  OfficeInv'
<1>1. PICK y \in UpdateRequest : y = updates[u]
  BY DEF OfficeInv, OfficeTypeOK
<1>2. y.pc # "idle"
  BY <1>1 DEF UpdateStep, SelectOffice, SelectAreas, WriteOffice, UpdateDies, Areas
<1>3. /\ office # NONE /\ office \in Office \cup {GONE}
      /\ ScopeFits(y.copy) /\ NamedFit(y.copy, y.named)
      /\ y.copy \in Office /\ y.named \in SUBSET Areas
  BY <1>1, <1>2, UpdateTypes DEF OfficeInv, OfficeTypeOK, CopiesFit, UpdatesHaveOffice
<1>4. CASE SelectOffice(u)
  <2>1. PICK x : x = [pc |-> IF office = GONE THEN "write" ELSE "lgas", copy |-> y.copy,
                      named |-> y.named, found |-> office]
    OBVIOUS
  <2>2. updates' = [updates EXCEPT ![u] = x] /\ office' = office
    BY <1>1, <1>4, <2>1 DEF SelectOffice
  <2>3. x \in UpdateRequest /\ x.copy = y.copy /\ x.named = y.named
    BY <1>3, <2>1 DEF UpdateRequest
  <2> QED BY <1>3, <2>2, <2>3, UpdateGoesOn
<1>5. CASE SelectAreas(u)
  <2>1. y.pc \in Areas /\ y.found \in Office
    BY <1>1, <1>5, UpdateTypes DEF SelectAreas, Areas
  <2>2. PICK found : found = [y.found EXCEPT ![y.pc] =
                                 IF office = GONE THEN {} ELSE office[y.pc]]
    OBVIOUS
  <2>3. PICK x : x = [pc |-> IF y.pc = "lgas" THEN "wards" ELSE "write", copy |-> y.copy,
                      named |-> y.named, found |-> found]
    OBVIOUS
  <2>4. updates' = [updates EXCEPT ![u] = x] /\ office' = office
    BY <1>1, <1>5, <2>2, <2>3 DEF SelectAreas
  <2>5. found \in Office
    <3>1. PICK o \in Office \cup {GONE} : o = office
      BY <1>3
    <3>2. CASE y.pc = "lgas"
      <4>1. (IF o = GONE THEN {} ELSE o.lgas) \in SUBSET Lgas
        BY DEF Office
      <4> QED BY <2>1, <2>2, <3>1, <3>2, <4>1 DEF Office
    <3>3. CASE y.pc = "wards"
      <4>1. (IF o = GONE THEN {} ELSE o.wards) \in SUBSET Wards
        BY DEF Office
      <4> QED BY <2>1, <2>2, <3>1, <3>3, <4>1 DEF Office
    <3> QED BY <2>1, <3>2, <3>3 DEF Areas
  <2>6. x \in UpdateRequest /\ x.copy = y.copy /\ x.named = y.named
    BY <1>3, <2>3, <2>5 DEF UpdateRequest
  <2> QED BY <1>3, <2>4, <2>6, UpdateGoesOn
<1>6. CASE WriteOffice(u)
  <2>1. y.pc = "write" /\ y.found \in Office \cup {GONE}
    BY <1>1, <1>6, UpdateTypes DEF WriteOffice
  <2>2. office' = Written(y.copy, y.found) /\ updates' = [updates EXCEPT ![u] = Idle]
    BY <1>1, <1>6 DEF WriteOffice
  <2>3. office' \in Office \cup {GONE}
    BY <1>3, <2>1, <2>2, WrittenIsOffice
  <2> QED BY <2>2, <2>3, UpdateGoesOn, IdleRequest, NoOfficeAssumption
<1>7. CASE UpdateDies(u)
  BY <1>3, <1>7, UpdateGoesOn, IdleRequest DEF UpdateDies
<1> QED BY <1>4, <1>5, <1>6, <1>7 DEF UpdateStep

LEMMA OfficeInvNext == OfficeInv /\ [OfficeNext]_officeVars => OfficeInv'
<1> SUFFICES ASSUME OfficeInv, [OfficeNext]_officeVars PROVE OfficeInv'
  OBVIOUS
<1>1. CASE Create
  <2>1. PICK b \in Bodies : Creatable(b) /\ office' = Created(b)
    BY <1>1 DEF Create
  <2>2. b \in Body
    BY BodiesAssumption
  <2>3. office' \in Office
    BY <2>1, <2>2, CreatedFits
  <2>4. updates' = updates /\ office = NONE
    BY <1>1 DEF Create
  <2> QED BY <2>3, <2>4
          DEF OfficeInv, OfficeTypeOK, CopiesFit, UpdatesHaveOffice
<1>2. CASE Remove
  BY <1>2, NoOfficeAssumption
     DEF Remove, OfficeInv, OfficeTypeOK, CopiesFit, UpdatesHaveOffice
<1>3. CASE UNCHANGED officeVars
  BY <1>3 DEF officeVars, OfficeInv, OfficeTypeOK, CopiesFit, UpdatesHaveOffice
<1> QED BY <1>1, <1>2, <1>3, LoadKeeps, StepKeeps DEF OfficeNext

LEMMA OfficeInvariant == OfficeSpec => []OfficeInv
<1>1. OfficeInit => OfficeInv
  BY OfficeInvInit
<1>2. OfficeInv /\ [OfficeNext]_officeVars => OfficeInv'
  BY OfficeInvNext
<1> QED BY <1>1, <1>2, PTL DEF OfficeSpec
----------------------------------------------------------------------------
\* Type correctness of an office and of the updates under way (electoral-
\* office.service.ts, create, update and remove).
THEOREM OfficeTypes == OfficeSpec => []OfficeTypeOK
<1>1. OfficeInv => OfficeTypeOK
  BY DEF OfficeInv
<1> QED BY <1>1, OfficeInvariant, PTL

\* The step of an uncontested write leaves the copy of its update.
LEMMA OnlyWriteIsUncontested ==
    ASSUME OfficeInv, [OfficeNext]_officeVars, NEW u \in Updates, Uncontested(u)
    PROVE  office' = updates[u].copy /\ updates[u].pc # "idle"
<1>1. PICK y \in UpdateRequest : y = updates[u] /\ y.pc = "write" /\ y.found = office
  BY DEF OfficeInv, OfficeTypeOK, Uncontested
<1>2. y.copy \in Office /\ office \in Office \cup {GONE}
  BY <1>1, UpdateTypes
<1>3. ~Create /\ ~Remove
  <2>1. Create \/ Remove => updates'[u] = updates[u]
    BY DEF Create, Remove
  <2> QED BY <2>1 DEF Uncontested, Idle
<1>4. ASSUME NEW v \in Updates, Load(v) \/ SelectOffice(v) \/ SelectAreas(v) \/ UpdateDies(v)
      PROVE  office' = office
  BY <1>4 DEF Load, SelectOffice, SelectAreas, UpdateDies
<1>5. ASSUME NEW v \in Updates, WriteOffice(v) PROVE office' = y.copy
  <2>1. v = u
    <3>1. v # u => updates'[u] = updates[u]
      BY <1>5 DEF WriteOffice, OfficeInv, OfficeTypeOK
    <3> QED BY <3>1 DEF Uncontested, Idle
  <2> QED BY <1>1, <1>2, <1>5, <2>1, UncontestedWrite DEF WriteOffice
<1>6. office' = y.copy
  <2>1. office' # office
    BY DEF Uncontested
  <2>2. PICK v \in Updates : Load(v) \/ UpdateStep(v)
    BY <1>3, <2>1 DEF OfficeNext, officeVars
  <2>3. WriteOffice(v)
    BY <1>4, <2>1, <2>2 DEF UpdateStep
  <2> QED BY <1>5, <2>3
<1> QED BY <1>1, <1>6

\* For any locations and any number of updates at a time, and whatever mixture
\* of copies earlier saves have left, an update whose save is not overlapped
\* leaves an office whose scope is of the kind its category has (update, save).
THEOREM UncontestedScopeFits == OfficeSpec => UncontestedSavesFit
<1>1. OfficeInv /\ [OfficeNext]_officeVars =>
        [\A u \in Updates : Uncontested(u) => ScopeFits(office')]_officeVars
  <2> SUFFICES ASSUME OfficeInv, [OfficeNext]_officeVars, NEW u \in Updates, Uncontested(u)
               PROVE  ScopeFits(office')
    OBVIOUS
  <2>1. office' = updates[u].copy /\ updates[u].pc # "idle"
    BY OnlyWriteIsUncontested
  <2>2. ScopeFits(updates[u].copy)
    BY <2>1 DEF OfficeInv, CopiesFit
  <2> QED BY <2>1, <2>2
<1> QED BY <1>1, OfficeInvariant, PTL DEF OfficeSpec, UncontestedSavesFit

\* ... and the areas that it names are in the state of the office it leaves,
\* whatever other updates did since it was loaded (update, save).
THEOREM UncontestedAreasFit == OfficeSpec => UncontestedAreasInState
<1> DEFINE Step ==
      \A u \in Updates : Uncontested(u) =>
        /\ "lgas" \in updates[u].named => office'.lgas \subseteq LgasIn(office'.state)
        /\ "wards" \in updates[u].named => office'.wards \subseteq WardsOfState(office'.state)
<1>1. OfficeInv /\ [OfficeNext]_officeVars => [Step]_officeVars
  <2> SUFFICES ASSUME OfficeInv, [OfficeNext]_officeVars, NEW u \in Updates, Uncontested(u)
               PROVE  NamedFit(office', updates[u].named)
    BY DEF NamedFit
  <2>1. office' = updates[u].copy /\ updates[u].pc # "idle"
    BY OnlyWriteIsUncontested
  <2>2. NamedFit(updates[u].copy, updates[u].named)
    BY <2>1 DEF OfficeInv, CopiesFit
  <2> QED BY <2>1, <2>2
<1> QED BY <1>1, OfficeInvariant, PTL DEF OfficeSpec, UncontestedAreasInState

\* The LGA of a covered ward is covered, unless the office names areas of
\* both kinds.
LEMMA CoveredTogether ==
    ASSUME NEW o \in Office, o.lgas = {} \/ o.wards = {}, NEW w \in CoveredWards(o)
    PROVE  w \in Wards /\ LgaOf[w] \in CoveredLgas(o)
<1>0. o.category \in Category /\ o.wards \subseteq Wards
  BY DEF Office
<1>1. CASE o.category \notin Legislative
  <2>1. w \in WardsIn(CoveredLgas(o))
    BY <1>1 DEF CoveredWards
  <2> QED BY <2>1 DEF WardsIn
<1>2. CASE o.category \in Legislative /\ o.lgas = {}
  <2>1. w \in o.wards
    BY <1>2 DEF CoveredWards, WardsIn
  <2>2. CoveredLgas(o) = {LgaOf[v] : v \in o.wards}
    BY <1>2 DEF CoveredLgas, Legislative
  <2> QED BY <1>0, <2>1, <2>2
<1>3. CASE o.category \in Legislative /\ o.lgas # {}
  <2>1. w \in Wards /\ LgaOf[w] \in o.lgas
    BY <1>3 DEF CoveredWards, WardsIn
  <2>2. CoveredLgas(o) = o.lgas
    BY <1>3 DEF CoveredLgas, Legislative
  <2> QED BY <2>1, <2>2
<1> QED BY <1>1, <1>2, <1>3

\* Whatever updates made of an office that does not name areas of both kinds,
\* its boundary says the same at the levels of units, wards and LGAs
\* (getOfficeBoundaries).
THEOREM LevelsAlwaysAgree == OfficeSpec => []LevelsAgree
<1>1. ASSUME OfficeInv PROVE LevelsAgree
  <2> SUFFICES ASSUME office \notin {NONE, GONE}, office.lgas = {} \/ office.wards = {}
               PROVE  /\ \A u \in PollingUnits :
                           u \in UnitsIn(CoveredWards(office))
                             <=> WardOf[u] \in CoveredWards(office)
                      /\ \A w \in CoveredWards(office) : LgaOf[w] \in CoveredLgas(office)
    BY DEF LevelsAgree, Stored, Boundary
  <2>1. office \in Office
    BY <1>1 DEF OfficeInv, OfficeTypeOK
  <2> QED BY <2>1, CoveredTogether DEF UnitsIn
<1> QED BY <1>1, OfficeInvariant, PTL
----------------------------------------------------------------------------
\* What an entry has become agrees with what has gone wrong: a run that begins
\* finds no more rows than faults, and a worker that has written a row has
\* added one.
TrailFits(e) ==
    /\ e.failures + e.stalls <= e.faults
    /\ e.pc \in {"none", "record", "queued", "running", "stored"} => e.failures < MaxAttempts
    /\ e.pc \in {"none", "record", "lost"} => e.rows = 0
    /\ e.pc \in {"queued", "running"} => e.rows <= e.faults
    /\ e.pc = "stored" => e.rows > 0 /\ e.rows <= 1 + e.faults
    /\ e.pc = "settled" => /\ e.rows = 0 => e.faults >= 2
                           /\ e.rows <= 1 + e.faults

TrailInv == AuditTypeOK /\ \A r \in Followed : TrailFits(audit[r])
----------------------------------------------------------------------------
\* A step of the trail keeps the entry, and whether there is one.
EntryKept(r) ==
    /\ audit' = [audit EXCEPT ![r] = audit'[r]]
    /\ audit'[r] \in EntryState
    /\ audit'[r].entry = audit[r].entry
    /\ audit'[r].pc # "none" /\ audit[r].pc # "none"

LEMMA TrailMoves ==
    ASSUME TrailInv, NEW r \in Followed, EntryKept(r), TrailFits(audit'[r])
    PROVE  /\ TrailInv'
           /\ \A q \in Followed : /\ audit'[q].entry = audit[q].entry
                                  /\ audit'[q].pc = "none" <=> audit[q].pc = "none"
<1>1. \A q \in Followed \ {r} : audit'[q] = audit[q]
  BY DEF EntryKept, TrailInv, AuditTypeOK
<1>2. AuditTypeOK'
  BY <1>1 DEF EntryKept, TrailInv, AuditTypeOK
<1> QED BY <1>1, <1>2 DEF EntryKept, TrailInv

\* What a step makes of the entry of r, the actor and the status it records left alone.
Becomes(r, pc, f, s, n, d) ==
    /\ audit' = [audit EXCEPT ![r] = audit'[r]]
    /\ audit'[r] \in EntryState
    /\ audit'[r].entry = audit[r].entry
    /\ audit'[r].pc = pc
    /\ audit'[r].failures = f /\ audit'[r].stalls = s
    /\ audit'[r].rows = n /\ audit'[r].faults = d

LEMMA TrailBecomes ==
    ASSUME TrailInv, NEW r \in Followed, audit[r].pc # "none",
           NEW pc \in {"queued", "running", "stored", "settled", "lost"},
           NEW f \in 0 .. 3, NEW s \in 0 .. 1, NEW n \in Nat, NEW d \in Nat,
           Becomes(r, pc, f, s, n, d),
           f + s <= d,
           pc \in {"queued", "running", "stored"} => f < 3,
           pc = "lost" => n = 0,
           pc \in {"queued", "running"} => n <= d,
           pc = "stored" => n > 0 /\ n <= 1 + d,
           pc = "settled" => (n = 0 => d >= 2) /\ n <= 1 + d
    PROVE  /\ TrailInv'
           /\ \A q \in Followed : /\ audit'[q].entry = audit[q].entry
                                  /\ audit'[q].pc = "none" <=> audit[q].pc = "none"
<1>1. EntryKept(r)
  BY DEF EntryKept, Becomes
<1>2. TrailFits(audit'[r])
  BY DEF TrailFits, Becomes, MaxAttempts
<1> QED BY <1>1, <1>2, TrailMoves

LEMMA TrailKeeps ==
    ASSUME TrailInv, NEW r \in Followed, AuditStep(r)
    PROVE  /\ TrailInv'
           /\ \A q \in Followed : /\ audit'[q].entry = audit[q].entry
                                  /\ audit'[q].pc = "none" <=> audit[q].pc = "none"
<1>1. PICK e \in EntryState : e = audit[r]
  BY DEF TrailInv, AuditTypeOK
<1>2. /\ TrailFits(e)
      /\ e.failures \in 0 .. 3 /\ e.stalls \in 0 .. 1 /\ e.rows \in Nat /\ e.faults \in Nat
  BY <1>1 DEF TrailInv, EntryState, MaxAttempts, MaxJobStalls
<1>0. e.rows + 1 \in Nat /\ e.faults + 1 \in Nat
  BY <1>2
<1>3. \A x \in EntryState :
        audit' = [audit EXCEPT ![r] = x] =>
          audit' = [audit EXCEPT ![r] = audit'[r]] /\ audit'[r] = x
  BY DEF TrailInv, AuditTypeOK
<1>4. CASE Enqueue(r)
  <2> DEFINE x == [e EXCEPT !.pc = "queued"]
  <2>1. e.pc = "record" /\ audit' = [audit EXCEPT ![r] = x]
    BY <1>1, <1>4 DEF Enqueue
  <2>2a. x \in EntryState
    BY <1>0, <1>1, <1>2 DEF EntryState
  <2>2. /\ x \in EntryState /\ x.entry = e.entry /\ x.pc = "queued"
        /\ x.failures = e.failures /\ x.stalls = e.stalls
        /\ x.rows = e.rows /\ x.faults = e.faults
    BY <2>2a, <1>1, <1>2 DEF EntryState
  <2> HIDE DEF x
  <2>3. Becomes(r, "queued", e.failures, e.stalls, e.rows, e.faults)
    BY <1>1, <1>3, <2>1, <2>2 DEF Becomes
  <2>4. audit[r].pc # "none" /\ e.failures + e.stalls <= e.faults
    BY <1>1, <1>2, <2>1 DEF TrailFits
  <2> QED BY <1>0, <1>1, <1>2, <2>1, <2>3, <2>4, TrailBecomes DEF TrailFits, MaxAttempts
<1>5. CASE EnqueueFails(r)
  <2>0. PICK queued \in BOOLEAN, written \in BOOLEAN, failed \in BOOLEAN :
          /\ written \/ failed
          /\ audit' = [audit EXCEPT ![r].pc = IF queued THEN "queued" ELSE "settled",
                                    ![r].rows = IF written THEN @ + 1 ELSE @,
                                    ![r].faults = IF failed THEN @ + 2 ELSE @ + 1]
    BY <1>5, Zenon DEF EnqueueFails
  <2>1. /\ e.pc = "record"
        /\ audit' = [audit EXCEPT ![r] =
             [e EXCEPT !.pc = IF queued THEN "queued" ELSE "settled",
                       !.rows = IF written THEN e.rows + 1 ELSE e.rows,
                       !.faults = IF failed THEN e.faults + 2 ELSE e.faults + 1]]
    BY <1>1, <1>5, <2>0 DEF EnqueueFails
  <2>2. PICK pc \in {"queued", "settled"} : pc = IF queued THEN "queued" ELSE "settled"
    OBVIOUS
  <2>3. PICK n \in Nat : n = IF written THEN e.rows + 1 ELSE e.rows
    BY <1>2
  <2>4. PICK d \in Nat : d = IF failed THEN e.faults + 2 ELSE e.faults + 1
    BY <1>2
  <2> DEFINE x == [e EXCEPT !.pc = pc, !.rows = n, !.faults = d]
  <2>5. audit' = [audit EXCEPT ![r] = x]
    BY <2>1, <2>2, <2>3, <2>4
  <2>6a. x \in EntryState
    BY <1>0, <1>1, <1>2 DEF EntryState
  <2>6. /\ x \in EntryState /\ x.entry = e.entry /\ x.pc = pc
        /\ x.failures = e.failures /\ x.stalls = e.stalls
        /\ x.rows = n /\ x.faults = d
    BY <2>6a, <1>1, <1>2 DEF EntryState
  <2> HIDE DEF x
  <2>7. Becomes(r, pc, e.failures, e.stalls, n, d)
    BY <1>1, <1>3, <2>5, <2>6 DEF Becomes
  <2>8. /\ e.failures + e.stalls <= d /\ e.failures < 3
        /\ pc = "queued" => n <= d
        /\ pc = "settled" => (n = 0 => d >= 2) /\ n <= 1 + d
    <3>1. n = e.rows + 1 \/ (n = e.rows /\ failed)
      <4>1. ~written => failed
        BY <2>0, Zenon
      <4>2. (written => n = e.rows + 1) /\ (~written => n = e.rows)
        BY <2>3
      <4> QED BY <4>1, <4>2
    <3>2. d >= e.faults + 1 /\ (failed => d = e.faults + 2)
      BY <1>2, <2>4
    <3>3. e.rows = 0 /\ e.failures < 3 /\ e.failures + e.stalls <= e.faults
      BY <1>2, <2>1 DEF TrailFits, MaxAttempts
    <3>4. (n = 1 /\ d >= e.faults + 1) \/ (n = 0 /\ d = e.faults + 2)
      BY <3>1, <3>2, <3>3
    <3> QED BY <1>2, <3>3, <3>4
  <2> QED BY <1>1, <1>2, <2>1, <2>7, <2>8, TrailBecomes
<1>6. CASE EntryDies(r)
  <2> DEFINE x == [e EXCEPT !.pc = "lost"]
  <2>1. e.pc = "record" /\ audit' = [audit EXCEPT ![r] = x]
    BY <1>1, <1>6 DEF EntryDies
  <2>2a. x \in EntryState
    BY <1>0, <1>1, <1>2 DEF EntryState
  <2>2. /\ x \in EntryState /\ x.entry = e.entry /\ x.pc = "lost"
        /\ x.failures = e.failures /\ x.stalls = e.stalls
        /\ x.rows = e.rows /\ x.faults = e.faults
    BY <2>2a, <1>1, <1>2 DEF EntryState
  <2> HIDE DEF x
  <2>3. Becomes(r, "lost", e.failures, e.stalls, e.rows, e.faults)
    BY <1>1, <1>3, <2>1, <2>2 DEF Becomes
  <2>4. audit[r].pc # "none" /\ e.failures + e.stalls <= e.faults
    BY <1>1, <1>2, <2>1 DEF TrailFits
  <2> QED BY <1>0, <1>1, <1>2, <2>1, <2>3, <2>4, TrailBecomes DEF TrailFits, MaxAttempts
<1>7. CASE Process(r)
  <2> DEFINE x == [e EXCEPT !.pc = "running"]
  <2>1. e.pc = "queued" /\ audit' = [audit EXCEPT ![r] = x]
    BY <1>1, <1>7 DEF Process
  <2>2a. x \in EntryState
    BY <1>0, <1>1, <1>2 DEF EntryState
  <2>2. /\ x \in EntryState /\ x.entry = e.entry /\ x.pc = "running"
        /\ x.failures = e.failures /\ x.stalls = e.stalls
        /\ x.rows = e.rows /\ x.faults = e.faults
    BY <2>2a, <1>1, <1>2 DEF EntryState
  <2> HIDE DEF x
  <2>3. Becomes(r, "running", e.failures, e.stalls, e.rows, e.faults)
    BY <1>1, <1>3, <2>1, <2>2 DEF Becomes
  <2>4. audit[r].pc # "none" /\ e.failures + e.stalls <= e.faults
    BY <1>1, <1>2, <2>1 DEF TrailFits
  <2> QED BY <1>0, <1>1, <1>2, <2>1, <2>3, <2>4, TrailBecomes DEF TrailFits, MaxAttempts
<1>8. CASE Persist(r)
  <2> DEFINE x == [e EXCEPT !.pc = "stored", !.rows = e.rows + 1]
  <2>1. e.pc = "running" /\ audit' = [audit EXCEPT ![r] = x]
    BY <1>1, <1>8 DEF Persist
  <2>2a. x \in EntryState
    BY <1>0, <1>1, <1>2 DEF EntryState
  <2>2. /\ x \in EntryState /\ x.entry = e.entry /\ x.pc = "stored"
        /\ x.failures = e.failures /\ x.stalls = e.stalls
        /\ x.rows = e.rows + 1 /\ x.faults = e.faults
    BY <2>2a, <1>1, <1>2 DEF EntryState
  <2> HIDE DEF x
  <2>3. Becomes(r, "stored", e.failures, e.stalls, e.rows + 1, e.faults)
    BY <1>1, <1>3, <2>1, <2>2 DEF Becomes
  <2>4. audit[r].pc # "none" /\ e.failures + e.stalls <= e.faults
    BY <1>1, <1>2, <2>1 DEF TrailFits
  <2> QED BY <1>0, <1>1, <1>2, <2>1, <2>3, <2>4, TrailBecomes DEF TrailFits, MaxAttempts
<1>9. CASE PersistFails(r)
  <2>1. PICK written \in BOOLEAN :
          /\ e.pc = "running"
          /\ audit' = [audit EXCEPT ![r] =
               [e EXCEPT !.pc = IF e.failures + 1 < 3 THEN "queued" ELSE "settled",
                         !.failures = e.failures + 1,
                         !.rows = IF written THEN e.rows + 1 ELSE e.rows,
                         !.faults = e.faults + 1]]
    BY <1>1, <1>9 DEF PersistFails, MaxAttempts
  <2>2. PICK pc \in {"queued", "settled"} :
          pc = IF e.failures + 1 < 3 THEN "queued" ELSE "settled"
    OBVIOUS
  <2>3. PICK n \in Nat : n = IF written THEN e.rows + 1 ELSE e.rows
    BY <1>2
  <2>4. /\ e.failures < 3 /\ e.failures + 1 + e.stalls <= e.faults + 1
        /\ e.failures + 1 \in 0 .. 3
        /\ pc = "queued" => e.failures + 1 < 3
        /\ pc = "settled" => e.failures = 2
        /\ e.rows <= e.faults
    BY <1>2, <2>1, <2>2 DEF TrailFits, MaxAttempts
  <2> DEFINE x == [e EXCEPT !.pc = pc, !.failures = e.failures + 1, !.rows = n,
                            !.faults = e.faults + 1]
  <2>5. audit' = [audit EXCEPT ![r] = x]
    BY <2>1, <2>2, <2>3
  <2>6a. x \in EntryState
    BY <1>0, <1>1, <1>2, <2>4 DEF EntryState, MaxAttempts
  <2>6. /\ x \in EntryState /\ x.entry = e.entry /\ x.pc = pc
        /\ x.failures = e.failures + 1 /\ x.stalls = e.stalls
        /\ x.rows = n /\ x.faults = e.faults + 1
    BY <2>6a, <1>1, <1>2, <2>4 DEF EntryState, MaxAttempts
  <2> HIDE DEF x
  <2>7. Becomes(r, pc, e.failures + 1, e.stalls, n, e.faults + 1)
    BY <1>1, <1>3, <2>5, <2>6 DEF Becomes
  <2>8. /\ n <= e.faults + 1
        /\ pc = "settled" => (n = 0 => e.faults + 1 >= 2) /\ n <= 1 + (e.faults + 1)
    BY <1>2, <2>3, <2>4
  <2>9. audit[r].pc # "none" /\ e.faults + 1 \in Nat
    BY <1>1, <1>2, <2>1
  <2> QED BY <1>2, <2>4, <2>7, <2>8, <2>9, TrailBecomes
<1>10. CASE JobDone(r)
  <2> DEFINE x == [e EXCEPT !.pc = "settled"]
  <2>1. e.pc = "stored" /\ audit' = [audit EXCEPT ![r] = x]
    BY <1>1, <1>10 DEF JobDone
  <2>2a. x \in EntryState
    BY <1>0, <1>1, <1>2 DEF EntryState
  <2>2. /\ x \in EntryState /\ x.entry = e.entry /\ x.pc = "settled"
        /\ x.failures = e.failures /\ x.stalls = e.stalls
        /\ x.rows = e.rows /\ x.faults = e.faults
    BY <2>2a, <1>1, <1>2 DEF EntryState
  <2> HIDE DEF x
  <2>3. Becomes(r, "settled", e.failures, e.stalls, e.rows, e.faults)
    BY <1>1, <1>3, <2>1, <2>2 DEF Becomes
  <2>4. audit[r].pc # "none" /\ e.failures + e.stalls <= e.faults
    BY <1>1, <1>2, <2>1 DEF TrailFits
  <2> QED BY <1>0, <1>1, <1>2, <2>1, <2>3, <2>4, TrailBecomes DEF TrailFits, MaxAttempts
<1>11. CASE JobStalls(r)
  <2>1. /\ e.pc \in {"running", "stored"}
        /\ audit' = [audit EXCEPT ![r] =
             [e EXCEPT !.pc = IF e.stalls < 1 THEN "queued" ELSE "settled",
                       !.stalls = IF e.stalls < 1 THEN e.stalls + 1 ELSE e.stalls,
                       !.faults = e.faults + 1]]
    BY <1>1, <1>11 DEF JobStalls, MaxJobStalls
  <2>2. PICK pc \in {"queued", "settled"} : pc = IF e.stalls < 1 THEN "queued" ELSE "settled"
    OBVIOUS
  <2>3. PICK s \in 0 .. 1 : s = IF e.stalls < 1 THEN e.stalls + 1 ELSE e.stalls
    BY <1>2
  <2> DEFINE x == [e EXCEPT !.pc = pc, !.stalls = s, !.faults = e.faults + 1]
  <2>4. audit' = [audit EXCEPT ![r] = x]
    BY <2>1, <2>2, <2>3
  <2>5a. x \in EntryState
    BY <1>0, <1>1, <1>2 DEF EntryState, MaxJobStalls
  <2>5. /\ x \in EntryState /\ x.entry = e.entry /\ x.pc = pc
        /\ x.failures = e.failures /\ x.stalls = s
        /\ x.rows = e.rows /\ x.faults = e.faults + 1
    BY <2>5a, <1>1, <1>2 DEF EntryState, MaxJobStalls
  <2> HIDE DEF x
  <2>6. Becomes(r, pc, e.failures, s, e.rows, e.faults + 1)
    BY <1>1, <1>3, <2>4, <2>5 DEF Becomes
  <2>7. /\ e.failures + s <= e.faults + 1 /\ e.failures < 3
        /\ pc = "queued" => e.rows <= e.faults + 1
        /\ pc = "settled" => /\ e.rows = 0 => e.faults + 1 >= 2
                             /\ e.rows <= 1 + (e.faults + 1)
    BY <1>2, <2>1, <2>2, <2>3 DEF TrailFits, MaxAttempts
  <2>8. audit[r].pc # "none" /\ e.faults + 1 \in Nat
    BY <1>1, <1>2, <2>1
  <2> QED BY <1>2, <2>6, <2>7, <2>8, TrailBecomes
<1> QED BY <1>4, <1>5, <1>6, <1>7, <1>8, <1>9, <1>10, <1>11 DEF AuditStep
----------------------------------------------------------------------------
\* The report of r has not been saved.
Pending(r) == requests[r].pc \in {"none", "resolve", "bound", "save"}

Unsaved(r) == Pending(r) => incidents[r] = NONE

\* What a report is about to save is in the area and the levels of its reporter.
RowOk(x) ==
    x.pc \in {"bound", "save"} =>
      /\ x.profile.role = "PU_AGENT" => x.row.at.unit = x.profile.area
      /\ x.profile.role = "WARD_COORDINATOR" => x.row.at.ward = x.profile.area
      /\ x.profile.role = "LGA_COORDINATOR" => x.row.at.lga = x.profile.area
      /\ x.row.at.unit # NONE => x.row.at.ward = WardOf[x.row.at.unit]
      /\ x.row.at.ward # NONE => x.row.at.lga = LgaOf[x.row.at.ward]
      /\ x.profile.campaign # NONE => x.row.campaign = x.profile.campaign
      /\ x.pc = "bound" => x.profile.campaign # NONE
      /\ x.pc = "save" /\ x.profile.campaign # NONE /\ x.calm =>
           Within(x.row.at, Boundary(offices[x.profile.campaign]))

\* A change that has looked at its incident is not about one still to come.
Aimed(x) == x.pc = "change" /\ x.on \in Requests => ~Pending(x.on)

\* A report is about the incident it makes.
Own(r) == requests[r].pc # "none" /\ requests[r].op = "report" => requests[r].on = r

\* The trail calls r a success.
Succeeded(r) == r \in Followed /\ audit[r].pc # "none" /\ audit[r].entry.status = "SUCCESS"

\* Somebody has asked for the removal of the incident i, and may be through.
RemovalOf(i) ==
    \E q \in Requests : requests[q].pc # "none" /\ requests[q].op = "remove" /\ requests[q].on = i

Removed(r) ==
    Succeeded(r) /\ requests[r].op = "remove" =>
        /\ incidents[requests[r].on] = NONE
        /\ requests[r].on \in Requests => ~Pending(requests[r].on)

Reported(r) ==
    /\ requests[r].pc # "none" /\ requests[r].op = "report"
    /\ requests[r].pc = "reload" \/ Succeeded(r)
    => incidents[r] # NONE \/ RemovalOf(r)

IncidentInv ==
    /\ IncidentsTypeOK
    /\ TrailInv
    /\ \A r \in Requests : Unsaved(r)
    /\ \A r \in Requests : RowOk(requests[r])
    /\ \A r \in Requests : Aimed(requests[r])
    /\ \A r \in Requests : Own(r)
    /\ \A r \in Requests : Removed(r)
    /\ \A r \in Requests : Reported(r)

----------------------------------------------------------------------------
\* A request becomes x.
Moves(r, x) ==
    /\ requests' = [requests EXCEPT ![r] = x]
    /\ x \in RequestState
    /\ x.pc # "none"
    /\ requests[r].pc # "none" => x.op = requests[r].op /\ x.on = requests[r].on
    /\ x.pc \in {"resolve", "bound", "save"} => Pending(r)
    /\ RowOk(x)
    /\ Aimed(x)
    /\ x.op = "report" => x.on = r
    /\ UNCHANGED offices
    /\ incidents' \in [Ids -> Incident \cup {NONE}]
    /\ \A i \in Ids : incidents[i] = NONE =>
         incidents'[i] = NONE \/ (i = r /\ x.pc = "reload" /\ x.op = "report")
    /\ \A i \in Ids : incidents[i] # NONE =>
         incidents'[i] # NONE \/ (x.op = "remove" /\ x.on = i)
    /\ TrailInv'
    /\ \A q \in Followed \ {r} : audit'[q] = audit[q]
    /\ r \in Followed /\ audit'[r].pc # "none" => x.pc = "ended"

LEMMA RequestMoves ==
    ASSUME IncidentInv, NEW r \in Requests, NEW x, Moves(r, x),
           x.pc = "reload" /\ x.op = "report" => Pending(r),
           Succeeded(r)' /\ x.op = "remove" =>
             incidents'[x.on] = NONE /\ (x.on \in Requests => ~Pending(x.on)),
           x.op = "report" /\ (x.pc = "reload" \/ Succeeded(r)') =>
             incidents'[r] # NONE \/ RemovalOf(r)
    PROVE  IncidentInv'
<1>1. /\ requests \in [Requests -> RequestState] /\ requests'[r] = x
      /\ \A q \in Requests \ {r} : requests'[q] = requests[q]
      /\ requests' \in [Requests -> RequestState]
      /\ \A q \in Requests : q \in Ids
  BY DEF Moves, IncidentInv, IncidentsTypeOK, Ids
<1>2. \A q \in Requests : ~Pending(q) => ~Pending(q)'
  BY <1>1 DEF Moves, Pending
<1>3. \A q \in Requests : requests[q].pc # "none" =>
        /\ requests'[q].pc # "none"
        /\ requests'[q].op = requests[q].op /\ requests'[q].on = requests[q].on
  BY <1>1 DEF Moves
<1>4. \A i : RemovalOf(i) => RemovalOf(i)'
  BY <1>3 DEF RemovalOf
<1>5. \A q \in Requests \ {r} : Succeeded(q)' => Succeeded(q)
  BY DEF Moves, Succeeded
<1>6. IncidentsTypeOK'
  <2>1. AuditTypeOK' /\ (offices \in [Campaigns -> Office])'
    BY DEF Moves, TrailInv, IncidentInv, IncidentsTypeOK
  <2>2. \A q \in Followed : audit'[q].pc # "none" => requests'[q].pc = "ended"
    BY <1>1, FollowedAssumption DEF Moves, IncidentInv, IncidentsTypeOK
  <2> QED BY <1>1, <2>1, <2>2 DEF Moves, IncidentsTypeOK
<1>7. \A q \in Requests : Unsaved(q)'
  <2> SUFFICES ASSUME NEW q \in Requests, Pending(q)' PROVE incidents'[q] = NONE
    BY DEF Unsaved
  <2>1. Pending(q) /\ ~(q = r /\ x.pc = "reload")
    BY <1>1, <1>2 DEF Pending
  <2> QED BY <1>1, <2>1 DEF Moves, IncidentInv, Unsaved
<1>8. \A q \in Requests : RowOk(requests[q])'
  BY <1>1 DEF Moves, IncidentInv, RowOk
<1>9. \A q \in Requests : Aimed(requests[q])'
  <2> SUFFICES ASSUME NEW q \in Requests PROVE Aimed(requests[q])'
    OBVIOUS
  <2>1. CASE q = r
    BY <1>1, <1>2, <2>1 DEF Moves, Aimed
  <2>2. CASE q # r
    BY <1>1, <1>2, <2>2 DEF IncidentInv, Aimed
  <2> QED BY <2>1, <2>2
<1>10. \A q \in Requests : Removed(q)'
  <2> SUFFICES ASSUME NEW q \in Requests, Succeeded(q)', requests'[q].op = "remove"
               PROVE  /\ incidents'[requests'[q].on] = NONE
                      /\ requests'[q].on \in Requests => ~Pending(requests[q].on)'
    BY DEF Removed
  <2>1. CASE q = r
    BY <1>1, <1>2, <2>1
  <2>2. CASE q # r
    <3>1. PICK i : i = requests[q].on
      OBVIOUS
    <3>2. /\ requests'[q].on = i /\ requests[q].pc = "ended"
          /\ incidents[i] = NONE /\ (i \in Requests => ~Pending(i))
      BY <1>1, <1>5, <2>2, <3>1 DEF IncidentInv, IncidentsTypeOK, Removed, Succeeded
    <3>3. i \in Ids
      BY <1>1, <3>1, <3>2 DEF RequestState, Fresh, Ids
    <3>4. incidents'[i] = NONE
      BY <1>1, <3>2, <3>3 DEF Moves
    <3>5. i \in Requests => ~Pending(i)'
      BY <1>2, <3>2
    <3> QED BY <3>1, <3>2, <3>4, <3>5
  <2> QED BY <2>1, <2>2
<1>11. \A q \in Requests : Reported(q)'
  <2> SUFFICES ASSUME NEW q \in Requests, requests'[q].op = "report",
                      requests'[q].pc # "none", requests'[q].pc = "reload" \/ Succeeded(q)'
               PROVE  incidents'[q] # NONE \/ RemovalOf(q)'
    BY DEF Reported
  <2>1. CASE q = r
    BY <1>1, <1>4, <2>1
  <2>2. CASE q # r
    <3>1. incidents[q] # NONE \/ RemovalOf(q)
      BY <1>1, <1>5, <2>2 DEF IncidentInv, Reported
    <3>2. CASE RemovalOf(q)
      BY <1>4, <3>2
    <3>3. CASE incidents[q] # NONE
      <4>1. incidents'[q] # NONE \/ (x.op = "remove" /\ x.on = q)
        BY <1>1, <3>3 DEF Moves
      <4>2. x.pc # "none"
        BY DEF Moves
      <4> QED BY <1>1, <4>1, <4>2 DEF RemovalOf
    <3> QED BY <3>1, <3>2, <3>3
  <2> QED BY <2>1, <2>2
<1>12. \A q \in Requests : Own(q)'
  BY <1>1 DEF Moves, Own, IncidentInv
<1> QED BY <1>6, <1>7, <1>8, <1>9, <1>10, <1>11, <1>12 DEF IncidentInv, Moves

\* A request that goes on leaves the trail alone.
Goes(r, x, new) ==
    /\ requests' = [requests EXCEPT ![r] = x]
    /\ x \in RequestState
    /\ incidents' = new
    /\ UNCHANGED <<offices, audit>>

LEMMA RequestGoes ==
    ASSUME IncidentInv, NEW r \in Requests, requests[r].pc # "ended",
           NEW new \in [Ids -> Incident \cup {NONE}], NEW x, Goes(r, x, new),
           x.pc \notin {"none", "ended"},
           requests[r].pc # "none" => x.op = requests[r].op /\ x.on = requests[r].on,
           x.pc \in {"resolve", "bound", "save"} => Pending(r),
           RowOk(x), Aimed(x), x.op = "report" => x.on = r,
           x.pc = "reload" /\ x.op = "report" => Pending(r) /\ new[r] # NONE,
           \A i \in Ids : incidents[i] = NONE =>
             new[i] = NONE \/ (i = r /\ x.pc = "reload" /\ x.op = "report"),
           \A i \in Ids : incidents[i] # NONE => new[i] # NONE
    PROVE  IncidentInv'
<1>1. r \in Followed => audit[r].pc = "none"
  BY DEF IncidentInv, IncidentsTypeOK
<1>2. ~Succeeded(r)'
  BY <1>1 DEF Goes, Succeeded
<1>3. TrailInv'
  BY DEF IncidentInv, Goes, TrailInv, AuditTypeOK, TrailFits
<1>4. Moves(r, x)
  BY <1>1, <1>3 DEF Goes, Moves
<1>5. x.op = "report" /\ x.pc = "reload" => incidents'[r] # NONE
  BY DEF Goes
<1> QED BY <1>2, <1>4, <1>5, RequestMoves

\* An entry of a handler that has ended.
LEMMA RecordKeeps ==
    ASSUME TrailInv, NEW r \in Requests, r \in Followed => audit[r].pc = "none",
           NEW admin \in BOOLEAN, NEW status \in AuditStatus, Recorded(r, admin, status)
    PROVE  /\ TrailInv'
           /\ \A q \in Followed \ {r} : audit'[q] = audit[q]
           /\ r \in Followed => audit'[r].entry.status = status
<1>1. CASE r \notin Followed
  <2>1. audit' = audit
    BY <1>1 DEF Recorded
  <2> QED BY <1>1, <2>1 DEF TrailInv, AuditTypeOK, TrailFits
<1>2. CASE r \in Followed
  <2>1. PICK e \in EntryState : e = audit[r] /\ TrailFits(e) /\ e.pc = "none"
    BY <1>2 DEF TrailInv, AuditTypeOK
  <2>2. PICK y \in Entry : y = [actor |-> ExtractActor(admin, TRUE), status |-> status]
    BY DEF Entry, ExtractActor, ActorType
  <2>3. y.status = status /\ y # ABSENT
    BY <2>2, NoEntryAssumption
  <2> DEFINE x == [e EXCEPT !.pc = "record", !.entry = y]
  <2>4. audit' = [audit EXCEPT ![r] = x]
    BY <1>2, <2>1, <2>2 DEF Recorded
  <2>5. x \in EntryState /\ x.entry = y /\ x.pc = "record"
    BY <2>1 DEF EntryState
  <2>6. x.failures = e.failures /\ x.stalls = e.stalls /\ x.rows = e.rows /\ x.faults = e.faults
    BY <2>1 DEF EntryState
  <2> HIDE DEF x
  <2>7. TrailFits(x)
    BY <2>1, <2>5, <2>6 DEF TrailFits, EntryState
  <2>8. audit'[r] = x /\ \A q \in Followed \ {r} : audit'[q] = audit[q]
    BY <1>2, <2>4 DEF TrailInv, AuditTypeOK
  <2>9. AuditTypeOK'
    BY <2>3, <2>4, <2>5, <2>8 DEF TrailInv, AuditTypeOK
  <2> QED BY <2>3, <2>5, <2>7, <2>8, <2>9 DEF TrailInv
<1> QED BY <1>1, <1>2

\* A request that ends, with an entry in the trail.
Concludes(r, op, on, status, new) ==
    /\ \E admin \in BOOLEAN : Recorded(r, admin, status)
    /\ requests' = [requests EXCEPT ![r] = [pc |-> "ended", op |-> op, on |-> on]]
    /\ incidents' = new
    /\ UNCHANGED offices

LEMMA RequestEnds ==
    ASSUME IncidentInv, NEW r \in Requests, requests[r].pc # "ended",
           NEW status \in AuditStatus,
           NEW op \in {"report", "status", "remove"}, NEW on \in Ids, op = "report" => on = r,
           NEW new \in [Ids -> Incident \cup {NONE}], Concludes(r, op, on, status, new),
           requests[r].pc # "none" => op = requests[r].op /\ on = requests[r].on,
           \A i \in Ids : incidents[i] = NONE => new[i] = NONE,
           \A i \in Ids : incidents[i] # NONE => new[i] # NONE \/ (op = "remove" /\ on = i),
           status = "SUCCESS" /\ op = "remove" =>
             new[on] = NONE /\ (on \in Requests => ~Pending(on)),
           status = "SUCCESS" /\ op = "report" => new[r] # NONE \/ RemovalOf(r)
    PROVE  IncidentInv'
<1> DEFINE x == [pc |-> "ended", op |-> op, on |-> on]
<1>1. r \in Followed => audit[r].pc = "none"
  BY DEF IncidentInv, IncidentsTypeOK
<1>2. /\ TrailInv'
      /\ \A q \in Followed \ {r} : audit'[q] = audit[q]
      /\ r \in Followed => audit'[r].entry.status = status
  BY <1>1, RecordKeeps DEF IncidentInv, Concludes
<1>3. Succeeded(r)' => status = "SUCCESS"
  BY <1>2 DEF Succeeded
<1>4. x \in RequestState /\ x.pc = "ended" /\ x.op = op /\ x.on = on
  BY DEF RequestState
<1> HIDE DEF x
<1>5. requests' = [requests EXCEPT ![r] = x] /\ incidents' = new /\ UNCHANGED offices
  BY DEF x, Concludes
<1>6. RowOk(x) /\ Aimed(x)
  BY <1>4 DEF RowOk, Aimed
<1>7. Moves(r, x)
  BY <1>2, <1>4, <1>5, <1>6 DEF Moves
<1> QED BY <1>3, <1>4, <1>5, <1>7, RequestMoves
----------------------------------------------------------------------------
\* A location that createIncident resolves is one place in the reporter's area.
LEMMA ResolvedFits ==
    ASSUME NEW profile \in Reporter, NEW dto \in Dto, Resolved(profile, dto) # NONE
    PROVE  LET at == Resolved(profile, dto)
           IN  /\ at \in Location
               /\ profile.role = "PU_AGENT" => at.unit = profile.area
               /\ profile.role = "WARD_COORDINATOR" => at.ward = profile.area
               /\ profile.role = "LGA_COORDINATOR" => at.lga = profile.area
               /\ at.unit # NONE => at.ward = WardOf[at.unit]
               /\ at.ward # NONE => at.lga = LgaOf[at.ward]
<1>1. /\ profile.role \in {"PU_AGENT", "WARD_COORDINATOR", "LGA_COORDINATOR"}
      /\ profile.area # NONE
      /\ profile.role = "PU_AGENT" => profile.area \in PollingUnits
      /\ profile.role = "WARD_COORDINATOR" => profile.area \in Wards
      /\ profile.role = "LGA_COORDINATOR" => profile.area \in Lgas
  BY DEF Reporter, Resolved
<1>2. dto.unit \in PollingUnits \cup {NONE} /\ dto.ward \in Wards \cup {NONE}
  BY DEF Dto
<1>3. \A u \in PollingUnits :
        /\ AboveUnit(u) \in Location
        /\ AboveUnit(u).unit = u /\ AboveUnit(u).ward = WardOf[u]
        /\ AboveUnit(u).lga = LgaOf[WardOf[u]]
  BY PlacesAssumption DEF AboveUnit, Location
<1>4. \A w \in Wards :
        /\ Above(w) \in Location
        /\ Above(w).unit = NONE /\ Above(w).ward = w /\ Above(w).lga = LgaOf[w]
  BY PlacesAssumption DEF Above, Location
<1>5. CASE profile.role = "PU_AGENT"
  <2>1. Resolved(profile, dto) = AboveUnit(profile.area)
    BY <1>1, <1>5 DEF Resolved, LocationOfAgent
  <2> QED BY <1>1, <1>3, <1>5, <2>1
<1>6. CASE profile.role = "WARD_COORDINATOR"
  <2>1. Resolved(profile, dto) = LocationInWard(profile, dto)
    BY <1>1, <1>6 DEF Resolved
  <2>2. CASE dto.unit = NONE
    <3>1. Resolved(profile, dto) = Above(profile.area)
      BY <2>1, <2>2 DEF LocationInWard
    <3> QED BY <1>1, <1>4, <1>6, <3>1
  <2>3. CASE dto.unit # NONE
    <3>1. Resolved(profile, dto) = AboveUnit(dto.unit) /\ WardOf[dto.unit] = profile.area
      BY <2>1, <2>3 DEF LocationInWard
    <3> QED BY <1>1, <1>2, <1>3, <1>6, <2>3, <3>1
  <2> QED BY <2>2, <2>3
<1>7. CASE profile.role = "LGA_COORDINATOR"
  <2>1. Resolved(profile, dto) = LocationInLga(profile, dto)
    BY <1>1, <1>7 DEF Resolved
  <2>2. CASE dto.unit # NONE
    <3>1. /\ Resolved(profile, dto) = AboveUnit(dto.unit)
          /\ LgaOf[WardOf[dto.unit]] = profile.area
      BY <2>1, <2>2 DEF LocationInLga
    <3> QED BY <1>1, <1>2, <1>3, <1>7, <2>2, <3>1
  <2>3. CASE dto.unit = NONE /\ dto.ward # NONE
    <3>1. Resolved(profile, dto) = Above(dto.ward) /\ LgaOf[dto.ward] = profile.area
      BY <2>1, <2>3 DEF LocationInLga
    <3> QED BY <1>1, <1>2, <1>4, <1>7, <2>3, <3>1
  <2>4. CASE dto.unit = NONE /\ dto.ward = NONE
    <3>1. Resolved(profile, dto) = [unit |-> NONE, ward |-> NONE, lga |-> profile.area]
      BY <2>1, <2>4 DEF LocationInLga
    <3> QED BY <1>1, <1>7, <3>1 DEF Location
  <2> QED BY <2>2, <2>3, <2>4
<1> QED BY <1>1, <1>5, <1>6, <1>7

\* What a request is at each point of its handler.
LEMMA RequestShape ==
    ASSUME IncidentInv, NEW r \in Requests, NEW x, x = requests[r]
    PROVE  /\ x \in RequestState
           /\ x.pc \in {"none", "resolve", "bound", "save", "change", "reload", "ended", "died"}
           /\ x.pc # "none" => x.op \in {"report", "status", "remove"} /\ x.on \in Ids
           /\ x.pc \in {"resolve", "bound", "save", "change", "reload"} => x.by.admin \in BOOLEAN
           /\ x.pc \in {"resolve", "bound", "save"} => x.op = "report" /\ x.by = AgentOrCoordinator
           /\ x.pc = "resolve" => x.profile \in Profiles /\ x.dto \in Dtos
           /\ x.pc \in {"bound", "save"} =>
                /\ x.on \in Requests /\ x.profile \in Profiles /\ x.row \in Incident
                /\ x.calm \in BOOLEAN
           /\ x.pc = "change" => x.op \in {"status", "remove"} /\ x.by \in Actors
           /\ x.pc = "reload" => x.op # "remove"
           /\ x.pc # "none" /\ x.op = "report" => x.on = r
<1>1. x \in RequestState
  BY DEF IncidentInv, IncidentsTypeOK
<1>2. \A r1 \in Requests : r1 \in Ids
  BY DEF Ids
<1>3. \A y \in Actors : y.admin \in BOOLEAN
  BY IncidentsAssumption DEF Actor
<1>4. x.pc \in {"none", "resolve", "bound", "save", "change", "reload", "ended", "died"}
  BY <1>1 DEF RequestState, Fresh
<1>5. x.pc # "none" => x.op \in {"report", "status", "remove"} /\ x.on \in Ids
  BY <1>1, <1>2 DEF RequestState, Fresh
<1>6. x.pc \in {"resolve", "bound", "save", "change", "reload"} => x.by.admin \in BOOLEAN
  <2>1. AgentOrCoordinator.admin \in BOOLEAN
    BY DEF AgentOrCoordinator
  <2>2. x.pc \in {"resolve", "bound", "save", "change", "reload"} =>
          x.by = AgentOrCoordinator \/ x.by \in Actors
    BY <1>1 DEF RequestState, Fresh
  <2> QED BY <1>3, <2>1, <2>2
<1>7. x.pc \in {"resolve", "bound", "save"} => x.op = "report" /\ x.by = AgentOrCoordinator
  BY <1>1 DEF RequestState, Fresh
<1>8. x.pc = "resolve" => x.profile \in Profiles /\ x.dto \in Dtos
  BY <1>1 DEF RequestState, Fresh
<1>9. x.pc \in {"bound", "save"} =>
         x.on \in Requests /\ x.profile \in Profiles /\ x.row \in Incident /\ x.calm \in BOOLEAN
  BY <1>1 DEF RequestState, Fresh
<1>10. x.pc = "change" => x.op \in {"status", "remove"} /\ x.by \in Actors
  BY <1>1 DEF RequestState, Fresh
<1>11. x.pc # "none" /\ x.op = "report" => x.on = r
  BY DEF IncidentInv, Own
<1>12. x.pc = "reload" => x.op # "remove"
  BY <1>1 DEF RequestState, Fresh
<1> QED BY <1>1, <1>4, <1>5, <1>6, <1>7, <1>8, <1>9, <1>10, <1>11, <1>12

LEMMA ReportKeeps ==
    ASSUME IncidentInv, NEW r \in Requests, Report(r)
    PROVE  IncidentInv'
<1>1. PICK profile \in Profiles, dto \in Dtos :
        requests' = [requests EXCEPT ![r] =
          [pc |-> "resolve", op |-> "report", on |-> r, by |-> AgentOrCoordinator,
           profile |-> profile, dto |-> dto]]
  BY DEF Report, SetRequest
<1> DEFINE x == [pc |-> "resolve", op |-> "report", on |-> r, by |-> AgentOrCoordinator,
                 profile |-> profile, dto |-> dto]
<1>2. x \in RequestState /\ x.pc = "resolve" /\ x.op = "report" /\ x.on = r
  BY DEF RequestState
<1>3. requests' = [requests EXCEPT ![r] = x]
  BY <1>1
<1> HIDE DEF x
<1>4. /\ requests[r].pc = "none" /\ Pending(r)
      /\ incidents \in [Ids -> Incident \cup {NONE}]
      /\ RowOk(x) /\ Aimed(x)
  BY <1>2 DEF Report, Pending, RowOk, Aimed, IncidentInv, IncidentsTypeOK
<1>5. Goes(r, x, incidents)
  BY <1>2, <1>3 DEF Goes, Report
<1> QED BY <1>2, <1>4, <1>5, RequestGoes

LEMMA ResolveKeeps ==
    ASSUME IncidentInv, NEW r \in Requests, Resolve(r)
    PROVE  IncidentInv'
<1>1. PICK profile, dto, at :
        /\ profile = requests[r].profile /\ dto = requests[r].dto
        /\ at = Resolved(profile, dto)
  OBVIOUS
<1>2. /\ requests[r].pc = "resolve" /\ requests[r].op = "report"
      /\ requests[r].by = AgentOrCoordinator
      /\ profile \in Reporter /\ profile \in Profiles /\ dto \in Dto
  BY <1>1, RequestShape, IncidentsAssumption DEF Resolve
<1>3. PICK row : row = [at |-> at, status |-> "REPORTED",
                        campaign |-> IF profile.campaign # NONE THEN profile.campaign
                                     ELSE dto.campaign]
  OBVIOUS
<1>4. PICK pc \in {"bound", "save"} : pc = IF profile.campaign = NONE THEN "save" ELSE "bound"
  OBVIOUS
<1> DEFINE x == [pc |-> pc, op |-> "report", on |-> r, by |-> AgentOrCoordinator,
                 profile |-> profile, calm |-> TRUE, row |-> row]
<1>5. at # NONE /\ requests' = [requests EXCEPT ![r] = x]
  BY <1>1, <1>2, <1>3, <1>4 DEF Resolve, SetRequest
<1>6. row \in Incident
  <2>1. at \in Location
    BY <1>1, <1>2, <1>5, ResolvedFits
  <2>2. profile.campaign \in Campaign /\ dto.campaign \in Campaign
    BY <1>2 DEF Reporter, Dto
  <2> QED BY <1>3, <2>1, <2>2 DEF Incident, IncidentStatus
<1>7. x \in RequestState
  BY <1>2, <1>6 DEF RequestState
<1>8. /\ x.pc = pc /\ x.op = "report" /\ x.on = r /\ x.profile = profile /\ x.row = row
      /\ row.at = at /\ row.campaign = IF profile.campaign # NONE THEN profile.campaign
                                       ELSE dto.campaign
  BY <1>3
<1> HIDE DEF x
<1>9. RowOk(x)
  BY <1>1, <1>2, <1>4, <1>5, <1>8, ResolvedFits DEF RowOk
<1>10. requests[r].on = r
  BY <1>2 DEF IncidentInv, Own
<1>11. Goes(r, x, incidents)
  BY <1>5, <1>7 DEF Goes, Resolve
<1>12. /\ Pending(r) /\ Aimed(x) /\ incidents \in [Ids -> Incident \cup {NONE}]
       /\ x.pc \notin {"none", "ended", "reload"}
  BY <1>2, <1>4, <1>8 DEF Pending, Aimed, IncidentInv, IncidentsTypeOK
<1> QED BY <1>2, <1>8, <1>9, <1>10, <1>11, <1>12, RequestGoes

\* A handler that ends as it began: the incidents are what they were.
LEMMA EndsKeeps ==
    ASSUME IncidentInv, NEW r \in Requests, NEW status \in AuditStatus,
           requests[r].pc \in {"resolve", "bound", "save", "change", "reload"},
           Ends(r, status), UNCHANGED <<offices, incidents>>,
           status = "SUCCESS" => requests[r].pc = "reload" /\ requests[r].op # "remove"
    PROVE  IncidentInv'
<1>1. PICK x : x = requests[r]
  OBVIOUS
<1>2. /\ x.op \in {"report", "status", "remove"} /\ x.on \in Ids /\ x.by.admin \in BOOLEAN
      /\ x.pc # "none" /\ x.pc # "ended"
      /\ x.op = "report" => x.on = r
  BY <1>1, RequestShape
<1>3. /\ Recorded(r, x.by.admin, status)
      /\ requests' = [requests EXCEPT ![r] = [pc |-> "ended", op |-> x.op, on |-> x.on]]
  BY <1>1 DEF Ends, SetRequest
<1>4. incidents \in [Ids -> Incident \cup {NONE}] /\ incidents' = incidents
  BY DEF IncidentInv, IncidentsTypeOK
<1>5. status = "SUCCESS" /\ x.op = "report" => incidents[r] # NONE \/ RemovalOf(r)
  BY <1>1, <1>2 DEF IncidentInv, Reported
<1>6. PICK op \in {"report", "status", "remove"}, on \in Ids : op = x.op /\ on = x.on
  BY <1>2
<1>7. status = "SUCCESS" => op # "remove"
  BY <1>1, <1>6
<1>8. Concludes(r, op, on, status, incidents)
  BY <1>2, <1>3, <1>4, <1>6 DEF Concludes
<1>9. /\ op = "report" => on = r
      /\ requests[r].pc \notin {"none", "ended"} /\ op = requests[r].op /\ on = requests[r].on
      /\ status = "SUCCESS" /\ op = "report" => incidents[r] # NONE \/ RemovalOf(r)
  BY <1>1, <1>2, <1>5, <1>6
<1> QED BY <1>4, <1>7, <1>8, <1>9, RequestEnds

LEMMA CheckBoundaryKeeps ==
    ASSUME IncidentInv, NEW r \in Requests, CheckBoundary(r)
    PROVE  IncidentInv'
<1>1. PICK y : y = requests[r]
  OBVIOUS
<1>2. /\ y \in RequestState /\ y.pc = "bound" /\ y.op = "report" /\ y.on = r
      /\ RowOk(y) /\ Pending(r)
  BY <1>1, RequestShape DEF CheckBoundary, IncidentInv, Pending
<1>3. CASE Within(y.row.at, Boundary(offices[y.row.campaign]))
  <2> DEFINE x == [y EXCEPT !.pc = "save"]
  <2>1. requests' = [requests EXCEPT ![r] = x] /\ UNCHANGED <<offices, incidents, audit>>
    BY <1>1, <1>3 DEF CheckBoundary, SetRequest
  <2>2. x \in RequestState
    BY <1>2 DEF RequestState, Fresh
  <2>3. /\ x.pc = "save" /\ x.op = "report" /\ x.on = r
        /\ x.profile = y.profile /\ x.row = y.row
    BY <1>2 DEF RequestState, Fresh
  <2> HIDE DEF x
  <2>4. RowOk(x) /\ Aimed(x)
    BY <1>2, <1>3, <2>3 DEF RowOk, Aimed
  <2>5. Goes(r, x, incidents) /\ incidents \in [Ids -> Incident \cup {NONE}]
    BY <2>1, <2>2 DEF Goes, IncidentInv, IncidentsTypeOK
  <2> QED BY <1>1, <1>2, <2>3, <2>4, <2>5, RequestGoes
<1>4. CASE ~Within(y.row.at, Boundary(offices[y.row.campaign]))
  <2>1. Ends(r, "FAILURE") /\ UNCHANGED <<offices, incidents>>
    BY <1>1, <1>4 DEF CheckBoundary
  <2> QED BY <1>1, <1>2, <2>1, EndsKeeps DEF AuditStatus
<1> QED BY <1>3, <1>4

LEMMA SaveKeeps ==
    ASSUME IncidentInv, NEW r \in Requests, Save(r)
    PROVE  /\ IncidentInv'
           /\ incidents'[r] = requests[r].row
<1>1. PICK y : y = requests[r]
  OBVIOUS
<1>2. /\ y \in RequestState /\ y.pc = "save" /\ y.op = "report" /\ y.on = r
      /\ y.row \in Incident /\ Pending(r)
  BY <1>1, RequestShape DEF Save, Pending
<1>3. incidents \in [Ids -> Incident \cup {NONE}] /\ r \in Ids
  BY DEF IncidentInv, IncidentsTypeOK, Ids
<1> DEFINE x == [y EXCEPT !.pc = "reload"]
           new == [incidents EXCEPT ![r] = y.row]
<1>4. /\ requests' = [requests EXCEPT ![r] = x] /\ incidents' = new
      /\ UNCHANGED <<offices, audit>>
  BY <1>1 DEF Save, SetRequest
<1>5. /\ x \in RequestState /\ x.pc = "reload" /\ x.op = "report" /\ x.on = r
  BY <1>2 DEF RequestState, Fresh
<1>6. /\ new \in [Ids -> Incident \cup {NONE}] /\ new[r] = y.row /\ new[r] # NONE
      /\ \A i \in Ids \ {r} : new[i] = incidents[i]
  BY <1>2, <1>3, IncidentsAssumption
<1> HIDE DEF x, new
<1>7. Goes(r, x, new) /\ RowOk(x) /\ Aimed(x)
  BY <1>4, <1>5 DEF Goes, RowOk, Aimed
<1>8. IncidentInv'
  BY <1>1, <1>2, <1>5, <1>6, <1>7, RequestGoes
<1> QED BY <1>1, <1>4, <1>6, <1>8

LEMMA LookKeeps ==
    ASSUME IncidentInv, NEW r \in Requests, NEW op \in {"status", "remove"}, Look(r, op)
    PROVE  IncidentInv'
<1>1. PICK actor \in Actors, i \in Ids :
        IF incidents[i] # NONE /\ MayJudge(actor, incidents[i])
        THEN SetRequest(r, [pc |-> "change", op |-> op, by |-> actor, on |-> i])
               /\ UNCHANGED audit
        ELSE /\ SetRequest(r, [pc |-> "ended", op |-> op, on |-> i])
             /\ Recorded(r, actor.admin, "FAILURE")
  BY DEF Look
<1>2. requests[r].pc = "none" /\ UNCHANGED <<offices, incidents>>
  BY DEF Look
<1>3. incidents \in [Ids -> Incident \cup {NONE}]
  BY DEF IncidentInv, IncidentsTypeOK
<1>4. CASE incidents[i] # NONE /\ MayJudge(actor, incidents[i])
  <2> DEFINE x == [pc |-> "change", op |-> op, by |-> actor, on |-> i]
  <2>1. requests' = [requests EXCEPT ![r] = x] /\ UNCHANGED audit
    BY <1>1, <1>4 DEF SetRequest
  <2>2. /\ x \in RequestState
        /\ x.pc = "change" /\ x.op = op /\ x.on = i
    BY DEF RequestState
  <2> HIDE DEF x
  <2>3. RowOk(x) /\ Aimed(x)
    BY <1>4, <2>2 DEF RowOk, Aimed, IncidentInv, Unsaved
  <2>4. Goes(r, x, incidents)
    BY <1>2, <2>1, <2>2 DEF Goes
  <2> QED BY <1>2, <1>3, <2>2, <2>3, <2>4, RequestGoes
<1>5. CASE ~(incidents[i] # NONE /\ MayJudge(actor, incidents[i]))
  <2>1. /\ requests' = [requests EXCEPT ![r] = [pc |-> "ended", op |-> op, on |-> i]]
        /\ Recorded(r, actor.admin, "FAILURE")
    BY <1>1, <1>5 DEF SetRequest
  <2>2. actor.admin \in BOOLEAN
    BY IncidentsAssumption DEF Actor
  <2>3. incidents' = incidents /\ UNCHANGED offices
    BY <1>2
  <2>4. Concludes(r, op, i, "FAILURE", incidents)
    BY <2>1, <2>2, <2>3 DEF Concludes
  <2> QED BY <1>2, <1>3, <2>4, RequestEnds DEF AuditStatus
<1> QED BY <1>4, <1>5

\* The status of an incident that is there changes, and nothing else of it.
LEMMA WriteStatusKeeps ==
    ASSUME IncidentInv, NEW r \in Requests, WriteStatus(r)
    PROVE  IncidentInv'
<1>1. PICK y : y = requests[r]
  OBVIOUS
<1>2. y \in RequestState /\ y.pc = "change" /\ y.op = "status" /\ y.on \in Ids
  BY <1>1, RequestShape DEF WriteStatus
<1>3. PICK status \in Statuses :
        incidents' = IF incidents[y.on] = NONE THEN incidents
                     ELSE [incidents EXCEPT ![y.on].status = status]
  BY <1>1 DEF WriteStatus
<1>4. incidents \in [Ids -> Incident \cup {NONE}]
  BY DEF IncidentInv, IncidentsTypeOK
<1>5. PICK new : new = incidents'
  OBVIOUS
<1>6. /\ new \in [Ids -> Incident \cup {NONE}]
      /\ \A i \in Ids : incidents[i] = NONE <=> new[i] = NONE
  <2>1. CASE incidents[y.on] = NONE
    BY <1>3, <1>4, <1>5, <2>1
  <2>2. CASE incidents[y.on] # NONE
    <3>1. PICK row \in Incident : row = incidents[y.on]
      BY <1>2, <1>4, <2>2
    <3>2. [row EXCEPT !.status = status] \in Incident
      BY IncidentsAssumption DEF Incident
    <3>3. new = [incidents EXCEPT ![y.on] = [row EXCEPT !.status = status]]
      BY <1>3, <1>5, <2>2, <3>1
    <3> QED BY <1>2, <1>4, <2>2, <3>2, <3>3, IncidentsAssumption
  <2> QED BY <2>1, <2>2
<1> DEFINE x == [y EXCEPT !.pc = "reload"]
<1>7. requests' = [requests EXCEPT ![r] = x] /\ UNCHANGED <<offices, audit>>
  BY <1>1 DEF WriteStatus, SetRequest
<1>8. x \in RequestState
  BY <1>2 DEF RequestState, Fresh
<1>9. x.pc = "reload" /\ x.op = "status" /\ x.on = y.on
  BY <1>2 DEF RequestState, Fresh
<1> HIDE DEF x
<1>10. Goes(r, x, new) /\ RowOk(x) /\ Aimed(x)
  BY <1>5, <1>7, <1>8, <1>9 DEF Goes, RowOk, Aimed
<1> QED BY <1>1, <1>2, <1>6, <1>9, <1>10, RequestGoes

LEMMA DeleteKeeps ==
    ASSUME IncidentInv, NEW r \in Requests, Delete(r)
    PROVE  IncidentInv'
<1>1. PICK y : y = requests[r]
  OBVIOUS
<1>2. /\ y \in RequestState /\ y.pc = "change" /\ y.op = "remove" /\ y.on \in Ids
      /\ y.by.admin \in BOOLEAN
      /\ y.on \in Requests => ~Pending(y.on)
  BY <1>1, RequestShape DEF Delete, IncidentInv, Aimed
<1>3. incidents \in [Ids -> Incident \cup {NONE}]
  BY DEF IncidentInv, IncidentsTypeOK
<1> DEFINE new == [incidents EXCEPT ![y.on] = NONE]
<1>4. /\ Recorded(r, y.by.admin, "SUCCESS")
      /\ requests' = [requests EXCEPT ![r] = [pc |-> "ended", op |-> y.op, on |-> y.on]]
      /\ incidents' = new /\ UNCHANGED offices
  BY <1>1 DEF Delete, Ends, SetRequest
<1>5. /\ new \in [Ids -> Incident \cup {NONE}] /\ new[y.on] = NONE
      /\ \A i \in Ids \ {y.on} : new[i] = incidents[i]
  BY <1>2, <1>3
<1> HIDE DEF new
<1>6. PICK op \in {"remove"}, on \in Ids : op = y.op /\ on = y.on
  BY <1>2
<1>7. Concludes(r, op, on, "SUCCESS", new)
  BY <1>2, <1>4, <1>6 DEF Concludes
<1>8. /\ requests[r].pc \notin {"none", "ended"} /\ op = requests[r].op /\ on = requests[r].on
      /\ on \in Requests => ~Pending(on)
      /\ new[on] = NONE /\ \A i \in Ids \ {on} : new[i] = incidents[i]
  BY <1>1, <1>2, <1>5, <1>6
<1> QED BY <1>5, <1>7, <1>8, RequestEnds DEF AuditStatus

LEMMA RequestDiesKeeps ==
    ASSUME IncidentInv, NEW r \in Requests, RequestDies(r)
    PROVE  IncidentInv'
<1>1. PICK y : y = requests[r]
  OBVIOUS
<1>2. /\ y.op \in {"report", "status", "remove"} /\ y.on \in Ids
      /\ y.pc \in {"resolve", "bound", "save", "change", "reload"}
      /\ y.op = "report" => y.on = r
  BY <1>1, RequestShape DEF RequestDies
<1> DEFINE x == [pc |-> "died", op |-> y.op, on |-> y.on]
<1>3. requests' = [requests EXCEPT ![r] = x] /\ UNCHANGED <<offices, incidents, audit>>
  BY <1>1 DEF RequestDies, SetRequest
<1>4. x \in RequestState /\ x.pc = "died" /\ x.op = y.op /\ x.on = y.on
  BY <1>2 DEF RequestState
<1> HIDE DEF x
<1>5. Goes(r, x, incidents) /\ incidents \in [Ids -> Incident \cup {NONE}]
  BY <1>3, <1>4 DEF Goes, IncidentInv, IncidentsTypeOK
<1>6. RowOk(x) /\ Aimed(x)
  BY <1>4 DEF RowOk, Aimed
<1> QED BY <1>1, <1>2, <1>4, <1>5, <1>6, RequestGoes

LEMMA RequestStepKeeps ==
    ASSUME IncidentInv, NEW r \in Requests, RequestStep(r)
    PROVE  IncidentInv'
<1>1. CASE Resolve(r)
  BY <1>1, ResolveKeeps
<1>2. CASE Refuse(r)
  BY <1>2, EndsKeeps DEF Refuse, AuditStatus
<1>3. CASE CheckBoundary(r)
  BY <1>3, CheckBoundaryKeeps
<1>4. CASE Save(r)
  BY <1>4, SaveKeeps
<1>5. CASE Reload(r)
  <2>1. requests[r].op # "remove"
    BY <1>5, RequestShape DEF Reload
  <2> QED BY <1>5, <2>1, EndsKeeps DEF Reload, AuditStatus
<1>6. CASE WriteStatus(r)
  BY <1>6, WriteStatusKeeps
<1>7. CASE Delete(r)
  BY <1>7, DeleteKeeps
<1>8. CASE StatementFails(r)
  BY <1>8, EndsKeeps DEF StatementFails, AuditStatus
<1>9. CASE RequestDies(r)
  BY <1>9, RequestDiesKeeps
<1> QED BY <1>1, <1>2, <1>3, <1>4, <1>5, <1>6, <1>7, <1>8, <1>9 DEF RequestStep

LEMMA TrailKeepsIncidents ==
    ASSUME IncidentInv, NEW r \in Followed, Trail(r)
    PROVE  IncidentInv'
<1>1. /\ TrailInv'
      /\ \A q \in Followed : /\ audit'[q].entry = audit[q].entry
                             /\ audit'[q].pc = "none" <=> audit[q].pc = "none"
      /\ UNCHANGED <<offices, incidents, requests>>
  BY TrailKeeps DEF IncidentInv, Trail
<1>2. \A q \in Requests : Succeeded(q)' <=> Succeeded(q)
  BY <1>1 DEF Succeeded
<1>3. IncidentsTypeOK'
  BY <1>1 DEF IncidentInv, IncidentsTypeOK, TrailInv
<1>4. \A q \in Requests : /\ Unsaved(q)' /\ Own(q)'
                          /\ RowOk(requests[q])' /\ Aimed(requests[q])'
  BY <1>1 DEF IncidentInv, Unsaved, Own, RowOk, Aimed, Pending
<1>5. \A q \in Requests : Removed(q)' /\ Reported(q)'
  BY <1>1, <1>2 DEF IncidentInv, Removed, Reported, RemovalOf, Pending
<1> QED BY <1>1, <1>3, <1>4, <1>5 DEF IncidentInv

\* When an office changes, the reports that were checked against it are no
\* longer held to it.
LEMMA ChangeOfficeKeeps ==
    ASSUME IncidentInv, NEW c \in Campaigns, ChangeOffice(c)
    PROVE  IncidentInv'
<1>1. PICK o \in Offices : offices' = [offices EXCEPT ![c] = o]
  BY DEF ChangeOffice
<1>2. UNCHANGED <<incidents, audit>>
  BY DEF ChangeOffice
<1>3. offices \in [Campaigns -> Office] /\ offices' \in [Campaigns -> Office]
      /\ \A d \in Campaigns \ {c} : offices'[d] = offices[d]
  BY <1>1, IncidentsAssumption DEF IncidentInv, IncidentsTypeOK
<1>4. requests \in [Requests -> RequestState]
  BY DEF IncidentInv, IncidentsTypeOK
<1>5. \A q \in Requests : requests'[q] =
        IF requests[q].pc = "save" /\ requests[q].row.campaign = c
        THEN [requests[q] EXCEPT !.calm = FALSE] ELSE requests[q]
  BY DEF ChangeOffice
<1>6. requests' = [q \in Requests |-> requests'[q]]
  BY DEF ChangeOffice
<1>7. \A q \in Requests :
        /\ requests'[q] \in RequestState
        /\ requests'[q].pc = requests[q].pc
        /\ requests[q].pc # "none" =>
             requests'[q].op = requests[q].op /\ requests'[q].on = requests[q].on
        /\ RowOk(requests[q])'
  <2> SUFFICES ASSUME NEW q \in Requests
               PROVE  /\ requests'[q] \in RequestState
                      /\ requests'[q].pc = requests[q].pc
                      /\ requests[q].pc # "none" =>
                           requests'[q].op = requests[q].op /\ requests'[q].on = requests[q].on
                      /\ RowOk(requests[q])'
    OBVIOUS
  <2>1. PICK y \in RequestState : y = requests[q] /\ RowOk(y)
    BY <1>4 DEF IncidentInv
  <2>3. y.pc \in {"bound", "save"} => y.profile.campaign \in Campaign
    BY <2>1, RequestShape, IncidentsAssumption DEF Reporter
  <2>4. CASE y.pc = "save" /\ y.row.campaign = c
    <3>1. PICK z : z = [y EXCEPT !.calm = FALSE]
      OBVIOUS
    <3>2. z \in RequestState
      BY <2>1, <2>4, <3>1 DEF RequestState, Fresh
    <3>3. /\ z.pc = y.pc /\ z.op = y.op /\ z.on = y.on
          /\ z.profile = y.profile /\ z.row = y.row /\ ~z.calm
      BY <2>1, <2>4, <3>1 DEF RequestState, Fresh
    <3>4. requests'[q] = z
      BY <1>5, <2>1, <2>4, <3>1
    <3>5. RowOk(requests[q])'
      BY <2>1, <2>4, <3>3, <3>4 DEF RowOk
    <3> QED BY <2>1, <3>2, <3>3, <3>4, <3>5
  <2>5. CASE ~(y.pc = "save" /\ y.row.campaign = c)
    <3>1. requests'[q] = y
      BY <1>5, <2>1, <2>5
    <3>2. y.pc = "save" /\ y.profile.campaign # NONE =>
            offices'[y.profile.campaign] = offices[y.profile.campaign]
      BY <1>3, <2>1, <2>3, <2>5 DEF RowOk, Campaign
    <3>3. RowOk(requests[q])'
      BY <2>1, <3>1, <3>2 DEF RowOk
    <3> QED BY <2>1, <3>1, <3>3
  <2> QED BY <2>4, <2>5
<1>8. \A q \in Requests : Pending(q)' <=> Pending(q)
  BY <1>7 DEF Pending
<1>9. \A q \in Requests : Succeeded(q)' <=> Succeeded(q)
  BY <1>2 DEF Succeeded
<1>10. IncidentsTypeOK'
  <2>1. AuditTypeOK'
    BY <1>2 DEF IncidentInv, TrailInv, AuditTypeOK
  <2>2. requests' \in [Requests -> RequestState]
    BY <1>6, <1>7
  <2>3. \A q \in Followed : audit'[q].pc # "none" => requests'[q].pc = "ended"
    BY <1>2, <1>7, FollowedAssumption DEF IncidentInv, IncidentsTypeOK
  <2> QED BY <1>2, <1>3, <2>1, <2>2, <2>3 DEF IncidentInv, IncidentsTypeOK
<1>11. TrailInv'
  BY <1>2 DEF IncidentInv, TrailInv, AuditTypeOK, TrailFits
<1>12. \A q \in Requests : Unsaved(q)' /\ Own(q)'
  BY <1>2, <1>7, <1>8 DEF IncidentInv, Unsaved, Own
<1>13. \A q \in Requests : Aimed(requests[q])'
  BY <1>7, <1>8 DEF IncidentInv, Aimed
<1>14. \A q \in Requests : Removed(q)'
  <2> SUFFICES ASSUME NEW q \in Requests, Succeeded(q)', requests'[q].op = "remove"
               PROVE  /\ incidents'[requests'[q].on] = NONE
                      /\ requests'[q].on \in Requests => ~Pending(requests[q].on)'
    BY DEF Removed
  <2>1. Succeeded(q) /\ requests[q].pc = "ended"
    BY <1>9 DEF IncidentInv, IncidentsTypeOK, Succeeded
  <2>2. requests[q].op = "remove" /\ requests'[q].on = requests[q].on
    BY <1>7, <2>1
  <2>3. /\ incidents[requests[q].on] = NONE
        /\ requests[q].on \in Requests => ~Pending(requests[q].on)
    BY <2>1, <2>2 DEF IncidentInv, Removed
  <2>4. PICK i : i = requests[q].on
    OBVIOUS
  <2> QED BY <1>2, <1>8, <2>2, <2>3, <2>4
<1>15. \A q \in Requests : Reported(q)'
  <2>1. \A q \in Requests : RemovalOf(q) => RemovalOf(q)'
    BY <1>7 DEF RemovalOf
  <2> QED BY <1>2, <1>7, <1>9, <2>1 DEF IncidentInv, Reported
<1> QED BY <1>7, <1>10, <1>11, <1>12, <1>13, <1>14, <1>15 DEF IncidentInv

LEMMA IncidentInvInit ==
    ASSUME IncidentsInit
    PROVE  IncidentInv
<1>1. audit = [r \in Followed |-> NoEntry] /\ NoEntry \in EntryState
  BY DEF IncidentsInit, AuditInit, NoEntry, EntryState, MaxAttempts, MaxJobStalls
<1>2. NoEntry.pc = "none" /\ TrailFits(NoEntry)
  BY DEF NoEntry, TrailFits, MaxAttempts
<1>3. TrailInv
  BY <1>1, <1>2 DEF TrailInv, AuditTypeOK
<1>4. /\ requests = [r \in Requests |-> Fresh] /\ Fresh \in RequestState /\ Fresh.pc = "none"
      /\ offices \in [Campaigns -> Office]
  BY IncidentsAssumption DEF IncidentsInit, RequestState, Fresh
<1>5. PICK old \in [Old -> Earlier] : incidents = [i \in Ids |-> IF i \in Old THEN old[i] ELSE NONE]
  BY DEF IncidentsInit
<1>6. /\ incidents \in [Ids -> Incident \cup {NONE}]
      /\ \A r \in Requests : incidents[r] = NONE
  BY <1>5, IncidentsAssumption DEF Ids
<1>7. IncidentsTypeOK
  BY <1>1, <1>2, <1>3, <1>4, <1>6 DEF IncidentsTypeOK, TrailInv
<1>8. \A r \in Requests : /\ Unsaved(r) /\ Own(r) /\ RowOk(requests[r]) /\ Aimed(requests[r])
                          /\ Reported(r)
  BY <1>4, <1>6 DEF Unsaved, Own, RowOk, Aimed, Reported
<1>9. \A r \in Requests : Removed(r)
  BY <1>1, <1>2 DEF Removed, Succeeded
<1> QED BY <1>3, <1>7, <1>8, <1>9 DEF IncidentInv

LEMMA IncidentInvNext ==
    ASSUME IncidentInv, [IncidentsNext]_incidentVars
    PROVE  IncidentInv'
<1>1. ASSUME NEW r \in Requests,
             Report(r) \/ UpdateStatus(r) \/ RemoveIncident(r) \/ RequestStep(r)
      PROVE  IncidentInv'
  BY <1>1, ReportKeeps, LookKeeps, RequestStepKeeps DEF UpdateStatus, RemoveIncident
<1>2. ASSUME NEW r \in Followed, Trail(r) PROVE IncidentInv'
  BY <1>2, TrailKeepsIncidents
<1>3. ASSUME NEW c \in Campaigns, ChangeOffice(c) PROVE IncidentInv'
  BY <1>3, ChangeOfficeKeeps
<1>4. CASE UNCHANGED incidentVars
  BY <1>4 DEF incidentVars, IncidentInv, IncidentsTypeOK, TrailInv, AuditTypeOK, TrailFits,
       Unsaved, Own, RowOk, Aimed, Removed, Reported, RemovalOf, Succeeded, Pending
<1> QED BY <1>1, <1>2, <1>3, <1>4 DEF IncidentsNext

LEMMA IncidentInvAlways == IncidentsSpec => []IncidentInv
<1> QED BY IncidentInvInit, IncidentInvNext, PTL DEF IncidentsSpec
----------------------------------------------------------------------------
\* Type correctness of the incidents, their requests and their trail.
THEOREM IncidentsTypes == IncidentsSpec => []IncidentsTypeOK
<1>1. IncidentInv => IncidentsTypeOK
  BY DEF IncidentInv
<1> QED BY <1>1, IncidentInvAlways, PTL

\* An entry that a process had the time to hand over is lost only after two
\* faults, and makes more than one row only after as many (record, process).
THEOREM EntriesSurvive == IncidentsSpec => []EntriesSurviveAFault
<1>1. IncidentInv => EntriesSurviveAFault
  BY DEF IncidentInv, TrailInv, TrailFits, EntriesSurviveAFault
<1> QED BY <1>1, IncidentInvAlways, PTL

\* What the trail calls a success has happened and stays (createIncident,
\* updateStatus, remove).
THEOREM SuccessesStay == IncidentsSpec => []SuccessesHold
<1>1. ASSUME IncidentInv PROVE SuccessesHold
  <2> SUFFICES ASSUME NEW r \in Followed, audit[r].rows > 0,
                      audit[r].entry.status = "SUCCESS"
               PROVE  /\ requests[r].op = "report" => incidents[r] # NONE \/ RemovalOf(r)
                      /\ requests[r].op = "remove" => incidents[requests[r].on] = NONE
    BY DEF SuccessesHold, RemovalOf
  <2>1. audit[r].pc # "none"
    BY <1>1 DEF IncidentInv, TrailInv, TrailFits
  <2>2. Succeeded(r) /\ r \in Requests /\ requests[r].pc = "ended"
    BY <1>1, <2>1, FollowedAssumption DEF Succeeded, IncidentInv, IncidentsTypeOK
  <2> QED BY <1>1, <2>2 DEF IncidentInv, Removed, Reported
<1> QED BY <1>1, IncidentInvAlways, PTL
----------------------------------------------------------------------------
\* Only a report that is saved goes from "save" to "reload".
LEMMA OnlySaveSaves ==
    ASSUME IncidentInv, NEW r \in Requests, [IncidentsNext]_incidentVars,
           requests[r].pc = "save", requests'[r].pc = "reload"
    PROVE  Save(r)
<1>1. requests \in [Requests -> RequestState]
  BY DEF IncidentInv, IncidentsTypeOK
<1>2. ASSUME NEW q \in Requests, NEW x, requests' = [requests EXCEPT ![q] = x],
             x.pc # "reload" \/ q # r
      PROVE  FALSE
  BY <1>1, <1>2
<1>3. ASSUME NEW q \in Requests, Report(q) PROVE FALSE
  <2>1. PICK x : requests' = [requests EXCEPT ![q] = x] /\ x.pc = "resolve"
    BY <1>3 DEF Report, SetRequest
  <2> QED BY <1>2, <2>1
<1>4. ASSUME NEW q \in Requests, UpdateStatus(q) \/ RemoveIncident(q) PROVE FALSE
  <2>0. PICK op, actor, i :
          \/ requests' = [requests EXCEPT ![q] =
                             [pc |-> "change", op |-> op, by |-> actor, on |-> i]]
          \/ requests' = [requests EXCEPT ![q] = [pc |-> "ended", op |-> op, on |-> i]]
    <3>1. PICK op : Look(q, op)
      BY <1>4 DEF UpdateStatus, RemoveIncident
    <3> QED BY <3>1 DEF Look, SetRequest
  <2>1. CASE requests' = [requests EXCEPT ![q] =
                             [pc |-> "change", op |-> op, by |-> actor, on |-> i]]
    BY <1>2, <2>1
  <2>2. CASE requests' = [requests EXCEPT ![q] = [pc |-> "ended", op |-> op, on |-> i]]
    BY <1>2, <2>2
  <2> QED BY <2>0, <2>1, <2>2
<1>5. ASSUME NEW q \in Requests, NEW status, Ends(q, status) PROVE FALSE
  <2>1. PICK x : requests' = [requests EXCEPT ![q] = x] /\ x.pc = "ended"
    BY <1>5 DEF Ends, SetRequest
  <2> QED BY <1>2, <2>1
<1>6. ASSUME NEW q \in Requests, Resolve(q) PROVE FALSE
  <2>1. q # r
    BY <1>6 DEF Resolve
  <2>2. PICK x : requests' = [requests EXCEPT ![q] = x]
    BY <1>6 DEF Resolve, SetRequest
  <2> QED BY <1>2, <2>1, <2>2
<1>7. ASSUME NEW q \in Requests, CheckBoundary(q) PROVE FALSE
  <2>1. q # r
    BY <1>7 DEF CheckBoundary
  <2>2. CASE Ends(q, "FAILURE")
    BY <1>5, <2>2
  <2>3. CASE SetRequest(q, [requests[q] EXCEPT !.pc = "save"])
    BY <1>2, <2>1, <2>3 DEF SetRequest
  <2> QED BY <1>7, <2>2, <2>3 DEF CheckBoundary
<1>8. ASSUME NEW q \in Requests, Save(q) PROVE q = r
  BY <1>2, <1>8 DEF Save, SetRequest
<1>9. ASSUME NEW q \in Requests, WriteStatus(q) PROVE FALSE
  <2>1. q # r
    BY <1>9 DEF WriteStatus
  <2> QED BY <1>2, <1>9, <2>1 DEF WriteStatus, SetRequest
<1>10. ASSUME NEW q \in Requests, RequestDies(q) PROVE FALSE
  <2>1. PICK x : requests' = [requests EXCEPT ![q] = x] /\ x.pc = "died"
    BY <1>10 DEF RequestDies, SetRequest
  <2> QED BY <1>2, <2>1
<1>11. ASSUME NEW q \in Requests, RequestStep(q) PROVE Save(r)
  BY <1>5, <1>6, <1>7, <1>8, <1>9, <1>10, <1>11
     DEF RequestStep, Refuse, Reload, Delete, StatementFails
<1>12. requests' # requests
  OBVIOUS
<1>13. ASSUME NEW c \in Campaigns, ChangeOffice(c) PROVE FALSE
  <2>1. requests'[r] = IF requests[r].pc = "save" /\ requests[r].row.campaign = c
                       THEN [requests[r] EXCEPT !.calm = FALSE] ELSE requests[r]
    BY <1>13 DEF ChangeOffice
  <2>2. PICK y \in RequestState : y = requests[r] /\ y.pc = "save"
    BY <1>1
  <2>3. [y EXCEPT !.calm = FALSE].pc = "save"
    BY <2>2 DEF RequestState, Fresh
  <2> QED BY <2>1, <2>2, <2>3
<1> QED BY <1>3, <1>4, <1>11, <1>12, <1>13 DEF IncidentsNext, Trail, incidentVars

\* A report that is stored is in the area its reporter came with and, unless the
\* office has changed since, in its boundary (createIncident).
THEOREM ReportsStayInArea == IncidentsSpec => ReportsFit
<1> DEFINE StoredFit(r) ==
      requests[r].pc = "save" /\ requests'[r].pc = "reload" =>
        LET profile == requests[r].profile
            at == incidents'[r].at
        IN  /\ profile.role = "PU_AGENT" => at.unit = profile.area
            /\ profile.role = "WARD_COORDINATOR" => at.ward = profile.area
            /\ profile.role = "LGA_COORDINATOR" => at.lga = profile.area
            /\ at.unit # NONE => at.ward = WardOf[at.unit]
            /\ at.ward # NONE => at.lga = LgaOf[at.ward]
            /\ profile.campaign # NONE /\ requests[r].calm =>
                 Within(at, Boundary(offices[profile.campaign]))
<1>1. ASSUME IncidentInv, [IncidentsNext]_incidentVars, NEW r \in Requests
      PROVE  StoredFit(r)
  <2> SUFFICES ASSUME requests[r].pc = "save", requests'[r].pc = "reload" PROVE StoredFit(r)
    OBVIOUS
  <2>1. incidents'[r] = requests[r].row
    BY <1>1, OnlySaveSaves, SaveKeeps
  <2> QED BY <1>1, <2>1 DEF IncidentInv, RowOk
<1>2. IncidentInv /\ [IncidentsNext]_incidentVars => [\A r \in Requests : StoredFit(r)]_incidentVars
  BY <1>1
<1> QED BY <1>2, IncidentInvAlways, PTL DEF IncidentsSpec, ReportsFit
==============================================================================
