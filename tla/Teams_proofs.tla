---------------------------- MODULE Teams_proofs ----------------------------
(***************************************************************************)
(* Proofs about Teams: types, and that members stay in the area of their   *)
(* office and of the accounts that change them.                            *)
(***************************************************************************)
EXTENDS Teams, TLAPS

Columns == {"role", "campaign", "lga", "ward", "unit", "deleted"}

\* The areas are places of their kind, or none.
Placed(area) == area.lga \in Lga /\ area.ward \in Ward /\ area.unit \in Unit

\* A change names columns of a row, each with a value it may have.
Typed(change) ==
    /\ DOMAIN change \subseteq Columns
    /\ "role" \in DOMAIN change => change["role"] \in Role
    /\ "campaign" \in DOMAIN change => change["campaign"] \in Transfers
    /\ "lga" \in DOMAIN change => change["lga"] \in Lga
    /\ "ward" \in DOMAIN change => change["ward"] \in Ward
    /\ "unit" \in DOMAIN change => change["unit"] \in Unit
    /\ "deleted" \in DOMAIN change => change["deleted"] \in BOOLEAN

Pending(q) ==
    /\ q.pc = "write"
    /\ q.member \in Members
    /\ members[q.member] \in Row
    /\ q.seen \in Row
    /\ Typed(q.change)

TypesInv ==
    /\ members \in [Members -> Row \cup {NONE}]
    /\ DOMAIN requests = Requests
    /\ \A r \in Requests : requests[r] = Idle \/ Pending(requests[r])

\* The role that an update of row writes or leaves.
RoleAfter(row, change) == IF "role" \in DOMAIN change THEN change["role"] ELSE row.role

\* What the checks of an update establish of what it is about to write.
Planned(row, actor, change) ==
    \/ change = [deleted |-> TRUE]
    \/ LET role == RoleAfter(row, change) IN
         /\ role \in Led(actor.role)
         /\ DOMAIN change \cap Areas = Written(role)
         /\ "deleted" \notin DOMAIN change
         /\ \E area :
              /\ Placed(area)
              /\ Fits(role, area, Boundary(OfficeOf[row.campaign]))
              /\ InAreaOf(actor, Home(role, area))
              /\ \A a \in Written(role) : change[a] = Home(role, area)[a]

\* What a pending request has checked of a member that had a campaign; in a
\* campaign that nobody is transferred into, it is the member's campaign still.
RequestFits(q) ==
    /\ MayManage(q.actor, q.seen)
    /\ q.seen.campaign # NONE => Planned(q.seen, q.actor, q.change)
    /\ members[q.member].campaign \notin Transfers \cup {NONE} =>
         q.seen.campaign = members[q.member].campaign

\* Whatever becomes of a member, what a request writes is in the area of the
\* office that it looked up and of the account that asked.
ScopeInv ==
    /\ \A r \in Requests : requests[r].pc = "write" => RequestFits(requests[r])
    /\ AreasWithinOffice
----------------------------------------------------------------------------
LEMMA TransfersTyped == Transfers \subseteq Campaigns \cup {NONE}
BY TeamsAssumption DEF Transfers, Body

LEMMA RowFields ==
    ASSUME NEW row \in Row
    PROVE  /\ DOMAIN row = Columns
           /\ row["role"] \in Role /\ row["campaign"] \in Campaigns \cup {NONE}
           /\ row["lga"] \in Lga /\ row["ward"] \in Ward /\ row["unit"] \in Unit
           /\ row["deleted"] \in BOOLEAN
BY DEF Row, Columns

\* A change writes its columns over those of a row and keeps the others.
LEMMA OverRow ==
    ASSUME NEW row \in Row, NEW change, Typed(change)
    PROVE  /\ Over(change, row) \in Row
           /\ \A f \in Columns :
                Over(change, row)[f] = IF f \in DOMAIN change THEN change[f] ELSE row[f]
<1> DEFINE new == Over(change, row)
<1>1. DOMAIN row = Columns
  BY RowFields
<1>2. new = [f \in Columns |-> IF f \in DOMAIN change THEN change[f] ELSE row[f]]
  BY <1>1 DEF Over, Typed
<1>3. /\ new["role"] \in Role /\ new["campaign"] \in Campaigns \cup {NONE}
      /\ new["lga"] \in Lga /\ new["ward"] \in Ward /\ new["unit"] \in Unit
      /\ new["deleted"] \in BOOLEAN
  BY <1>2, RowFields, TransfersTyped DEF Typed, Columns
<1>4. new = [role |-> new["role"], campaign |-> new["campaign"], lga |-> new["lga"],
             ward |-> new["ward"], unit |-> new["unit"], deleted |-> new["deleted"]]
  BY <1>2 DEF Columns
<1> QED
  <2> HIDE DEF new
  <2>1. new \in Row
    BY <1>3, <1>4 DEF Row
  <2> QED BY <2>1, <1>2 DEF new

LEMMA BoundaryNested ==
    ASSUME NEW o \in Office
    PROVE  /\ Boundary(o).lgas \subseteq Lgas
           /\ Boundary(o).wards \subseteq Wards
           /\ Boundary(o).units \subseteq PollingUnits
           /\ \A u \in Boundary(o).units : WardOf[u] \in Boundary(o).wards
<1>1. o.category \in Category /\ o.lgas \subseteq Lgas /\ o.wards \subseteq Wards
  BY DEF Office
<1>2. CoveredLgas(o) \subseteq Lgas
  BY <1>1, PlacesAssumption DEF CoveredLgas, Category, Legislative, LgasIn
<1>3. CoveredWards(o) \subseteq Wards
  BY <1>1 DEF CoveredWards, WardsIn
<1> QED BY <1>2, <1>3 DEF Boundary, UnitsIn

\* The areas of a role whose area fits an office are all of it, and filling
\* them in again changes nothing.
LEMMA HomeFits ==
    ASSUME NEW role \in Role, NEW area, Placed(area), NEW o \in Office,
           Fits(role, area, Boundary(o))
    PROVE  LET h == Home(role, area)
               b == Boundary(o)
           IN /\ DOMAIN h = Areas
              /\ Placed(h)
              /\ h.unit # NONE => h.unit \in b.units
              /\ h.ward # NONE => h.ward \in b.wards
              /\ h.lga # NONE => h.lga \in b.lgas \cup {LgaOf[w] : w \in b.wards}
              /\ \A row \in Row :
                   (row.role = role /\ \A a \in Written(role) : row[a] = h[a]) =>
                     /\ role = "LGA_COORDINATOR" => row.lga \in b.lgas
                     /\ role = "WARD_COORDINATOR" => row.ward \in b.wards
                     /\ role = "PU_AGENT" => row.unit \in b.units
                     /\ \A a \in Written(role) : row[a] = Home(role, row)[a]
<1> DEFINE h == Home(role, area)
           b == Boundary(o)
<1>1. /\ b.lgas \subseteq Lgas /\ b.wards \subseteq Wards /\ b.units \subseteq PollingUnits
      /\ \A u \in b.units : WardOf[u] \in b.wards
  BY BoundaryNested
<1> HIDE DEF b
<1>2. CASE role = "LGA_COORDINATOR"
  <2>1. h = [lga |-> area.lga, ward |-> NONE, unit |-> NONE] /\ area.lga \in b.lgas
    BY <1>2 DEF Home, Fits, b
  <2>2. ASSUME NEW row \in Row, row["lga"] = area.lga
        PROVE  row.lga \in b.lgas /\ row["lga"] = Home(role, row)["lga"]
    BY <1>2, <2>1, <2>2 DEF Home
  <2>3. Written(role) = {"lga"}
    BY <1>2 DEF Written
  <2> QED BY <1>1, <1>2, <2>1, <2>2, <2>3 DEF Placed, Areas, Lga, Ward, Unit, b
<1>3. CASE role = "WARD_COORDINATOR"
  <2>1. /\ h = [lga |-> LgaOf[area.ward], ward |-> area.ward, unit |-> NONE]
        /\ area.ward \in b.wards
    BY <1>3 DEF Home, Fits, b
  <2>2. ASSUME NEW row \in Row, row["lga"] = LgaOf[area.ward], row["ward"] = area.ward
        PROVE  /\ row.ward \in b.wards /\ row["lga"] = Home(role, row)["lga"]
               /\ row["ward"] = Home(role, row)["ward"]
    BY <1>3, <2>1, <2>2 DEF Home
  <2>3. Written(role) = {"lga", "ward"}
    BY <1>3 DEF Written
  <2> QED BY <1>1, <1>3, <2>1, <2>2, <2>3, PlacesAssumption
          DEF Placed, Areas, Lga, Ward, Unit, b
<1>4. CASE role = "PU_AGENT"
  <2>1. /\ h = [lga |-> LgaOf[WardOf[area.unit]], ward |-> WardOf[area.unit],
                unit |-> area.unit]
        /\ area.unit \in b.units
    BY <1>4 DEF Home, Fits, b
  <2>2. ASSUME NEW row \in Row, row["lga"] = LgaOf[WardOf[area.unit]],
               row["ward"] = WardOf[area.unit], row["unit"] = area.unit
        PROVE  /\ row.unit \in b.units /\ row["lga"] = Home(role, row)["lga"]
               /\ row["ward"] = Home(role, row)["ward"]
               /\ row["unit"] = Home(role, row)["unit"]
    BY <1>4, <2>1, <2>2 DEF Home
  <2>3. Written(role) = Areas
    BY <1>4 DEF Written
  <2> QED BY <1>1, <1>4, <2>1, <2>2, <2>3, PlacesAssumption
          DEF Placed, Areas, Lga, Ward, Unit, b
<1>5. CASE role = "CLIENT_USER"
  <2>1. h = [lga |-> NONE, ward |-> NONE, unit |-> NONE]
    BY <1>5 DEF Home
  <2>2. ASSUME NEW row \in Row, row["lga"] = NONE, row["ward"] = NONE, row["unit"] = NONE
        PROVE  /\ row["lga"] = Home(role, row)["lga"]
               /\ row["ward"] = Home(role, row)["ward"]
               /\ row["unit"] = Home(role, row)["unit"]
    BY <1>5, <2>2 DEF Home
  <2>3. Written(role) = Areas
    BY <1>5 DEF Written
  <2> QED BY <1>5, <2>1, <2>2, <2>3 DEF Placed, Areas, Lga, Ward, Unit, b
<1> QED BY <1>2, <1>3, <1>4, <1>5 DEF Role
----------------------------------------------------------------------------
\* The role and the area that an update of row with body b arrives at.
RoleIn(row, b) == IF b.role = KEEP THEN row.role ELSE b.role
AreaIn(row, b) == [a \in Areas |-> IF b[a] = KEEP THEN row[a] ELSE b[a]]

\* What an update has checked when it reads its member.
UpdateRead(r, m, actor, b) ==
    /\ members[m] # NONE
    /\ MayManage(actor, members[m])
    /\ RoleIn(members[m], b) \in Led(actor.role)
    /\ members[m].campaign # NONE =>
         /\ FitsUpdate(RoleIn(members[m], b), AreaIn(members[m], b),
                       Boundary(OfficeOf[members[m].campaign]))
         /\ InAreaOf(actor, Home(RoleIn(members[m], b), AreaIn(members[m], b)))
    /\ requests' = [requests EXCEPT ![r] =
         [pc |-> "write", member |-> m, seen |-> members[m], actor |-> actor,
          change |-> Change(members[m], b)]]

LEMMA ReadsUpdate ==
    ASSUME NEW r \in Requests, ReadForUpdate(r)
    PROVE  \E m \in Members, actor \in Actors, b \in Bodies :
              UpdateRead(r, m, actor, b)
BY DEF ReadForUpdate, UpdateRead, RoleIn, AreaIn

LEMMA BodyFields ==
    ASSUME NEW b \in Bodies
    PROVE  /\ DOMAIN b = {"role", "campaign"} \cup Areas
           /\ b["campaign"] \in Transfers \cup {KEEP}
           /\ b["role"] \in Role \cup {KEEP} /\ b["lga"] \in Lga \cup {KEEP}
           /\ b["ward"] \in Ward \cup {KEEP} /\ b["unit"] \in Unit \cup {KEEP}
BY TeamsAssumption DEF Body, Areas, Transfers

LEMMA BodyPlaced ==
    ASSUME NEW b \in Bodies, NEW row \in Row
    PROVE  RoleIn(row, b) \in Role /\ Placed(AreaIn(row, b))
<1>1. /\ AreaIn(row, b).lga = IF b["lga"] = KEEP THEN row["lga"] ELSE b["lga"]
      /\ AreaIn(row, b).ward = IF b["ward"] = KEEP THEN row["ward"] ELSE b["ward"]
      /\ AreaIn(row, b).unit = IF b["unit"] = KEEP THEN row["unit"] ELSE b["unit"]
  BY DEF AreaIn, Areas
<1>2. Placed(AreaIn(row, b))
  BY <1>1, BodyFields, RowFields DEF Placed
<1>3. RoleIn(row, b) \in Role
  BY BodyFields, RowFields DEF RoleIn
<1> QED BY <1>2, <1>3

LEMMA WrittenAreas ==
    ASSUME NEW role \in Role
    PROVE  /\ "lga" \in Written(role) /\ Written(role) \subseteq Areas
           /\ role = "PU_AGENT" => Written(role) = Areas
BY DEF Written, Areas, Role

\* What a checked update is about to write has the types of the columns; for a
\* member of a campaign it is in the area of the office and of the account
\* that asked.
LEMMA ChangeFits ==
    ASSUME NEW row \in Row, NEW b \in Bodies, NEW actor,
           row.campaign # NONE =>
             /\ FitsUpdate(RoleIn(row, b), AreaIn(row, b), Boundary(OfficeOf[row.campaign]))
             /\ InAreaOf(actor, Home(RoleIn(row, b), AreaIn(row, b))),
           RoleIn(row, b) \in Led(actor.role)
    PROVE  /\ Typed(Change(row, b))
           /\ row.campaign # NONE => Planned(row, actor, Change(row, b))
<1> DEFINE role == RoleIn(row, b)
           area == AreaIn(row, b)
           named == {f \in DOMAIN b : b[f] # KEEP}
           change == Change(row, b)
<1>1. role \in Role /\ Placed(area)
  BY BodyPlaced
<1>2. Written(role) \subseteq Areas
  BY <1>1, WrittenAreas
<1>3. /\ named \subseteq {"role", "campaign"} \cup Areas
      /\ \A f \in named : b[f] # KEEP
  BY BodyFields
<1>4. CASE row.campaign = NONE
  <2>1. change = [f \in named |-> b[f]]
    BY <1>4 DEF Change
  <2> HIDE DEF change, named
  <2>2. DOMAIN change = named /\ \A f \in named : change[f] = b[f]
    BY <2>1
  <2>3. Typed(change)
    BY <2>2, <1>3, BodyFields DEF Typed, Columns, Areas
  <2> QED BY <1>4, <2>3 DEF change
<1>5. CASE row.campaign # NONE
  <2> DEFINE cols == (named \ Areas) \cup Written(role)
  <2>1. change = [f \in cols |-> IF f \in Areas THEN Home(role, area)[f] ELSE b[f]]
    BY <1>5 DEF Change, RoleIn, AreaIn
  <2>2. /\ OfficeOf[row.campaign] \in Office
        /\ Fits(role, area, Boundary(OfficeOf[row.campaign]))
        /\ InAreaOf(actor, Home(role, area))
    BY <1>5, RowFields, TeamsAssumption DEF FitsUpdate
  <2>3. Placed(Home(role, area))
    BY <1>1, <2>2, HomeFits
  <2>4. /\ cols \subseteq {"role", "campaign"} \cup Areas
        /\ cols \cap Areas = Written(role)
        /\ \A f \in cols \ Areas : b[f] # KEEP
    BY <1>2, <1>3
  <2>5. "role" \in cols => b["role"] = role
    BY <2>4 DEF role, RoleIn, Areas
  <2>6. "role" \notin cols => role = row.role
    BY BodyFields DEF role, RoleIn, Areas
  <2> HIDE DEF change, cols, role, area
  <2>7. /\ DOMAIN change = cols
        /\ \A f \in cols : change[f] = IF f \in Areas THEN Home(role, area)[f] ELSE b[f]
    BY <2>1
  <2>8. Typed(change)
    <3>1. /\ "role" \in cols => change["role"] = b["role"] /\ b["role"] # KEEP
          /\ "campaign" \in cols => change["campaign"] = b["campaign"] /\ b["campaign"] # KEEP
      BY <2>4, <2>7 DEF Areas
    <3>2. \A a \in Areas : a \in cols => change[a] = Home(role, area)[a]
      BY <2>7
    <3> QED
      BY <2>3, <2>4, <2>7, <3>1, <3>2, BodyFields DEF Typed, Columns, Areas, Placed
  <2>9. RoleAfter(row, change) = role
    BY <2>5, <2>6, <2>7 DEF RoleAfter, Areas
  <2>10. /\ \A a \in Written(role) : change[a] = Home(role, area)[a]
         /\ "deleted" \notin DOMAIN change
    BY <1>2, <2>4, <2>7 DEF Areas
  <2>11. role \in Led(actor.role)
    BY DEF role
  <2>12. Planned(row, actor, change)
    BY <1>1, <2>2, <2>4, <2>7, <2>9, <2>10, <2>11 DEF Planned
  <2> QED BY <2>8, <2>12 DEF change
<1> QED BY <1>4, <1>5
\* What a creation makes is a row, in the area that its role needs.
LEMMA CreatedFits ==
    ASSUME NEW b \in Bodies, b.role # KEEP, NEW c \in Campaigns,
           Fits(b.role, [a \in Areas |-> IF b[a] = KEEP THEN NONE ELSE b[a]],
                Boundary(OfficeOf[c]))
    PROVE  LET area == [a \in Areas |-> IF b[a] = KEEP THEN NONE ELSE b[a]]
               row  == Over(Home(b.role, area),
                            [role |-> b.role, campaign |-> c, deleted |-> FALSE])
           IN /\ row \in Row /\ row.role = b.role /\ row.campaign = c
              /\ \A a \in Areas : row[a] = Home(b.role, area)[a]
<1> DEFINE area == [a \in Areas |-> IF b[a] = KEEP THEN NONE ELSE b[a]]
           h    == Home(b.role, area)
           base == [role |-> b.role, campaign |-> c, deleted |-> FALSE]
           row  == Over(h, base)
<1>1. b.role \in Role
  BY BodyFields
<1>2. Placed(area)
  BY BodyFields DEF Placed, Areas, Lga, Ward, Unit
<1>3. OfficeOf[c] \in Office
  BY TeamsAssumption
<1>4. DOMAIN h = Areas /\ Placed(h)
  BY <1>1, <1>2, <1>3, HomeFits
<1> HIDE DEF h
<1>5. row = [f \in Areas \cup {"role", "campaign", "deleted"} |->
               IF f \in Areas THEN h[f] ELSE base[f]]
  BY <1>4 DEF Over
<1>6. row = [role |-> b.role, campaign |-> c, lga |-> h.lga, ward |-> h.ward,
             unit |-> h.unit, deleted |-> FALSE]
  BY <1>5 DEF Areas
<1>7. /\ row["role"] = b.role /\ row["campaign"] = c
      /\ \A a \in Areas : row[a] = h[a]
  BY <1>5 DEF Areas
<1>8. row \in Row
  <2> HIDE DEF row, area
  <2> QED BY <1>1, <1>4, <1>6 DEF Row, Placed
<1> QED BY <1>7, <1>8 DEF h
----------------------------------------------------------------------------
LEMMA TypesInit == TeamsInit => TypesInv
BY DEF TeamsInit, TypesInv

LEMMA TypesStep == TypesInv /\ [TeamsNext]_teamVars => TypesInv'
<1> SUFFICES ASSUME TypesInv, [TeamsNext]_teamVars
             PROVE  TypesInv'
  OBVIOUS
<1>1. ASSUME NEW m \in Members, Create(m)
      PROVE  TypesInv'
  <2>1. PICK row \in Row : members' = [members EXCEPT ![m] = row]
    BY <1>1, CreatedFits DEF Create
  <2>2. requests' = requests
    BY <1>1 DEF Create
  <2>3. members[m] = NONE
    BY <1>1 DEF Create
  <2>4. \A q : Pending(q) => Pending(q)'
    BY <2>1, <2>3, NoneAssumption DEF Pending, TypesInv, Typed
  <2> QED BY <2>1, <2>2, <2>4 DEF TypesInv
<1>2. ASSUME NEW r \in Requests, ReadForUpdate(r)
      PROVE  TypesInv'
  <2>1. PICK m \in Members, actor \in Actors, b \in Bodies :
          UpdateRead(r, m, actor, b)
    BY <1>2, ReadsUpdate
  <2>2. members[m] \in Row
    BY <2>1 DEF TypesInv, UpdateRead
  <2>3. Typed(Change(members[m], b))
    BY <2>1, <2>2, ChangeFits DEF UpdateRead
  <2>4. members' = members
    BY <1>2 DEF ReadForUpdate
  <2>5. Pending(requests'[r])
    BY <2>1, <2>2, <2>3 DEF Pending, TypesInv, UpdateRead
  <2> QED BY <2>1, <2>4, <2>5 DEF TypesInv, Pending, Typed, UpdateRead
<1>3. ASSUME NEW r \in Requests, ReadForDeletion(r)
      PROVE  TypesInv'
  <2>1. PICK m \in Members, actor \in Actors :
          /\ members[m] # NONE
          /\ requests' = [requests EXCEPT ![r] =
               [pc |-> "write", member |-> m, seen |-> members[m], actor |-> actor,
                change |-> [deleted |-> TRUE]]]
    BY <1>3 DEF ReadForDeletion
  <2>2. Typed([deleted |-> TRUE])
    BY DEF Typed, Columns
  <2>3. members' = members
    BY <1>3 DEF ReadForDeletion
  <2>4. Pending(requests'[r])
    BY <2>1, <2>2 DEF Pending, TypesInv
  <2> QED BY <2>1, <2>3, <2>4 DEF TypesInv, Pending, Typed
<1>4. ASSUME NEW r \in Requests, Write(r)
      PROVE  TypesInv'
  <2> DEFINE i == requests[r].member
             new == Over(requests[r].change, members[i])
  <2>1. i \in Members /\ members[i] \in Row /\ Typed(requests[r].change)
    BY <1>4 DEF Write, TypesInv, Pending, Idle
  <2>2. new \in Row
    BY <2>1, OverRow
  <2>3. members' = [members EXCEPT ![i] = new]
    BY <1>4 DEF Write
  <2> HIDE DEF new, i
  <2>4. members' \in [Members -> Row \cup {NONE}]
    BY <2>2, <2>3 DEF TypesInv
  <2>5. \A m \in Members : members[m] \in Row => members'[m] \in Row
    BY <2>2, <2>3 DEF TypesInv
  <2>6. \A q : Pending(q) => Pending(q)'
    BY <2>5 DEF Pending, Typed
  <2> QED BY <1>4, <2>4, <2>6 DEF Write, TypesInv
<1>5. ASSUME NEW r \in Requests, RequestDies(r)
      PROVE  TypesInv'
  BY <1>5 DEF RequestDies, TypesInv, Pending, Typed
<1>6. ASSUME UNCHANGED teamVars
      PROVE  TypesInv'
  BY <1>6 DEF teamVars, TypesInv, Pending, Typed
<1> QED BY <1>1, <1>2, <1>3, <1>4, <1>5, <1>6 DEF TeamsNext

LEMMA TypesAlways == TeamsSpec => []TypesInv
BY TypesInit, TypesStep, PTL DEF TeamsSpec

\* Members are rows, and what a pending update or deletion is going to write
\* leaves a row, whatever happened to the member since it was read.
THEOREM TeamsTypes == TeamsSpec => []TeamsTypeOK
<1>1. TypesInv => TeamsTypeOK
  <2> SUFFICES ASSUME TypesInv, NEW r \in Requests, requests[r] # Idle
               PROVE  /\ requests[r].pc = "write"
                      /\ members[requests[r].member] \in Row
                      /\ Over(requests[r].change, members[requests[r].member]) \in Row
    BY DEF TypesInv, TeamsTypeOK
  <2>1. Pending(requests[r])
    BY DEF TypesInv
  <2> QED BY <2>1, OverRow DEF Pending
<1> QED BY <1>1, TypesAlways, PTL
----------------------------------------------------------------------------
\* new is row with new areas of an office's boundary b, or without.
KeepsWithin(new, row, b) ==
    /\ new.deleted = row.deleted
    /\ new.unit = row.unit \/ new.unit = NONE \/ new.unit \in b.units
    /\ new.ward = row.ward \/ new.ward = NONE \/ new.ward \in b.wards
    /\ \/ new.lga = row.lga \/ new.lga = NONE
       \/ new.lga \in b.lgas \cup {LgaOf[w] : w \in b.wards}

\* new has the area of its role, inside b.
InItsArea(new, b) ==
    /\ new.role = "LGA_COORDINATOR" => new.lga \in b.lgas
    /\ new.role = "WARD_COORDINATOR" => new.ward \in b.wards
    /\ new.role = "PU_AGENT" => new.unit \in b.units
    /\ \A a \in Written(new.role) : new[a] = Home(new.role, new)[a]

\* What an update planned for a member as seen makes of the row it finds.
LEMMA PlannedWrites ==
    ASSUME NEW row \in Row, NEW seen \in Row, NEW actor, NEW change, Typed(change),
           change # [deleted |-> TRUE], Planned(seen, actor, change),
           seen.campaign \in Campaigns
    PROVE  LET new == Over(change, row)
               b   == Boundary(OfficeOf[seen.campaign])
           IN /\ KeepsWithin(new, row, b)
              /\ InAreaOf(actor, new)
              /\ row = seen => InItsArea(new, b)
<1> DEFINE new == Over(change, row)
           o   == OfficeOf[seen.campaign]
           b   == Boundary(o)
           role == RoleAfter(seen, change)
<1>1. PICK area :
        /\ Placed(area)
        /\ Fits(role, area, b)
        /\ InAreaOf(actor, Home(role, area))
        /\ \A a \in Written(role) : change[a] = Home(role, area)[a]
  BY DEF Planned
<1>2. /\ role \in Led(actor.role)
      /\ DOMAIN change \cap Areas = Written(role)
      /\ "deleted" \notin DOMAIN change
  BY DEF Planned
<1> DEFINE h == Home(role, area)
<1>3. o \in Office
  BY TeamsAssumption
<1>4. role \in Role
  BY RowFields DEF RoleAfter, Typed
<1>5. /\ new \in Row
      /\ \A f \in Columns : new[f] = IF f \in DOMAIN change THEN change[f] ELSE row[f]
  BY OverRow
<1>6. /\ "lga" \in Written(role) /\ Written(role) \subseteq Areas
      /\ role = "PU_AGENT" => Written(role) = Areas
  BY <1>4, WrittenAreas
<1>7. /\ h.unit # NONE => h.unit \in b.units
      /\ h.ward # NONE => h.ward \in b.wards
      /\ h.lga # NONE => h.lga \in b.lgas \cup {LgaOf[w] : w \in b.wards}
      /\ \A x \in Row :
           (x.role = role /\ \A a \in Written(role) : x[a] = h[a]) =>
             /\ role = "LGA_COORDINATOR" => x.lga \in b.lgas
             /\ role = "WARD_COORDINATOR" => x.ward \in b.wards
             /\ role = "PU_AGENT" => x.unit \in b.units
             /\ \A a \in Written(role) : x[a] = Home(role, x)[a]
  BY <1>1, <1>3, <1>4, HomeFits
<1>8. row = seen => new["role"] = role
  BY <1>5 DEF RoleAfter, Columns
<1> HIDE DEF new, h, b, o, role
<1>9. /\ new["deleted"] = row["deleted"]
      /\ \A a \in Areas : new[a] = IF a \in Written(role) THEN h[a] ELSE row[a]
  BY <1>1, <1>2, <1>5 DEF Areas, Columns, h
<1>10. InAreaOf(actor, new)
  <2>1. actor.role = "LGA_COORDINATOR" => new.lga = actor.lga
    BY <1>1, <1>6, <1>9 DEF InAreaOf, Areas, h
  <2>2. ASSUME actor.role = "WARD_COORDINATOR"
        PROVE  new.ward = actor.ward
    <3>1. Led(actor.role) = {"PU_AGENT"}
      BY <2>2 DEF Led
    <3>2. Written(role) = Areas
      BY <3>1, <1>2, <1>6
    <3> QED BY <2>2, <3>2, <1>1, <1>9 DEF InAreaOf, Areas, h
  <2> QED BY <2>1, <2>2 DEF InAreaOf
<1>11. \A a \in Written(role) : new[a] = h[a]
  BY <1>6, <1>9
<1>12. KeepsWithin(new, row, b)
  BY <1>7, <1>9 DEF Areas, KeepsWithin
<1>13. row = seen => InItsArea(new, b)
  BY <1>5, <1>7, <1>8, <1>11 DEF InItsArea
<1> QED
  BY <1>10, <1>12, <1>13 DEF new, b, o

LEMMA DeletionWrites ==
    ASSUME NEW row \in Row
    PROVE  LET new == Over([deleted |-> TRUE], row)
           IN new.campaign = row.campaign /\ new.deleted
<1>1. Typed([deleted |-> TRUE])
  BY DEF Typed, Columns
<1> QED BY <1>1, OverRow DEF Columns
----------------------------------------------------------------------------
Within(row) ==
    LET b == Boundary(OfficeOf[row.campaign])
    IN /\ row.unit # NONE => row.unit \in b.units
       /\ row.ward # NONE => row.ward \in b.wards
       /\ row.lga # NONE => row.lga \in b.lgas \cup {LgaOf[w] : w \in b.wards}

\* One member changes, and is transferred or stays in its campaign.
LEMMA OneMemberChanges ==
    ASSUME TypesInv, ScopeInv, NEW m \in Members, NEW row \in Row,
           members' = [members EXCEPT ![m] = row],
           \/ members[m] = NONE
           \/ row.campaign = members[m].campaign
           \/ row.campaign \in Transfers,
           ~row.deleted /\ row.campaign \notin Transfers \cup {NONE} => Within(row),
           \A r \in Requests : requests'[r] \in {requests[r], Idle}
    PROVE  ScopeInv'
<1>1. /\ members'[m] = row
      /\ \A n \in Members \ {m} : members'[n] = members[n]
  BY DEF TypesInv
<1>2. ASSUME NEW r \in Requests, requests'[r].pc = "write"
      PROVE  RequestFits(requests[r])' /\ requests'[r] = requests[r]
  <2> DEFINE q == requests[r]
  <2>1. requests'[r] = q
    BY <1>2 DEF Idle
  <2>2. q.member \in Members /\ members[q.member] # NONE
    BY <1>2, <2>1, NoneAssumption DEF TypesInv, Pending, Idle
  <2>3. RequestFits(q)
    BY <1>2, <2>1 DEF ScopeInv
  <2>4. \/ members'[q.member].campaign = members[q.member].campaign
        \/ members'[q.member].campaign \in Transfers
    BY <1>1, <2>2
  <2> QED BY <2>1, <2>3, <2>4 DEF RequestFits
<1>3. AreasWithinOffice'
  <2> SUFFICES ASSUME NEW n \in Members, Employed(n)', (members[n].campaign \notin Transfers)'
               PROVE  Within(members'[n])
    BY DEF AreasWithinOffice, Within
  <2>1. CASE n = m
    BY <1>1, <2>1 DEF Employed
  <2>2. CASE n # m
    BY <1>1, <2>2 DEF Employed, ScopeInv, AreasWithinOffice, Within
  <2> QED BY <2>1, <2>2
<1> QED BY <1>2, <1>3 DEF ScopeInv

\* A request enters with what it has checked.
LEMMA RequestEnters ==
    ASSUME TypesInv, ScopeInv, members' = members, NEW r \in Requests, NEW q,
           requests' = [requests EXCEPT ![r] = q], RequestFits(q)
    PROVE  ScopeInv'
<1>1. /\ requests'[r] = q
      /\ \A s \in Requests \ {r} : requests'[s] = requests[s]
  BY DEF TypesInv
<1>2. \A s \in Requests : requests'[s].pc = "write" => RequestFits(requests'[s])
  BY <1>1 DEF ScopeInv
<1>3. \A s \in Requests : requests'[s].pc = "write" => RequestFits(requests[s])'
  BY <1>2 DEF RequestFits
<1>4. AreasWithinOffice'
  BY DEF ScopeInv, AreasWithinOffice, Employed
<1> QED BY <1>3, <1>4 DEF ScopeInv

LEMMA ScopeInit == TeamsInit => ScopeInv
BY DEF TeamsInit, ScopeInv, AreasWithinOffice, Employed, Idle

LEMMA ScopeStep == TypesInv /\ ScopeInv /\ [TeamsNext]_teamVars => ScopeInv'
<1> SUFFICES ASSUME TypesInv, ScopeInv, [TeamsNext]_teamVars
             PROVE  ScopeInv'
  OBVIOUS
<1>1. ASSUME NEW m \in Members, Create(m)
      PROVE  ScopeInv'
  <2>1. PICK c \in Campaigns, b \in Bodies :
          LET area == [a \in Areas |-> IF b[a] = KEEP THEN NONE ELSE b[a]]
          IN /\ b.role # KEEP
             /\ Fits(b.role, area, Boundary(OfficeOf[c]))
             /\ members' = [members EXCEPT ![m] =
                  Over(Home(b.role, area), [role |-> b.role, campaign |-> c, deleted |-> FALSE])]
    BY <1>1 DEF Create
  <2> DEFINE area == [a \in Areas |-> IF b[a] = KEEP THEN NONE ELSE b[a]]
             row  == Over(Home(b.role, area),
                          [role |-> b.role, campaign |-> c, deleted |-> FALSE])
  <2>2. /\ row \in Row /\ row.role = b.role /\ row.campaign = c
        /\ \A a \in Areas : row[a] = Home(b.role, area)[a]
    BY <2>1, CreatedFits
  <2>3. b.role \in Role /\ Placed(area)
    BY <2>1, BodyFields DEF Placed, Areas, Lga, Ward, Unit
  <2>4. OfficeOf[c] \in Office
    BY TeamsAssumption
  <2>5. Within(row)
    <3> HIDE DEF area, row
    <3>1. LET h == Home(b.role, area)
              o == Boundary(OfficeOf[c])
          IN /\ h.unit # NONE => h.unit \in o.units
             /\ h.ward # NONE => h.ward \in o.wards
             /\ h.lga # NONE => h.lga \in o.lgas \cup {LgaOf[w] : w \in o.wards}
      BY <2>1, <2>3, <2>4, HomeFits DEF area
    <3>2. /\ row["unit"] = Home(b.role, area)["unit"]
          /\ row["ward"] = Home(b.role, area)["ward"]
          /\ row["lga"] = Home(b.role, area)["lga"]
      BY <2>2 DEF Areas
    <3> QED BY <2>2, <3>1, <3>2 DEF Within
  <2>6. members' = [members EXCEPT ![m] = row]
    BY <2>1
  <2>7. members[m] = NONE /\ requests' = requests
    BY <1>1 DEF Create
  <2> HIDE DEF row
  <2> QED BY <2>2, <2>5, <2>6, <2>7, OneMemberChanges
<1>2. ASSUME NEW r \in Requests, ReadForUpdate(r)
      PROVE  ScopeInv'
  <2>1. PICK m \in Members, actor \in Actors, b \in Bodies :
          UpdateRead(r, m, actor, b)
    BY <1>2, ReadsUpdate
  <2>2. members[m] \in Row
    BY <2>1 DEF TypesInv, UpdateRead
  <2>3. members[m].campaign # NONE => Planned(members[m], actor, Change(members[m], b))
    BY <2>1, <2>2, ChangeFits DEF UpdateRead
  <2>4. members' = members
    BY <1>2 DEF ReadForUpdate
  <2>5. RequestFits([pc |-> "write", member |-> m, seen |-> members[m], actor |-> actor,
                     change |-> Change(members[m], b)])
    BY <2>1, <2>3 DEF RequestFits, UpdateRead
  <2> QED BY <2>1, <2>4, <2>5, RequestEnters DEF UpdateRead
<1>3. ASSUME NEW r \in Requests, ReadForDeletion(r)
      PROVE  ScopeInv'
  <2>1. PICK m \in Members, actor \in Actors :
          /\ MayManage(actor, members[m])
          /\ requests' = [requests EXCEPT ![r] =
               [pc |-> "write", member |-> m, seen |-> members[m], actor |-> actor,
                change |-> [deleted |-> TRUE]]]
    BY <1>3 DEF ReadForDeletion
  <2>2. members' = members
    BY <1>3 DEF ReadForDeletion
  <2>3. RequestFits([pc |-> "write", member |-> m, seen |-> members[m], actor |-> actor,
                     change |-> [deleted |-> TRUE]])
    BY <2>1 DEF RequestFits, Planned
  <2> QED BY <2>1, <2>2, <2>3, RequestEnters
<1>4. ASSUME NEW r \in Requests, Write(r)
      PROVE  ScopeInv'
  <2> DEFINE q   == requests[r]
             i   == q.member
             row == members[i]
             new == Over(q.change, row)
  <2>1. /\ i \in Members /\ row \in Row /\ q.seen \in Row /\ Typed(q.change)
        /\ q.pc = "write"
    BY <1>4 DEF Write, TypesInv, Pending, Idle
  <2>2. RequestFits(q)
    BY <2>1 DEF ScopeInv
  <2>3. new \in Row
    BY <2>1, OverRow
  <2>4. new.campaign = row.campaign \/ new.campaign \in Transfers
    <3> HIDE DEF q, row
    <3> QED BY <2>1, OverRow DEF Columns, Typed
  <2>5. ASSUME ~new.deleted, new.campaign \notin Transfers \cup {NONE}
        PROVE  Within(new)
    <3>1. q.change # [deleted |-> TRUE]
      BY <2>1, <2>5, DeletionWrites
    <3>2. /\ new.campaign = row.campaign /\ row.campaign = q.seen.campaign
          /\ q.seen.campaign \in Campaigns
      BY <2>1, <2>2, <2>4, <2>5, RowFields DEF RequestFits
    <3>3. Planned(q.seen, q.actor, q.change)
      BY <2>2, <2>5, <3>2 DEF RequestFits
    <3>4. KeepsWithin(new, row, Boundary(OfficeOf[q.seen.campaign]))
      <4> HIDE DEF row, q
      <4> QED BY <2>1, <3>1, <3>2, <3>3, PlannedWrites
    <3>5. ~row.deleted => Within(row)
      BY <2>1, <2>5, <3>2, NoneAssumption
         DEF ScopeInv, AreasWithinOffice, Employed, Within
    <3> HIDE DEF new, row
    <3> QED BY <2>5, <3>2, <3>4, <3>5 DEF Within, KeepsWithin
  <2>6. members' = [members EXCEPT ![i] = new] /\ requests' = [requests EXCEPT ![r] = Idle]
    BY <1>4 DEF Write
  <2>7. \A s \in Requests : requests'[s] \in {requests[s], Idle}
    BY <2>6 DEF TypesInv
  <2> HIDE DEF new
  <2> QED BY <2>1, <2>3, <2>4, <2>5, <2>6, <2>7, OneMemberChanges
<1>5. ASSUME NEW r \in Requests, RequestDies(r)
      PROVE  ScopeInv'
  BY <1>5 DEF RequestDies, TypesInv, ScopeInv, RequestFits, AreasWithinOffice, Employed, Idle
<1>6. ASSUME UNCHANGED teamVars
      PROVE  ScopeInv'
  BY <1>6 DEF teamVars, ScopeInv, RequestFits, AreasWithinOffice, Employed
<1> QED BY <1>1, <1>2, <1>3, <1>4, <1>5, <1>6 DEF TeamsNext

LEMMA ScopeAlways == TeamsSpec => [](TypesInv /\ ScopeInv)
<1>1. TeamsInit => TypesInv /\ ScopeInv
  BY TypesInit, ScopeInit
<1>2. TypesInv /\ ScopeInv /\ [TeamsNext]_teamVars => (TypesInv /\ ScopeInv)'
  BY TypesStep, ScopeStep
<1> QED BY <1>1, <1>2, PTL DEF TeamsSpec

\* What the write of request r does to its member, if the member had a campaign
\* when the request looked.
LEMMA WriteFits ==
    ASSUME TypesInv, ScopeInv, NEW r \in Requests, Write(r),
           requests[r].change # [deleted |-> TRUE], requests[r].seen.campaign # NONE
    PROVE  LET q   == requests[r]
               row == members[q.member]
               new == members'[q.member]
               b   == Boundary(OfficeOf[q.seen.campaign])
           IN /\ InAreaOf(q.actor, new)
              /\ row = q.seen => InItsArea(new, b)
              /\ "campaign" \notin DOMAIN q.change => new.campaign = row.campaign
<1> DEFINE q   == requests[r]
           row == members[q.member]
<1>1. /\ q.pc = "write" /\ q.member \in Members /\ row \in Row /\ q.seen \in Row
      /\ Typed(q.change)
  BY DEF Write, TypesInv, Pending, Idle
<1>2. Planned(q.seen, q.actor, q.change)
  BY <1>1 DEF ScopeInv, RequestFits
<1>3. q.seen.campaign \in Campaigns
  BY <1>1, RowFields
<1>4. members'[q.member] = Over(q.change, row)
  BY <1>1 DEF Write, TypesInv
<1>5. q.change # [deleted |-> TRUE]
  OBVIOUS
<1> HIDE DEF q, row
<1>6. LET new == Over(q.change, row)
      IN /\ InAreaOf(q.actor, new)
         /\ row = q.seen => InItsArea(new, Boundary(OfficeOf[q.seen.campaign]))
         /\ "campaign" \notin DOMAIN q.change => new.campaign = row.campaign
  BY <1>1, <1>2, <1>3, <1>5, PlannedWrites, OverRow DEF Columns
<1> QED BY <1>4, <1>6 DEF q, row

\* A request that ends, and changes its member, has written.
LEMMA OnlyWritesChange ==
    ASSUME TypesInv, [TeamsNext]_teamVars, NEW r \in Requests,
           requests[r].pc = "write", requests'[r] = Idle, members' # members
    PROVE  Write(r)
<1>1. requests'[r] # requests[r]
  BY DEF Idle
<1>2. ASSUME NEW s \in Requests, Write(s)
      PROVE  s = r
  BY <1>1, <1>2 DEF Write, TypesInv
<1> QED
  BY <1>1, <1>2 DEF TeamsNext, Create, ReadForUpdate, ReadForDeletion, RequestDies, teamVars
----------------------------------------------------------------------------
\* In a campaign that nobody is transferred into, no sequence of creations,
\* changes of role and overlapping updates leaves a member with an area outside
\* the office of the campaign, in the columns of earlier roles neither
\* (processUserUpdate).
THEOREM AreasStayWithinOffice == TeamsSpec => []AreasWithinOffice
<1>1. ScopeInv => AreasWithinOffice
  BY DEF ScopeInv
<1> QED BY <1>1, ScopeAlways, PTL

\* Whatever happened to a member since a request looked at it, transfers
\* included, the request leaves it in the area of the account that made it, and
\* changes a member of another campaign only if it has left the account's own
\* since (processUserUpdate, processUserDeletion).
THEOREM ActorsStay == TeamsSpec => ActorsStayInScope
<1> DEFINE Scoped ==
      \A r \in Requests :
         (requests[r].pc = "write" /\ requests'[r] = Idle /\ members' # members) =>
           LET q   == requests[r]
               old == members[q.member]
               new == members'[q.member]
           IN q.actor.role # "ADMIN" =>
                /\ "lga" \in DOMAIN q.change => InAreaOf(q.actor, new)
                /\ old.campaign # q.actor.campaign => old.campaign # q.seen.campaign
<1>1. TypesInv /\ ScopeInv /\ [TeamsNext]_teamVars => [Scoped]_teamVars
  <2> SUFFICES ASSUME TypesInv, ScopeInv, [TeamsNext]_teamVars, NEW r \in Requests,
                      requests[r].pc = "write", requests'[r] = Idle, members' # members,
                      requests[r].actor.role # "ADMIN"
               PROVE  LET q == requests[r]
                      IN /\ "lga" \in DOMAIN q.change => InAreaOf(q.actor, members'[q.member])
                         /\ q.actor.campaign = q.seen.campaign
    OBVIOUS
  <2>1. Write(r)
    BY OnlyWritesChange
  <2>2. /\ requests[r].actor.campaign = requests[r].seen.campaign
        /\ requests[r].seen.campaign # NONE
    BY DEF ScopeInv, RequestFits, MayManage
  <2>3. CASE requests[r].change = [deleted |-> TRUE]
    BY <2>2, <2>3
  <2>4. CASE requests[r].change # [deleted |-> TRUE]
    BY <2>1, <2>2, <2>4, WriteFits
  <2> QED BY <2>3, <2>4
<1> QED
  BY <1>1, ScopeAlways, PTL DEF TeamsSpec, ActorsStayInScope

\* A creation, and an update that moves nobody and whose member nobody changed
\* between its check and its write, leave a member of a campaign with the area
\* of its role (processUserCreation, processUserUpdate).
THEOREM UndisturbedFit == TeamsSpec => UndisturbedUpdatesFit
<1> DEFINE Fitting ==
      \A m \in Members :
         /\ members[m] = NONE /\ members'[m] # NONE => HasItsArea(m)'
         /\ \A r \in Requests :
              (/\ requests[r].pc = "write" /\ requests'[r] = Idle
               /\ requests[r].member = m /\ members[m] = requests[r].seen
               /\ members[m].campaign # NONE /\ "campaign" \notin DOMAIN requests[r].change
               /\ members'[m] # members[m])
                => members'[m].deleted \/ HasItsArea(m)'
<1>1. ASSUME TypesInv, ScopeInv, [TeamsNext]_teamVars, NEW m \in Members,
             members[m] = NONE, members'[m] # NONE
      PROVE  HasItsArea(m)'
  <2>1. Create(m)
    <3>1. ASSUME NEW n \in Members, Create(n)
          PROVE  n = m
      BY <1>1, <3>1 DEF Create, TypesInv
    <3>2. ASSUME NEW r \in Requests, Write(r)
          PROVE  FALSE
      <4>1. requests[r].member # m
        BY <1>1, <3>2, NoneAssumption DEF Write, TypesInv, Pending, Idle
      <4> QED BY <1>1, <3>2, <4>1 DEF Write, TypesInv
    <3> QED
      BY <1>1, <3>1, <3>2
         DEF TeamsNext, ReadForUpdate, ReadForDeletion, RequestDies, teamVars
  <2>2. PICK c \in Campaigns, b \in Bodies :
          LET area == [a \in Areas |-> IF b[a] = KEEP THEN NONE ELSE b[a]]
          IN /\ b.role # KEEP
             /\ Fits(b.role, area, Boundary(OfficeOf[c]))
             /\ members' = [members EXCEPT ![m] =
                  Over(Home(b.role, area), [role |-> b.role, campaign |-> c, deleted |-> FALSE])]
    BY <2>1 DEF Create
  <2> DEFINE area == [a \in Areas |-> IF b[a] = KEEP THEN NONE ELSE b[a]]
             row  == Over(Home(b.role, area),
                          [role |-> b.role, campaign |-> c, deleted |-> FALSE])
  <2>3. /\ row \in Row /\ row.role = b.role /\ row.campaign = c
        /\ \A a \in Areas : row[a] = Home(b.role, area)[a]
    BY <2>2, CreatedFits
  <2>4. b.role \in Role /\ Placed(area)
    BY <2>2, BodyFields DEF Placed, Areas, Lga, Ward, Unit
  <2>5. OfficeOf[c] \in Office /\ Written(b.role) \subseteq Areas
    BY <2>4, TeamsAssumption, WrittenAreas
  <2>6. members'[m] = row
    BY <1>1, <2>2 DEF TypesInv
  <2>7. Fits(b.role, area, Boundary(OfficeOf[c]))
    BY <2>2
  <2> HIDE DEF row, area
  <2>8. InItsArea(row, Boundary(OfficeOf[c]))
    BY <2>3, <2>4, <2>5, <2>7, HomeFits DEF InItsArea
  <2> QED BY <2>3, <2>6, <2>8 DEF InItsArea, HasItsArea
<1>2. ASSUME TypesInv, ScopeInv, [TeamsNext]_teamVars, NEW m \in Members, NEW r \in Requests,
             requests[r].pc = "write", requests'[r] = Idle, requests[r].member = m,
             members[m] = requests[r].seen, members'[m] # members[m],
             members[m].campaign # NONE, "campaign" \notin DOMAIN requests[r].change
      PROVE  members'[m].deleted \/ HasItsArea(m)'
  <2>1. Write(r)
    BY <1>2, OnlyWritesChange
  <2>2. members[m] \in Row
    BY <1>2 DEF TypesInv, Pending, Idle
  <2>3. CASE requests[r].change = [deleted |-> TRUE]
    <3>1. members'[m] = Over(requests[r].change, members[m])
      BY <1>2, <2>1 DEF Write, TypesInv
    <3> QED BY <2>2, <2>3, <3>1, DeletionWrites
  <2>4. CASE requests[r].change # [deleted |-> TRUE]
    <3>1. /\ members'[m].campaign = members[m].campaign
          /\ InItsArea(members'[m], Boundary(OfficeOf[members[m].campaign]))
      BY <1>2, <2>1, <2>4, WriteFits
    <3> QED BY <3>1 DEF InItsArea, HasItsArea
  <2> QED BY <2>3, <2>4
<1>3. TypesInv /\ ScopeInv /\ [TeamsNext]_teamVars => [Fitting]_teamVars
  BY <1>1, <1>2
<1> QED
  BY <1>3, ScopeAlways, PTL DEF TeamsSpec, UndisturbedUpdatesFit
=============================================================================
