------------------------------- MODULE Teams --------------------------------
(***************************************************************************)
(* The members of campaign teams: who may create, change and delete whom,  *)
(* and the area that a role needs.  An update or a deletion reads the      *)
(* member and checks everything in one go, and writes the member by its id *)
(* in a later statement.                                                   *)
(***************************************************************************)
EXTENDS Places

CONSTANTS
    Members,
    Campaigns,
    OfficeOf,    \* the electoral office of a campaign
    Actors,      \* profiles of the accounts that make requests
    Requests,    \* updates and deletions that may be under way at a time
    Bodies,      \* what they may name: a role, areas, a campaign
    KEEP         \* a field that a body leaves out (NONE is a null)

VARIABLES
    members,     \* rows of users, NONE before they are created
    requests     \* the local state of each update or deletion

teamVars == <<members, requests>>

Role == {"CLIENT_USER", "LGA_COORDINATOR", "WARD_COORDINATOR", "PU_AGENT"}

Lga == Lgas \cup {NONE}
Ward == Wards \cup {NONE}
Unit == PollingUnits \cup {NONE}

Row == [role : Role, campaign : Campaigns \cup {NONE},
        lga : Lga, ward : Ward, unit : Unit, deleted : BOOLEAN]

Body == [role : Role \cup {KEEP}, campaign : Campaigns \cup {NONE, KEEP},
         lga : Lga \cup {KEEP}, ward : Ward \cup {KEEP}, unit : Unit \cup {KEEP}]

\* The account behind a request is not the member it is about; its profile
\* has the area its role needs.
Actor == [role : {"ADMIN", "ASPIRANT"} \cup Role, campaign : Campaigns \cup {NONE},
          lga : Lga, ward : Ward]

ASSUME TeamsAssumption ==
    /\ OfficeOf \in [Campaigns -> Office]
    /\ Bodies \subseteq Body
    /\ Actors \subseteq Actor

ASSUME NoneAssumption == NONE \notin Row /\ NONE \notin Campaigns

Areas == {"lga", "ward", "unit"}

\* The campaigns that updates may move members to.
Transfers == {b.campaign : b \in Bodies} \ {KEEP}

Idle == [pc |-> "idle"]
----------------------------------------------------------------------------
\* row with the columns of change written over its own.
Over(change, row) ==
    [f \in DOMAIN change \cup DOMAIN row |-> IF f \in DOMAIN change THEN change[f] ELSE row[f]]

\* The roles that an account may bring in, change, assign or delete.
Led(role) ==
    CASE role = "LGA_COORDINATOR"  -> {"WARD_COORDINATOR", "PU_AGENT"}
      [] role = "WARD_COORDINATOR" -> {"PU_AGENT"}
      [] OTHER                     -> Role

\* area is a row, or what a request is about to make of one.
InAreaOf(actor, area) ==
    /\ actor.role = "LGA_COORDINATOR" => area.lga = actor.lga
    /\ actor.role = "WARD_COORDINATOR" => area.ward = actor.ward

MayManageAnyCampaign(actor, row) ==
    row.role \in Led(actor.role) /\ InAreaOf(actor, row)

MayManage(actor, row) ==
    \/ actor.role = "ADMIN"
    \/ /\ actor.campaign # NONE
       /\ actor.campaign = row.campaign
       /\ row.role \in Led(actor.role)
       /\ InAreaOf(actor, row)

\* The area that a role needs is covered, and areas given above it fit.
Fits(role, area, boundary) ==
    CASE role = "LGA_COORDINATOR"  -> area.lga \in boundary.lgas
      [] role = "WARD_COORDINATOR" ->
            /\ area.ward \in boundary.wards
            /\ area.lga # NONE => area.lga = LgaOf[area.ward] /\ area.lga \in boundary.lgas
      [] role = "PU_AGENT"         ->
            /\ area.unit \in boundary.units
            /\ area.ward # NONE => area.ward = WardOf[area.unit]
            /\ area.lga # NONE => area.lga = LgaOf[WardOf[area.unit]]
      [] role = "CLIENT_USER"      -> TRUE

FitsUpdateAnyOffice(role, area, boundary) ==
    Fits(role, area, [lgas |-> Lgas, wards |-> Wards, units |-> PollingUnits])

\* An update of an agent asks for more than its creation.
FitsUpdate(role, area, boundary) ==
    /\ Fits(role, area, boundary)
    /\ role = "PU_AGENT" /\ area.lga # NONE => area.lga \in boundary.lgas

\* The areas of a role, those above the one it needs filled in.
Home(role, area) ==
    CASE role = "LGA_COORDINATOR"  -> [lga |-> area.lga, ward |-> NONE, unit |-> NONE]
      [] role = "WARD_COORDINATOR" ->
            [lga |-> LgaOf[area.ward], ward |-> area.ward, unit |-> NONE]
      [] role = "PU_AGENT"         ->
            [lga |-> LgaOf[WardOf[area.unit]], ward |-> WardOf[area.unit], unit |-> area.unit]
      [] role = "CLIENT_USER"      -> [lga |-> NONE, ward |-> NONE, unit |-> NONE]

\* The columns that an update writes: the areas below the one a role needs
\* are set to undefined, which UserRepository.update takes for "not named".
Written(role) ==
    CASE role = "LGA_COORDINATOR"  -> {"lga"}
      [] role = "WARD_COORDINATOR" -> {"lga", "ward"}
      [] OTHER                     -> Areas
----------------------------------------------------------------------------
TeamsInit ==
    /\ members = [m \in Members |-> NONE]
    /\ requests = [r \in Requests |-> Idle]

\* processUserCreation.  An administrator names the campaign, the others
\* create for their own; an account whose profile has none, for the campaign
\* of the body or of the database.
Create(m) ==
    /\ members[m] = NONE
    /\ \E actor \in Actors, c \in Campaigns, b \in Bodies :
         LET area == [a \in Areas |-> IF b[a] = KEEP THEN NONE ELSE b[a]]
         IN /\ b.role # KEEP
            /\ actor.role # "ADMIN" => /\ actor.campaign \in {c, NONE}
                                      /\ b.role \in Led(actor.role)
            /\ Fits(b.role, area, Boundary(OfficeOf[c]))
            /\ InAreaOf(actor, Home(b.role, area))
            /\ members' = [members EXCEPT ![m] =
                 Over(Home(b.role, area), [role |-> b.role, campaign |-> c, deleted |-> FALSE])]
    /\ UNCHANGED requests

ChangeAsNamed(row, b) == [f \in {f \in DOMAIN b : b[f] # KEEP} |-> b[f]]

ChangeWithBlanks(row, b) ==
    Over(Home(IF b.role = KEEP THEN row.role ELSE b.role,
              [a \in Areas |-> IF b[a] = KEEP THEN row[a] ELSE b[a]]),
         [role |-> b.role])

\* What an update of row with body b is to write.  Without a campaign nothing
\* is checked and the body is written as it is.
Change(row, b) ==
    LET role  == IF b.role = KEEP THEN row.role ELSE b.role
        area  == [a \in Areas |-> IF b[a] = KEEP THEN row[a] ELSE b[a]]
        named == {f \in DOMAIN b : b[f] # KEEP}
    IN IF row.campaign = NONE
       THEN [f \in named |-> b[f]]
       ELSE [f \in (named \ Areas) \cup Written(role) |->
               IF f \in Areas THEN Home(role, area)[f] ELSE b[f]]

\* processUserUpdate up to the statement that writes.
ReadForUpdate(r) ==
    /\ requests[r].pc = "idle"
    /\ \E m \in Members, actor \in Actors, b \in Bodies :
         LET row  == members[m]
             role == IF b.role = KEEP THEN row.role ELSE b.role
             area == [a \in Areas |-> IF b[a] = KEEP THEN row[a] ELSE b[a]]
         IN /\ row # NONE /\ ~row.deleted
            /\ MayManage(actor, row)
            /\ role \in Led(actor.role)
            /\ row.campaign # NONE =>
                 /\ FitsUpdate(role, area, Boundary(OfficeOf[row.campaign]))
                 /\ InAreaOf(actor, Home(role, area))
            /\ requests' = [requests EXCEPT ![r] =
                 [pc |-> "write", member |-> m, seen |-> row, actor |-> actor,
                  change |-> Change(row, b)]]
    /\ UNCHANGED members

\* processUserDeletion up to the statements that delete.
ReadForDeletion(r) ==
    /\ requests[r].pc = "idle"
    /\ \E m \in Members, actor \in Actors :
         /\ members[m] # NONE /\ ~members[m].deleted
         /\ MayManage(actor, members[m])
         /\ requests' = [requests EXCEPT ![r] =
              [pc |-> "write", member |-> m, seen |-> members[m], actor |-> actor,
               change |-> [deleted |-> TRUE]]]
    /\ UNCHANGED members

\* UserRepository.update or softDelete: by id alone, deleted or not.
Write(r) ==
    /\ requests[r].pc = "write"
    /\ members' = [members EXCEPT ![requests[r].member] = Over(requests[r].change, @)]
    /\ requests' = [requests EXCEPT ![r] = Idle]

\* The statement fails or the process ends.
RequestDies(r) ==
    /\ requests[r].pc = "write"
    /\ requests' = [requests EXCEPT ![r] = Idle]
    /\ UNCHANGED members

TeamsNext ==
    \/ \E m \in Members : Create(m)
    \/ \E r \in Requests :
         ReadForUpdate(r) \/ ReadForDeletion(r) \/ Write(r) \/ RequestDies(r)

TeamsSpec == TeamsInit /\ [][TeamsNext]_teamVars
----------------------------------------------------------------------------
Employed(m) == members[m] # NONE /\ ~members[m].deleted /\ members[m].campaign # NONE

\* Type correctness of the members and of the requests under way.
TeamsTypeOK ==
    /\ members \in [Members -> Row \cup {NONE}]
    /\ \A r \in Requests :
         requests[r] = Idle
           \/ /\ requests[r].pc = "write"
              /\ members[requests[r].member] \in Row
              /\ Over(requests[r].change, members[requests[r].member]) \in Row

\* In a campaign that no update transfers members into, every area a member
\* has, the left-over ones of earlier roles included, is one that the office of
\* the campaign covers; an LGA may be that of a covered ward
\* (processUserUpdate, lines 544-719).
AreasWithinOffice ==
    \A m \in Members : Employed(m) /\ members[m].campaign \notin Transfers =>
      LET row == members[m]
          b   == Boundary(OfficeOf[row.campaign])
      IN /\ row.unit # NONE => row.unit \in b.units
         /\ row.ward # NONE => row.ward \in b.wards
         /\ row.lga # NONE => row.lga \in b.lgas \cup {LgaOf[w] : w \in b.wards}

\* The member has the area of its role, covered by the office and consistent
\* with the areas above it, or none when the role has none.
HasItsArea(m) ==
    LET row == members[m]
        b   == Boundary(OfficeOf[row.campaign])
    IN /\ row.role = "LGA_COORDINATOR" => row.lga \in b.lgas
       /\ row.role = "WARD_COORDINATOR" => row.ward \in b.wards
       /\ row.role = "PU_AGENT" => row.unit \in b.units
       /\ \A a \in Written(row.role) : row[a] = Home(row.role, row)[a]

\* A creation, and an update that moves nobody and whose member nobody changed
\* between its check and its write, leave a member of a campaign with the area
\* of its role, whatever campaigns, roles and areas it had and whatever earlier
\* races made of it (processUserCreation, processUserUpdate).  Updates that
\* overlap may not: one changes the role and the other the area, each checked
\* against the member as it was.
UndisturbedUpdatesFit ==
    [][\A m \in Members :
         /\ members[m] = NONE /\ members'[m] # NONE => HasItsArea(m)'
         /\ \A r \in Requests :
              (/\ requests[r].pc = "write" /\ requests'[r] = Idle
               /\ requests[r].member = m /\ members[m] = requests[r].seen
               /\ members[m].campaign # NONE /\ "campaign" \notin DOMAIN requests[r].change
               /\ members'[m] # members[m])
                => members'[m].deleted \/ HasItsArea(m)'
      ]_teamVars

\* Whatever happened to a member since a request looked at it, transfers to
\* another campaign included, the request leaves the member in the area of the
\* account that made it: coordinators place nobody outside their LGA or ward.
\* The write goes by the id alone, so a request may change a member of another
\* campaign, but only one that has left the account's own since the request
\* looked (processUserUpdate, lines 450-500 and 569-727, processUserDeletion).
ActorsStayInScope ==
    [][\A r \in Requests :
         (requests[r].pc = "write" /\ requests'[r] = Idle /\ members' # members) =>
           LET q   == requests[r]
               old == members[q.member]
               new == members'[q.member]
           IN q.actor.role # "ADMIN" =>
                /\ "lga" \in DOMAIN q.change => InAreaOf(q.actor, new)
                /\ old.campaign # q.actor.campaign => old.campaign # q.seen.campaign
      ]_teamVars
=============================================================================
