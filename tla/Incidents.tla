------------------------------ MODULE Incidents ------------------------------
(***************************************************************************)
(* Incidents: agents and coordinators report them from their area, for     *)
(* their campaign; directors of the campaign and administrators change     *)
(* their status and remove them.  Every such request is in the audit       *)
(* trail.                                                                  *)
(*                                                                         *)
(* A request comes with the profile of its account as a guard has loaded   *)
(* it, at whatever time before; the statements of its handler follow one   *)
(* by one, between those of the others and changes of the offices.         *)
(***************************************************************************)
EXTENDS Places, AuditTrail

CONSTANTS
    Campaigns,
    Offices,     \* what the office of a campaign may become
    Profiles,    \* profiles that reporters come with
    Actors,      \* profiles of those who judge and remove
    Old,         \* ids of incidents reported earlier
    Earlier,     \* what they may be
    Dtos,        \* the unit, ward and campaign that a report names
    Statuses     \* the statuses that an update names

VARIABLES
    offices,     \* the office of each campaign
    incidents,   \* rows by id, NONE when there is none
    requests     \* the local state of each request

incidentVars == <<offices, incidents, requests, audit>>

Ids == Old \cup Requests

IncidentStatus == {"REPORTED", "INVESTIGATING", "CONFIRMED", "RESOLVED"}

Location == [unit : PollingUnits \cup {NONE}, ward : Wards \cup {NONE}, lga : Lgas]
Campaign == Campaigns \cup {NONE}

Incident == [at : Location, campaign : Campaign, status : IncidentStatus]

Reporter == [role : {"PU_AGENT"}, campaign : Campaign, area : PollingUnits \cup {NONE}]
       \cup [role : {"WARD_COORDINATOR"}, campaign : Campaign, area : Wards \cup {NONE}]
       \cup [role : {"LGA_COORDINATOR"}, campaign : Campaign, area : Lgas \cup {NONE}]

Dto == [unit : PollingUnits \cup {NONE}, ward : Wards \cup {NONE}, campaign : Campaign]

Actor == [admin : BOOLEAN, campaign : Campaign]

\* Those who report are users.
AgentOrCoordinator == [admin |-> FALSE]

Fresh == [pc |-> "none"]

\* A report before it knows where and after, an update or a removal between
\* its statements, and a request that is over.
RequestState ==
    {Fresh}
      \cup [pc : {"resolve"}, op : {"report"}, on : Requests, by : {AgentOrCoordinator},
            profile : Profiles, dto : Dtos]
      \cup [pc : {"bound", "save", "reload"}, op : {"report"}, on : Requests,
            by : {AgentOrCoordinator}, profile : Profiles, calm : BOOLEAN, row : Incident]
      \cup [pc : {"change"}, op : {"status", "remove"}, on : Ids, by : Actors]
      \cup [pc : {"reload"}, op : {"status"}, on : Ids, by : Actors]
      \cup [pc : {"ended", "died"}, op : {"report", "status", "remove"}, on : Ids]

ASSUME IncidentsAssumption ==
    /\ Offices \subseteq Office
    /\ Profiles \subseteq Reporter
    /\ Actors \subseteq Actor
    /\ Earlier \subseteq Incident
    /\ Dtos \subseteq Dto
    /\ Statuses \subseteq IncidentStatus
    /\ Old \cap Requests = {}
    /\ NONE \notin Incident
----------------------------------------------------------------------------
IncidentsInit ==
    /\ AuditInit
    /\ offices \in [Campaigns -> Offices]
    /\ \E old \in [Old -> Earlier] :
         incidents = [i \in Ids |-> IF i \in Old THEN old[i] ELSE NONE]
    /\ requests = [r \in Requests |-> Fresh]

\* The local state of one request.
SetRequest(r, request) == requests' = [requests EXCEPT ![r] = request]

\* The handler of r has ended.
Ends(r, status) ==
    /\ SetRequest(r, [pc |-> "ended", op |-> requests[r].op, on |-> requests[r].on])
    /\ Recorded(r, requests[r].by.admin, status)

\* A ward or a unit, with the places above it.
Above(ward) == [unit |-> NONE, ward |-> ward, lga |-> LgaOf[ward]]
AboveUnit(unit) == [unit |-> unit, ward |-> WardOf[unit], lga |-> LgaOf[WardOf[unit]]]

\* Where a reporter may report what the body names, NONE when that is refused.
\* An agent: the unit of the profile.
LocationOfAgent(profile, dto) ==
    IF dto.unit \in {NONE, profile.area} THEN AboveUnit(profile.area) ELSE NONE

\* A ward coordinator: the unit has to be in the ward.
LocationInWard(profile, dto) ==
    IF dto.unit = NONE THEN Above(profile.area)
    ELSE IF WardOf[dto.unit] = profile.area THEN AboveUnit(dto.unit) ELSE NONE

LocationInLgaUnchecked(profile, dto) ==
    IF dto.unit # NONE THEN AboveUnit(dto.unit)
    ELSE [unit |-> NONE, ward |-> NONE, lga |-> profile.area]

\* An LGA coordinator: the unit or the ward has to be in the LGA.
LocationInLga(profile, dto) ==
    CASE dto.unit # NONE ->
            IF LgaOf[WardOf[dto.unit]] = profile.area THEN AboveUnit(dto.unit) ELSE NONE
      [] dto.unit = NONE /\ dto.ward # NONE ->
            IF LgaOf[dto.ward] = profile.area THEN Above(dto.ward) ELSE NONE
      [] OTHER -> [unit |-> NONE, ward |-> NONE, lga |-> profile.area]

ResolvedAnyway(profile, dto) ==
    CASE profile.role = "PU_AGENT"         -> LocationOfAgent(profile, dto)
      [] profile.role = "WARD_COORDINATOR" -> LocationInWard(profile, dto)
      [] profile.role = "LGA_COORDINATOR"  -> LocationInLga(profile, dto)

\* createIncident, "Hierarchical Location & Boundary Resolution".
Resolved(profile, dto) ==
    IF profile.area = NONE THEN NONE
    ELSE CASE profile.role = "PU_AGENT"         -> LocationOfAgent(profile, dto)
           [] profile.role = "WARD_COORDINATOR" -> LocationInWard(profile, dto)
           [] profile.role = "LGA_COORDINATOR"  -> LocationInLga(profile, dto)

\* Every level that is known has to be in the boundary.
Within(location, boundary) ==
    /\ location.unit # NONE => location.unit \in boundary.units
    /\ location.ward # NONE => location.ward \in boundary.wards
    /\ location.lga \in boundary.lgas
----------------------------------------------------------------------------
\* createIncident, as far as it knows where: a category that is not active
\* and too many files are refused at this point too.
Report(r) ==
    /\ requests[r].pc = "none"
    /\ \E profile \in Profiles, dto \in Dtos :
         SetRequest(r, [pc |-> "resolve", op |-> "report", on |-> r, by |-> AgentOrCoordinator,
                        profile |-> profile, dto |-> dto])
    /\ UNCHANGED <<offices, incidents, audit>>

Resolve(r) ==
    /\ requests[r].pc = "resolve"
    /\ LET profile == requests[r].profile
           at == Resolved(profile, requests[r].dto)
       IN  /\ at # NONE
           /\ SetRequest(r, [pc |-> IF profile.campaign = NONE THEN "save" ELSE "bound",
                             op |-> "report", on |-> r, by |-> requests[r].by,
                             profile |-> profile, calm |-> TRUE,
                             row |-> [at |-> at, status |-> "REPORTED",
                                      campaign |-> IF profile.campaign # NONE THEN profile.campaign
                                                   ELSE requests[r].dto.campaign]])
    /\ UNCHANGED <<offices, incidents, audit>>

Refuse(r) ==
    /\ requests[r].pc = "resolve"
    /\ Ends(r, "FAILURE")
    /\ UNCHANGED <<offices, incidents>>

\* getOfficeBoundaries, of the office of the profile's campaign.
CheckBoundary(r) ==
    /\ requests[r].pc = "bound"
    /\ IF Within(requests[r].row.at, Boundary(offices[requests[r].row.campaign]))
       THEN /\ SetRequest(r, [requests[r] EXCEPT !.pc = "save"])
            /\ UNCHANGED audit
       ELSE Ends(r, "FAILURE")
    /\ UNCHANGED <<offices, incidents>>

\* The row is inserted, and read back.
Save(r) ==
    /\ requests[r].pc = "save"
    /\ incidents' = [incidents EXCEPT ![r] = requests[r].row]
    /\ SetRequest(r, [requests[r] EXCEPT !.pc = "reload"])
    /\ UNCHANGED <<offices, audit>>

Reload(r) ==
    /\ requests[r].pc = "reload"
    /\ Ends(r, "SUCCESS")
    /\ UNCHANGED <<offices, incidents>>

\* updateStatus and remove: the row is read and its campaign compared.
MayJudge(actor, incident) ==
    \/ actor.admin
    \/ actor.campaign # NONE /\ incident.campaign \in {NONE, actor.campaign}

Look(r, op) ==
    /\ requests[r].pc = "none"
    /\ \E actor \in Actors, i \in Ids :
         LET request == [pc |-> "change", op |-> op, by |-> actor, on |-> i]
         IN  IF incidents[i] # NONE /\ MayJudge(actor, incidents[i])
             THEN SetRequest(r, request) /\ UNCHANGED audit
             ELSE /\ SetRequest(r, [pc |-> "ended", op |-> op, on |-> i])
                  /\ Recorded(r, actor.admin, "FAILURE")
    /\ UNCHANGED <<offices, incidents>>

UpdateStatus(r) == Look(r, "status")
RemoveIncident(r) == Look(r, "remove")

WriteStatusBack(r) ==
    /\ requests[r].pc = "change" /\ requests[r].op = "status"
    /\ \E status \in Statuses, row \in Earlier :
         incidents' = [incidents EXCEPT ![requests[r].on] = [row EXCEPT !.status = status]]
    /\ SetRequest(r, [requests[r] EXCEPT !.pc = "reload"])
    /\ UNCHANGED <<offices, audit>>

\* By id: nothing is written when the row is gone, and that is no error.
WriteStatus(r) ==
    /\ requests[r].pc = "change" /\ requests[r].op = "status"
    /\ LET i == requests[r].on
       IN  \E status \in Statuses :
             incidents' = IF incidents[i] = NONE THEN incidents
                          ELSE [incidents EXCEPT ![i].status = status]
    /\ SetRequest(r, [requests[r] EXCEPT !.pc = "reload"])
    /\ UNCHANGED <<offices, audit>>

Delete(r) ==
    /\ requests[r].pc = "change" /\ requests[r].op = "remove"
    /\ incidents' = [incidents EXCEPT ![requests[r].on] = NONE]
    /\ Ends(r, "SUCCESS")
    /\ UNCHANGED offices

\* A statement fails: the handler throws.
StatementFails(r) ==
    /\ requests[r].pc \in {"bound", "save", "change", "reload"}
    /\ Ends(r, "FAILURE")
    /\ UNCHANGED <<offices, incidents>>

\* The process ends.
RequestDies(r) ==
    /\ requests[r].pc \in {"resolve", "bound", "save", "change", "reload"}
    /\ SetRequest(r, [pc |-> "died", op |-> requests[r].op, on |-> requests[r].on])
    /\ UNCHANGED <<offices, incidents, audit>>

\* The areas of an office are changed.
ChangeOffice(c) ==
    /\ \E o \in Offices \ {offices[c]} : offices' = [offices EXCEPT ![c] = o]
    /\ requests' = [r \in Requests |->
         IF requests[r].pc = "save" /\ requests[r].row.campaign = c
         THEN [requests[r] EXCEPT !.calm = FALSE] ELSE requests[r]]
    /\ UNCHANGED <<incidents, audit>>

RequestStep(r) ==
    \/ Resolve(r) \/ Refuse(r) \/ CheckBoundary(r) \/ Save(r) \/ Reload(r)
    \/ WriteStatus(r) \/ Delete(r) \/ StatementFails(r) \/ RequestDies(r)

Trail(r) == AuditStep(r) /\ UNCHANGED <<offices, incidents, requests>>

IncidentsNext ==
    \/ \E r \in Requests :
         Report(r) \/ UpdateStatus(r) \/ RemoveIncident(r) \/ RequestStep(r)
    \/ \E r \in Followed : Trail(r)
    \/ \E c \in Campaigns : ChangeOffice(c)

\* The queue and its workers go on.
IncidentsSpec ==
    /\ IncidentsInit /\ [][IncidentsNext]_incidentVars
    /\ \A r \in Followed : WF_audit(Trail(r))
----------------------------------------------------------------------------
\* Type correctness of the incidents, their requests and their trail.
IncidentsTypeOK ==
    /\ AuditTypeOK
    /\ offices \in [Campaigns -> Office]
    /\ incidents \in [Ids -> Incident \cup {NONE}]
    /\ requests \in [Requests -> RequestState]
    /\ \A r \in Followed : audit[r].pc # "none" => requests[r].pc = "ended"

\* "can only report incidents for their assigned Polling Unit", "does not fall
\* within your assigned Ward", "is outside your campaign electoral office
\* boundaries": a report that is stored is in the area its reporter came with,
\* its levels are those of one place, and they are in the boundary of the
\* campaign's office unless that has changed since the check (createIncident).
ReportsFit ==
    [][\A r \in Requests :
         requests[r].pc = "save" /\ requests'[r].pc = "reload" =>
           LET profile == requests[r].profile
               at == incidents'[r].at
           IN  /\ profile.role = "PU_AGENT" => at.unit = profile.area
               /\ profile.role = "WARD_COORDINATOR" => at.ward = profile.area
               /\ profile.role = "LGA_COORDINATOR" => at.lga = profile.area
               /\ at.unit # NONE => at.ward = WardOf[at.unit]
               /\ at.ward # NONE => at.lga = LgaOf[at.ward]
               /\ profile.campaign # NONE /\ requests[r].calm =>
                    Within(at, Boundary(offices[profile.campaign]))]_incidentVars

\* What the trail calls a success has happened and stays: a report is there
\* unless somebody has removed it, and a removed incident does not come back,
\* however late a change of its status is written (updateStatus, remove).
SuccessesHold ==
    \A r \in Followed :
        audit[r].rows > 0 /\ audit[r].entry.status = "SUCCESS" =>
            /\ requests[r].op = "report" =>
                 \/ incidents[r] # NONE
                 \/ \E q \in Requests : requests[q].pc # "none" /\ requests[q].op = "remove"
                                         /\ requests[q].on = r
            /\ requests[r].op = "remove" => incidents[requests[r].on] = NONE
=============================================================================
