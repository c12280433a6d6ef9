------------------------------- MODULE Network -------------------------------
(***************************************************************************)
(* Applications, the organizations under them, the users assigned to them, *)
(* and the families that are created and listed under both.                *)
(*                                                                         *)
(* A POST copies a DTO with BeanUtils.copyProperties, which copies no       *)
(* property whose type differs: an association (ApplicationDTO against      *)
(* ApplicationEntity) stays NULL.  So the links of organizations and users  *)
(* come from the seed data alone, and a POST with the id of an existing row *)
(* clears them.  A family gets its place from the login of the user who     *)
(* sends its first snapshot and from the organization named there.          *)
(*                                                                         *)
(* The deletion of a family's snapshots is module Snapshots; here it is two *)
(* calls, the one that loads the family and the one that writes it back.    *)
(***************************************************************************)
EXTENDS Integers, FiniteSets

CONSTANTS
    Workers,            \* server threads
    Users,
    MaxApplications,    \* bounds: ids the sequences may hand out
    MaxOrganizations,
    MaxFamilies,
    SeedApplications,   \* how many ids the seed data took
    SeedOrganizations,
    Null,               \* the SQL NULL, and a null field of a DTO
    None                \* no row under this id; no session; no value

AppIds    == 1 .. MaxApplications
OrgIds    == 1 .. MaxOrganizations
FamilyIds == 1 .. MaxFamilies

\* An application_id with an organization_id, as families and users have.
Place     == [app : AppIds \cup {Null}, org : OrgIds \cup {Null}]
NoPlace   == [app |-> Null, org |-> Null]
FamilyRow == [place : Place, active : BOOLEAN]

Ops == {"none", "createFamily", "saveFamily", "saveOrganization"}

\* details is the login the request came with; place and family are what a
\* family request will write, org and app what an organization request will.
Request == [op      : Ops,
            details : Place,
            place   : Place,
            family  : FamilyIds \cup {None},
            org     : OrgIds \cup {None},
            app     : AppIds \cup {Null}]

Idle == [op |-> "none", details |-> NoPlace, place |-> NoPlace,
         family |-> None, org |-> None, app |-> Null]

ASSUME BoundsAssumption ==
    /\ MaxApplications \in Nat /\ MaxOrganizations \in Nat /\ MaxFamilies \in Nat
    /\ SeedApplications \in 0 .. MaxApplications
    /\ SeedOrganizations \in 0 .. MaxOrganizations

ASSUME SentinelAssumption ==
    /\ None \notin Int /\ Null \notin Int /\ None # Null
    /\ None \notin Place /\ None \notin FamilyRow

VARIABLES
    application,   \* table ps_network.applications: the ids it has
    appSeq,        \* its id sequence: the last id handed out
    organization,  \* table ps_network.organizations: its application_id
    orgSeq,        \* its id sequence
    assigned,      \* table users_applications: the place of each user
    session,       \* the details each user's access token was issued with
    family,        \* table ps_families.family
    famSeq,        \* its id sequence
    req,           \* the request each worker is serving
    replaced       \* history: organizations a POST has overwritten

network  == <<application, appSeq, organization, orgSeq, assigned, replaced>>
families == <<family, famSeq>>
vars     == <<network, session, families, req>>

\* The seed data give every organization an application and put every user
\* either under an application or under an organization of it.
Init ==
    /\ application = 1 .. SeedApplications
    /\ appSeq = SeedApplications
    /\ organization \in {orgs \in [OrgIds -> application \cup {None}] :
         \A o \in OrgIds : orgs[o] = None <=> o > SeedOrganizations}
    /\ orgSeq = SeedOrganizations
    /\ assigned \in [Users -> {pl \in Place :
         /\ pl.app \in application \cup {Null}
         /\ pl.org # Null => /\ organization[pl.org] # None
                             /\ organization[pl.org] = pl.app}]
    /\ session = [u \in Users |-> None]
    /\ family = [f \in FamilyIds |-> None]
    /\ famSeq = 0
    /\ req = [w \in Workers |-> Idle]
    /\ replaced = {}

Free(w) == req[w].op = "none"
Serves(w, op) == req[w].op = op
Set(w, r) == req' = [req EXCEPT ![w] = r]
Finish(w) == Set(w, Idle)

-----------------------------------------------------------------------------
(* What is referred to: the foreign keys of organizations,                 *)
(* users_applications and family.                                          *)

ApplicationReferenced(a) ==
    \/ \E o \in OrgIds : organization[o] = a
    \/ \E u \in Users : assigned[u].app = a
    \/ \E f \in FamilyIds : family[f] # None /\ family[f].place.app = a

OrganizationReferenced(o) ==
    \/ \E u \in Users : assigned[u].org = o
    \/ \E f \in FamilyIds : family[f] # None /\ family[f].place.org = o

PlaceExists(pl) ==
    /\ pl.app = Null \/ pl.app \in application
    /\ pl.org = Null \/ organization[pl.org] # None

-----------------------------------------------------------------------------
(* ApplicationServiceImpl.  A POST with an id overwrites a row nothing here *)
(* reads; a PUT is never saved.                                             *)

AddApplication ==
    /\ appSeq < MaxApplications
    /\ appSeq' = appSeq + 1
    /\ application' = application \cup {appSeq + 1}
    /\ UNCHANGED <<organization, orgSeq, assigned, replaced, session, families, req>>

DeleteApplication(a) ==
    /\ a \in application /\ ~ApplicationReferenced(a)
    /\ application' = application \ {a}
    /\ UNCHANGED <<appSeq, organization, orgSeq, assigned, replaced, session,
                   families, req>>

-----------------------------------------------------------------------------
(* OrganizationServiceImpl.                                                *)

AddOrganization ==
    /\ orgSeq < MaxOrganizations
    /\ orgSeq' = orgSeq + 1
    /\ organization' = [organization EXCEPT ![orgSeq + 1] = Null]
    /\ UNCHANGED <<application, appSeq, assigned, replaced, session, families, req>>

\* A POST with the id of a row merges over all of it.
OverwriteOrganization(o) ==
    /\ organization[o] # None
    /\ organization' = [organization EXCEPT ![o] = Null]
    /\ replaced' = replaced \cup {o}
    /\ UNCHANGED <<application, appSeq, orgSeq, assigned, session, families, req>>

\* PUT loads the row, ...
FindOrganization(w, o) ==
    /\ Free(w)
    /\ organization[o] # None
    /\ Set(w, [Idle EXCEPT !.op = "saveOrganization", !.org = o,
                           !.app = organization[o]])
    /\ UNCHANGED <<network, session, families>>

\* ... and writes all of it back, its application as it was loaded included.
\* It fails when the row is gone, or when that application is.
SaveOrganization(w) ==
    LET o == req[w].org IN
    /\ Serves(w, "saveOrganization")
    /\ organization' =
         IF organization[o] # None /\ req[w].app \in application \cup {Null}
         THEN [organization EXCEPT ![o] = req[w].app] ELSE organization
    /\ Finish(w)
    /\ UNCHANGED <<application, appSeq, orgSeq, assigned, replaced, session, families>>

DeleteOrganization(o) ==
    /\ organization[o] # None /\ ~OrganizationReferenced(o)
    /\ organization' = [organization EXCEPT ![o] = None]
    /\ UNCHANGED <<application, appSeq, orgSeq, assigned, replaced, session,
                   families, req>>

-----------------------------------------------------------------------------
(* UserApplicationServiceImpl and the login.                               *)

\* DELETE removes the row of a user; POST with its id leaves a row of nobody.
Unassign(u) ==
    /\ assigned[u] # NoPlace
    /\ assigned' = [assigned EXCEPT ![u] = NoPlace]
    /\ UNCHANGED <<application, appSeq, organization, orgSeq, replaced, session,
                   families, req>>

\* loadUserByUsername: the token keeps these details until the next login.
LogIn(u) ==
    /\ session' = [session EXCEPT ![u] = assigned[u]]
    /\ UNCHANGED <<network, families, req>>

\* GET /oauth/revoke-token; a request the token came with goes on.
LogOut(u) ==
    /\ session[u] # None
    /\ session' = [session EXCEPT ![u] = None]
    /\ UNCHANGED <<network, families, req>>

-----------------------------------------------------------------------------
(* FamilyServiceImpl.createFamilyFromSnapshot, in the transaction of        *)
(* addSurveySnapshot.                                                       *)

\* Mutant: the family stays in the application of the login.
PlaceByLogin(s, o) == [app |-> s.app, org |-> o]

\* The application of the login gives way to that of the organization.
PlaceOf(s, o) ==
    [app |-> IF o = Null THEN s.app ELSE organization[o], org |-> o]

\* Mutant: an organization that does not exist is not noticed.
StartFamilyAnywhere(w, u, o) ==
    /\ Free(w) /\ session[u] # None
    /\ famSeq < MaxFamilies
    /\ famSeq' = famSeq + 1
    /\ Set(w, [Idle EXCEPT !.op = "createFamily", !.details = session[u],
                 !.place = PlaceOf(session[u], o), !.family = famSeq + 1])
    /\ UNCHANGED <<network, session, family>>

\* An organization that does not exist is a NullPointerException; the id is
\* drawn by persist().
StartFamily(w, u, o) ==
    /\ Free(w) /\ session[u] # None
    /\ o # Null => organization[o] # None
    /\ famSeq < MaxFamilies
    /\ famSeq' = famSeq + 1
    /\ Set(w, [Idle EXCEPT !.op = "createFamily", !.details = session[u],
                 !.place = PlaceOf(session[u], o), !.family = famSeq + 1])
    /\ UNCHANGED <<network, session, family>>

\* Mutant: setActive(true) is missing.
InsertInactive(w) ==
    /\ Serves(w, "createFamily")
    /\ family' = IF PlaceExists(req[w].place)
                 THEN [family EXCEPT ![req[w].family] =
                         [place |-> req[w].place, active |-> FALSE]]
                 ELSE family
    /\ Finish(w)
    /\ UNCHANGED <<network, session, famSeq>>

\* The flush: fails when the application or the organization is gone.
InsertFamily(w) ==
    /\ Serves(w, "createFamily")
    /\ family' = IF PlaceExists(req[w].place)
                 THEN [family EXCEPT ![req[w].family] =
                         [place |-> req[w].place, active |-> TRUE]]
                 ELSE family
    /\ Finish(w)
    /\ UNCHANGED <<network, session, famSeq>>

-----------------------------------------------------------------------------
(* The other writers of a family.                                          *)

\* POST /families: no association is copied.
AddFamily(active) ==
    /\ famSeq < MaxFamilies
    /\ famSeq' = famSeq + 1
    /\ family' = [family EXCEPT ![famSeq + 1] =
                    [place |-> NoPlace, active |-> active]]
    /\ UNCHANGED <<network, session, req>>

OverwriteFamily(f, active) ==
    /\ family[f] # None
    /\ family' = [family EXCEPT ![f] = [place |-> NoPlace, active |-> active]]
    /\ UNCHANGED <<network, session, famSeq, req>>

\* DELETE /families/{id} loads a row; one that is inactive is not dirty after
\* setActive(false) and is not written.
FindFamily(w, f) ==
    /\ Free(w)
    /\ family[f] # None /\ family[f].active
    /\ Set(w, [Idle EXCEPT !.op = "saveFamily", !.family = f,
                           !.place = family[f].place])
    /\ UNCHANGED <<network, session, families>>

\* Mutant: no foreign keys from family.
SaveFamilyUnchecked(w) ==
    LET f == req[w].family IN
    /\ Serves(w, "saveFamily")
    /\ family' = IF family[f] = None THEN family
                 ELSE [family EXCEPT ![f] =
                         [place |-> req[w].place, active |-> FALSE]]
    /\ Finish(w)
    /\ UNCHANGED <<network, session, famSeq>>

\* All columns are written; the place as it was loaded must still exist.
SaveFamily(w) ==
    LET f == req[w].family IN
    /\ Serves(w, "saveFamily")
    /\ family' = IF family[f] # None /\ PlaceExists(req[w].place)
                 THEN [family EXCEPT ![f] =
                         [place |-> req[w].place, active |-> FALSE]]
                 ELSE family
    /\ Finish(w)
    /\ UNCHANGED <<network, session, famSeq>>

\* DELETE of the last snapshot, see module Snapshots.
DeleteFamily(f) ==
    /\ family[f] # None
    /\ family' = [family EXCEPT ![f] = None]
    /\ UNCHANGED <<network, session, famSeq, req>>

\* The connection or the server goes away; a PUT that changes nothing ends
\* like this too.
Abort(w) ==
    /\ ~Free(w)
    /\ Finish(w)
    /\ UNCHANGED <<network, session, families>>

Next ==
    \/ AddApplication \/ AddOrganization
    \/ \E a \in AppIds : DeleteApplication(a)
    \/ \E o \in OrgIds : OverwriteOrganization(o) \/ DeleteOrganization(o)
    \/ \E u \in Users : Unassign(u) \/ LogIn(u) \/ LogOut(u)
    \/ \E active \in BOOLEAN :
         \/ AddFamily(active)
         \/ \E f \in FamilyIds : OverwriteFamily(f, active)
    \/ \E f \in FamilyIds : DeleteFamily(f)
    \/ \E w \in Workers :
         \/ \E o \in OrgIds : FindOrganization(w, o)
         \/ SaveOrganization(w)
         \/ \E u \in Users, o \in OrgIds \cup {Null} : StartFamily(w, u, o)
         \/ InsertFamily(w)
         \/ \E f \in FamilyIds : FindFamily(w, f)
         \/ SaveFamily(w)
         \/ Abort(w)

Spec == Init /\ [][Next]_vars

-----------------------------------------------------------------------------
(* What is listed and counted.                                             *)

\* FamilySpecification.byFilter: inner joins, so NULL matches no filter.
ByFilter(a, o) ==
    {f \in FamilyIds : /\ family[f] # None /\ family[f].active
                       /\ a # Null => family[f].place.app = a
                       /\ o # Null => family[f].place.org = o}

\* loadFilterByDetails: the login's application always, and its organization
\* before the one that was asked for.
Listing(s, o) == ByFilter(s.app, IF s.org # Null THEN s.org ELSE o)

Active(o) == {f \in FamilyIds :
    family[f] # None /\ family[f].active /\ family[f].place.org = o}

-----------------------------------------------------------------------------
(* Properties                                                              *)

(* Every table and every request holds what its columns allow.             *)
TypeOK ==
    /\ application \in SUBSET AppIds
    /\ appSeq \in 0 .. MaxApplications
    /\ organization \in [OrgIds -> AppIds \cup {Null, None}]
    /\ orgSeq \in 0 .. MaxOrganizations
    /\ assigned \in [Users -> Place]
    /\ session \in [Users -> Place \cup {None}]
    /\ family \in [FamilyIds -> FamilyRow \cup {None}]
    /\ famSeq \in 0 .. MaxFamilies
    /\ req \in [Workers -> Request]
    /\ replaced \in SUBSET OrgIds

(* Rows that were loaded before an application or organization was deleted  *)
(* are written after it: still nobody belongs to one that is gone.          *)
ReferentialIntegrity ==
    /\ \A o \in OrgIds : organization[o] \in application \cup {Null, None}
    /\ \A u \in Users : PlaceExists(assigned[u])
    /\ \A f \in FamilyIds : family[f] # None => PlaceExists(family[f].place)

(* The place of a family is copied from its organization when it is made    *)
(* and again whenever a stale row of it is written, and the details of a    *)
(* login outlive the assignment they came from.  Yet whoever asks, from the *)
(* login of an organization or from that of the application over it, for    *)
(* an organization that no POST has overwritten is shown all its active     *)
(* families, and a login of any other application none of them.             *)
ListingsExact ==
    \A u \in Users, o \in OrgIds \ replaced :
        /\ organization[o] # None
        /\ session[u] # None /\ session[u].app # Null
        /\ session[u].org \in {o, Null}
        => Listing(session[u], o) =
             IF organization[o] = session[u].app THEN Active(o) ELSE {}

(* A family made for the organization of the login that sends its first     *)
(* snapshot is in the listing of that login as soon as it is stored,        *)
(* whatever happened to the organization, unless a POST has overwritten it. *)
CreatorSeesFamily ==
    [][\A w \in Workers, login \in Place :
         /\ Serves(w, "createFamily") /\ req[w].details = login
         /\ family'[req[w].family] # family[req[w].family]
         /\ req[w].place.org = login.org
         /\ req[w].place.org \notin replaced
         => \E f \in Listing(login, Null)' : f = req[w].family]_vars

=============================================================================
