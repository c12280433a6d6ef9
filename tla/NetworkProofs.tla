---------------------------- MODULE NetworkProofs ----------------------------
(***************************************************************************)
(* Proofs about Network, for every number of threads, users and ids.       *)
(***************************************************************************)
EXTENDS Network, TLAPS

(* The ways a request is made keep it well-typed.                          *)
LEMMA RequestShapes ==
    /\ Idle \in Request
    /\ \A o \in OrgIds, a \in AppIds \cup {Null} :
         [Idle EXCEPT !.op = "saveOrganization", !.org = o, !.app = a] \in Request
    /\ \A d, pl \in Place, f \in FamilyIds :
         [Idle EXCEPT !.op = "createFamily", !.details = d, !.place = pl,
                      !.family = f] \in Request
    /\ \A f \in FamilyIds, pl \in Place :
         [Idle EXCEPT !.op = "saveFamily", !.family = f, !.place = pl] \in Request
BY DEF Idle, Request, Ops, NoPlace, Place

(* A request replaced by a well-typed one.                                 *)
LEMMA SetType ==
    ASSUME req \in [Workers -> Request], NEW w \in Workers,
           NEW r \in Request, Set(w, r)
    PROVE  req' \in [Workers -> Request]
BY DEF Set

(* Every operation leaves the tables, the sessions and the requests within  *)
(* their types.                                                             *)
LEMMA TypeInductive ==
    TypeOK /\ ReferentialIntegrity /\ [Next]_vars => TypeOK'
<1> SUFFICES ASSUME TypeOK, ReferentialIntegrity, [Next]_vars PROVE TypeOK'
  OBVIOUS
<1> USE BoundsAssumption DEF TypeOK, network, families
<1>a. \A w \in Workers : /\ req[w].family \in FamilyIds \cup {None}
                         /\ req[w].place \in Place
                         /\ req[w].app \in AppIds \cup {Null}
  BY DEF Request
<1>b. \A w \in Workers : Finish(w) => req' \in [Workers -> Request]
  BY SetType, RequestShapes DEF Finish
<1>c. NoPlace \in Place
  BY DEF NoPlace, Place
<1>1. CASE AddApplication
  BY <1>1 DEF AddApplication, AppIds
<1>2. ASSUME NEW a \in AppIds, DeleteApplication(a) PROVE TypeOK'
  BY <1>2 DEF DeleteApplication
<1>3. CASE AddOrganization
  BY <1>3 DEF AddOrganization, OrgIds
<1>4. ASSUME NEW o \in OrgIds, OverwriteOrganization(o) \/ DeleteOrganization(o)
      PROVE  TypeOK'
  BY <1>4 DEF OverwriteOrganization, DeleteOrganization
<1>5. ASSUME NEW w \in Workers, NEW o \in OrgIds, FindOrganization(w, o)
      PROVE  TypeOK'
  <2>1. organization[o] \in AppIds \cup {Null}
    BY <1>5 DEF FindOrganization
  <2>2. req' \in [Workers -> Request]
    BY <1>5, <2>1, SetType, RequestShapes DEF FindOrganization
  <2>3. QED
    BY <1>5, <2>2 DEF FindOrganization
<1>6. ASSUME NEW w \in Workers, SaveOrganization(w) PROVE TypeOK'
  BY <1>6, <1>a, <1>b DEF SaveOrganization
<1>7. ASSUME NEW u \in Users, Unassign(u) \/ LogIn(u) \/ LogOut(u) PROVE TypeOK'
  BY <1>7, <1>c DEF Unassign, LogIn, LogOut
<1>8. ASSUME NEW w \in Workers, NEW u \in Users, NEW o \in OrgIds \cup {Null},
             StartFamily(w, u, o)
      PROVE  TypeOK'
  <2>1. famSeq + 1 \in FamilyIds /\ session[u] \in Place
    BY <1>8 DEF StartFamily, FamilyIds
  <2>2. PlaceOf(session[u], o) \in Place
    BY <1>8, <2>1 DEF StartFamily, PlaceOf, Place
  <2>3. req' \in [Workers -> Request]
    BY <1>8, <2>1, <2>2, SetType, RequestShapes DEF StartFamily
  <2>4. QED
    BY <1>8, <2>1, <2>3 DEF StartFamily
<1>9. ASSUME NEW w \in Workers, InsertFamily(w) \/ SaveFamily(w) PROVE TypeOK'
  <2>1. \A active \in BOOLEAN :
          [place |-> req[w].place, active |-> active] \in FamilyRow
    BY <1>a DEF FamilyRow
  <2>2. family' \in [FamilyIds -> FamilyRow \cup {None}]
    BY <1>9, <2>1 DEF InsertFamily, SaveFamily
  <2>3. QED
    BY <1>9, <1>b, <2>2 DEF InsertFamily, SaveFamily
<1>10. ASSUME NEW active \in BOOLEAN,
              \/ AddFamily(active)
              \/ \E f \in FamilyIds : OverwriteFamily(f, active)
       PROVE  TypeOK'
  <2>1. [place |-> NoPlace, active |-> active] \in FamilyRow
    BY <1>c DEF FamilyRow
  <2>2. CASE AddFamily(active)
    <3>1. famSeq' \in 0 .. MaxFamilies
      BY <2>2 DEF AddFamily
    <3>2. family' \in [FamilyIds -> FamilyRow \cup {None}]
      BY <2>1, <2>2 DEF AddFamily
    <3>3. QED
      BY <2>2, <3>1, <3>2 DEF AddFamily
  <2>3. ASSUME NEW f \in FamilyIds, OverwriteFamily(f, active) PROVE TypeOK'
    BY <2>1, <2>3 DEF OverwriteFamily
  <2>4. QED
    BY <1>10, <2>2, <2>3
<1>11. ASSUME NEW f \in FamilyIds, DeleteFamily(f) PROVE TypeOK'
  BY <1>11 DEF DeleteFamily
<1>12. ASSUME NEW w \in Workers, NEW f \in FamilyIds, FindFamily(w, f) PROVE TypeOK'
  <2>1. family[f].place \in Place
    BY <1>12 DEF FindFamily, FamilyRow
  <2>2. req' \in [Workers -> Request]
    BY <1>12, <2>1, SetType, RequestShapes DEF FindFamily
  <2>3. QED
    BY <1>12, <2>2 DEF FindFamily
<1>13. ASSUME NEW w \in Workers, Abort(w) PROVE TypeOK'
  BY <1>13, <1>b DEF Abort
<1>14. CASE UNCHANGED vars
  BY <1>14 DEF vars
<1>15. QED
  BY <1>1, <1>2, <1>3, <1>4, <1>5, <1>6, <1>7, <1>8, <1>9, <1>10, <1>11, <1>12,
     <1>13, <1>14 DEF Next

(* No interleaving of the calls leaves a row that refers to a deleted one. *)
LEMMA IntegrityInductive ==
    TypeOK /\ ReferentialIntegrity /\ [Next]_vars => ReferentialIntegrity'
<1> SUFFICES ASSUME TypeOK, ReferentialIntegrity, [Next]_vars
             PROVE  ReferentialIntegrity'
  OBVIOUS
<1> USE BoundsAssumption, SentinelAssumption
<1>a. ASSUME UNCHANGED <<assigned, family>>,
             \A a \in application : ApplicationReferenced(a) => a \in application',
             \A o \in OrgIds : organization[o] # None /\ OrganizationReferenced(o)
                                 => organization'[o] # None,
             \A o \in OrgIds : organization'[o] \in application' \cup {Null, None}
      PROVE  ReferentialIntegrity'
  <2>1. \A u \in Users : PlaceExists(assigned[u])'
    BY <1>a DEF ReferentialIntegrity, PlaceExists, TypeOK, Place,
                ApplicationReferenced, OrganizationReferenced
  <2>2. \A f \in FamilyIds : family[f] # None => PlaceExists(family[f].place)'
    BY <1>a DEF ReferentialIntegrity, PlaceExists, TypeOK, Place, FamilyRow,
                ApplicationReferenced, OrganizationReferenced
  <2>3. QED
    BY <1>a, <2>1, <2>2 DEF ReferentialIntegrity
<1>b. ASSUME UNCHANGED <<application, organization, assigned>>,
             \A f \in FamilyIds :
               family'[f] = family[f] \/ family'[f] = None
                 \/ PlaceExists(family'[f].place)
      PROVE  ReferentialIntegrity'
  BY <1>b DEF ReferentialIntegrity, PlaceExists
<1>c. PlaceExists(NoPlace)
  BY DEF PlaceExists, NoPlace
<1>1. CASE AddApplication
  BY <1>1, <1>a DEF AddApplication, families, ReferentialIntegrity
<1>2. ASSUME NEW a \in AppIds, DeleteApplication(a) PROVE ReferentialIntegrity'
  <2>1. \A o \in OrgIds : organization[o] # a
    BY <1>2 DEF DeleteApplication, ApplicationReferenced
  <2>2. QED
    BY <1>2, <1>a, <2>1 DEF DeleteApplication, families, ReferentialIntegrity
<1>3. CASE AddOrganization
  BY <1>3, <1>a DEF AddOrganization, families, ReferentialIntegrity, TypeOK, OrgIds
<1>4. ASSUME NEW o \in OrgIds, OverwriteOrganization(o) \/ DeleteOrganization(o)
      PROVE  ReferentialIntegrity'
  BY <1>4, <1>a DEF OverwriteOrganization, DeleteOrganization, families,
                    ReferentialIntegrity, TypeOK
<1>5. ASSUME NEW w \in Workers, SaveOrganization(w) PROVE ReferentialIntegrity'
  <2>1. \A o \in OrgIds :
          \/ organization'[o] = organization[o]
          \/ organization'[o] = req[w].app /\ req[w].app \in application \cup {Null}
    BY <1>5 DEF SaveOrganization, TypeOK
  <2>2. None \notin application \cup {Null}
    <3>1. \A a \in application : a \in Int
      BY DEF TypeOK, AppIds
    <3>2. QED
      BY <3>1
  <2>3. UNCHANGED <<application, assigned, family>>
    BY <1>5 DEF SaveOrganization, families
  <2>4. \A o \in OrgIds : organization'[o] \in application \cup {Null, None}
    BY <2>1 DEF ReferentialIntegrity
  <2>5. \A o \in OrgIds : organization[o] # None => organization'[o] # None
    BY <2>1, <2>2
  <2>6. QED
    BY <1>a, <2>3, <2>4, <2>5
<1>6. ASSUME NEW u \in Users, Unassign(u) PROVE ReferentialIntegrity'
  <2>1. \A v \in Users : assigned'[v] = assigned[v] \/ assigned'[v] = NoPlace
    BY <1>6 DEF Unassign, TypeOK
  <2>2. UNCHANGED <<application, organization, family>>
    BY <1>6 DEF Unassign, families
  <2>3. QED
    BY <1>c, <2>1, <2>2 DEF ReferentialIntegrity, PlaceExists
<1>7. ASSUME NEW w \in Workers, InsertFamily(w) \/ SaveFamily(w)
      PROVE  ReferentialIntegrity'
  <2>1. \A f \in FamilyIds :
          family'[f] = family[f] \/ PlaceExists(family'[f].place)
    BY <1>7 DEF InsertFamily, SaveFamily, TypeOK
  <2>2. QED
    BY <1>7, <1>b, <2>1 DEF InsertFamily, SaveFamily, network
<1>8. ASSUME NEW active \in BOOLEAN,
             \/ AddFamily(active)
             \/ \E f \in FamilyIds : OverwriteFamily(f, active)
      PROVE  ReferentialIntegrity'
  <2>1. \A f \in FamilyIds :
          family'[f] = family[f] \/ PlaceExists(family'[f].place)
    BY <1>8, <1>c DEF AddFamily, OverwriteFamily, TypeOK
  <2>2. QED
    BY <1>8, <1>b, <2>1 DEF AddFamily, OverwriteFamily, network
<1>9. ASSUME NEW f \in FamilyIds, DeleteFamily(f) PROVE ReferentialIntegrity'
  <2>1. \A g \in FamilyIds : family'[g] = family[g] \/ family'[g] = None
    BY <1>9 DEF DeleteFamily, TypeOK
  <2>2. QED
    BY <1>9, <1>b, <2>1 DEF DeleteFamily, network
<1>10. CASE UNCHANGED <<application, organization, assigned, family>>
  BY <1>10, <1>b
<1>11. QED
  BY <1>1, <1>2, <1>3, <1>4, <1>5, <1>6, <1>7, <1>8, <1>9, <1>10
     DEF Next, FindOrganization, LogIn, LogOut, StartFamily, FindFamily, Abort,
         vars, network, families

-----------------------------------------------------------------------------
(* Where a place names an organization, its application is the one of that  *)
(* organization, as long as that exists and no POST has overwritten it.     *)
SoundIn(pl, orgs, seq, old) ==
    pl.org # Null =>
        /\ pl.org <= seq
        /\ pl.org \notin old /\ orgs[pl.org] # None => pl.app = orgs[pl.org]

Sound(pl) == SoundIn(pl, organization, orgSeq, replaced)

\* What the request of worker w remembers.
Remembers(w) ==
    /\ Sound(req[w].place) /\ Sound(req[w].details)
    /\ Serves(w, "saveOrganization") =>
         /\ req[w].org \in OrgIds /\ req[w].org <= orgSeq
         /\ req[w].org \notin replaced /\ organization[req[w].org] # None
              => req[w].app = organization[req[w].org]
    /\ Serves(w, "createFamily") =>
         /\ req[w].family \in FamilyIds /\ req[w].family <= famSeq
         /\ family[req[w].family] = None
         /\ \A v \in Workers \ {w} :
              Serves(v, "createFamily") => req[v].family # req[w].family
         /\ req[w].place.org = Null => req[w].place.app = req[w].details.app

(* Every place, in the tables, in the tokens and in the requests, is sound. *)
PlacesSound ==
    /\ \A o \in OrgIds : o > orgSeq => organization[o] = None
    /\ \A f \in FamilyIds : f > famSeq => family[f] = None
    /\ \A u \in Users : /\ Sound(assigned[u])
                        /\ session[u] # None => Sound(session[u])
    /\ \A f \in FamilyIds : family[f] # None => Sound(family[f].place)
    /\ \A w \in Workers : Remembers(w)

(* An organization that was not overwritten keeps its application, and an   *)
(* id is never given to another one.                                        *)
Stable ==
    /\ orgSeq' >= orgSeq /\ replaced \subseteq replaced'
    /\ \A o \in OrgIds : o <= orgSeq /\ organization'[o] # None /\ o \notin replaced'
                           => organization'[o] = organization[o]

(* A sound place stays sound.                                              *)
LEMMA SoundKept ==
    ASSUME TypeOK, TypeOK', Stable, NEW pl \in Place,
           SoundIn(pl, organization, orgSeq, replaced)
    PROVE  SoundIn(pl, organization', orgSeq', replaced')
<1>1. pl.org \in OrgIds \cup {Null} /\ orgSeq \in Int /\ orgSeq' \in Int
  BY BoundsAssumption DEF TypeOK, Place
<1>2. pl.org # Null => pl.org <= orgSeq'
  BY <1>1, SentinelAssumption DEF SoundIn, Stable, OrgIds
<1>3. QED
  BY <1>1, <1>2 DEF SoundIn, Stable

(* Every step leaves the organizations stable.                             *)
LEMMA StepsStable ==
    TypeOK /\ PlacesSound /\ [Next]_vars => Stable
<1> SUFFICES ASSUME TypeOK, PlacesSound, [Next]_vars PROVE Stable
  OBVIOUS
<1> USE BoundsAssumption DEF Stable
<1>0. orgSeq \in Int
  BY DEF TypeOK
<1>1. CASE AddOrganization
  BY <1>0, <1>1 DEF AddOrganization, TypeOK, OrgIds
<1>2. ASSUME NEW o \in OrgIds, OverwriteOrganization(o) \/ DeleteOrganization(o)
      PROVE  Stable
  BY <1>0, <1>2 DEF OverwriteOrganization, DeleteOrganization, TypeOK
<1>3. ASSUME NEW w \in Workers, SaveOrganization(w) PROVE Stable
  <2>1. Remembers(w)
    BY DEF PlacesSound
  <2>2. UNCHANGED <<orgSeq, replaced>>
    BY <1>3 DEF SaveOrganization
  <2>3. \A o \in OrgIds :
          \/ organization'[o] = organization[o]
          \/ o = req[w].org /\ organization[o] # None /\ organization'[o] = req[w].app
    BY <1>3 DEF SaveOrganization, TypeOK
  <2>4. QED
    BY <1>0, <1>3, <2>1, <2>2, <2>3 DEF Remembers, SaveOrganization
<1>4. CASE UNCHANGED <<organization, orgSeq, replaced>>
  BY <1>0, <1>4
<1>5. QED
  BY <1>1, <1>2, <1>3, <1>4
     DEF Next, AddApplication, DeleteApplication, FindOrganization, Unassign, LogIn,
         LogOut, StartFamily, InsertFamily, AddFamily, OverwriteFamily, FindFamily,
         SaveFamily, DeleteFamily, Abort, vars, network, families

(* What the requests remember stays so.                                    *)
LEMMA RequestsInductive ==
    TypeOK /\ TypeOK' /\ PlacesSound /\ [Next]_vars
        => \A w \in Workers : Remembers(w)'
<1> SUFFICES ASSUME TypeOK, TypeOK', PlacesSound, [Next]_vars
             PROVE  \A w \in Workers : Remembers(w)'
  OBVIOUS
<1> USE BoundsAssumption, SentinelAssumption
<1> DEFINE Now(pl)  == SoundIn(pl, organization, orgSeq, replaced)
           Next1(pl) == SoundIn(pl, organization', orgSeq', replaced')
<1>a. Stable
  BY StepsStable
<1>b. \A pl \in Place : Now(pl) => Next1(pl)
  BY <1>a, SoundKept
<1>c. NoPlace \in Place /\ Next1(NoPlace)
  BY DEF NoPlace, Place, SoundIn
<1>d. /\ orgSeq \in Int /\ orgSeq' \in Int /\ famSeq \in Int /\ famSeq' \in Int
      /\ \A w \in Workers : /\ req[w] \in Request
                            /\ req[w].place \in Place /\ req[w].details \in Place
                            /\ req[w].family \in FamilyIds \cup {None}
                            /\ req[w].org \in OrgIds \cup {None}
  BY DEF TypeOK, Request
<1>r. \A v \in Workers : Remembers(v)
  BY DEF PlacesSound
<1>i. ASSUME NEW w \in Workers, Finish(w) PROVE Remembers(w)'
  <2>1. req'[w] = Idle
    BY <1>i DEF Finish, Set, TypeOK
  <2>2. Idle.place = NoPlace /\ Idle.details = NoPlace /\ Idle.op = "none"
    BY DEF Idle
  <2>3. QED
    BY <1>c, <2>1, <2>2 DEF Remembers, Serves, Sound
<1>e. ASSUME NEW v \in Workers, req'[v] = req[v], famSeq <= famSeq',
             Serves(v, "createFamily") =>
               /\ family'[req[v].family] = None
               /\ \A u \in Workers \ {v} :
                    \/ req'[u] = req[u]
                    \/ req'[u].op # "createFamily"
                    \/ req'[u].family # req[v].family
      PROVE  Remembers(v)'
  <2>1. Remembers(v)
    BY <1>r
  <2>2. Next1(req[v].place) /\ Next1(req[v].details)
    BY <1>b, <1>d, <2>1 DEF Remembers, Sound
  <2>3. Serves(v, "saveOrganization") =>
          /\ req[v].org \in OrgIds /\ req[v].org <= orgSeq'
          /\ req[v].org \notin replaced' /\ organization'[req[v].org] # None
               => req[v].app = organization'[req[v].org]
    BY <1>a, <1>d, <2>1 DEF Remembers, Stable, OrgIds
  <2>4. Serves(v, "createFamily") =>
          /\ req[v].family \in FamilyIds /\ req[v].family <= famSeq'
          /\ family'[req[v].family] = None
          /\ \A u \in Workers \ {v} :
               req'[u].op = "createFamily" => req'[u].family # req[v].family
          /\ req[v].place.org = Null => req[v].place.app = req[v].details.app
    BY <1>d, <1>e, <2>1 DEF Remembers, FamilyIds, Serves
  <2>5. QED
    BY <1>e, <2>2, <2>3, <2>4 DEF Remembers, Serves, Sound
<1>f. ASSUME NEW w \in Workers, Finish(w), famSeq <= famSeq',
             \A v \in Workers \ {w} : Serves(v, "createFamily")
                                        => family'[req[v].family] = None
      PROVE  \A v \in Workers : Remembers(v)'
  <2>1. \A v \in Workers : req'[v] = IF v = w THEN Idle ELSE req[v]
    BY <1>f DEF Finish, Set, TypeOK
  <2>2. Idle.op # "createFamily"
    BY DEF Idle
  <2>3. ASSUME NEW v \in Workers, v # w PROVE Remembers(v)'
    BY <1>e, <1>f, <2>1, <2>2, <2>3
  <2>4. QED
    BY <1>i, <1>f, <2>3
<1>g. ASSUME UNCHANGED req, famSeq <= famSeq',
             \A v \in Workers : Serves(v, "createFamily")
                                => family'[req[v].family] = None
      PROVE  \A v \in Workers : Remembers(v)'
  BY <1>e, <1>g
<1>n. \A v \in Workers : Serves(v, "createFamily") =>
        /\ family[req[v].family] = None
        /\ req[v].family \in FamilyIds /\ req[v].family <= famSeq
  BY <1>r DEF Remembers
<1>1. CASE UNCHANGED <<req, family, famSeq>>
  BY <1>1, <1>d, <1>g, <1>n
<1>2. ASSUME NEW active \in BOOLEAN, AddFamily(active)
      PROVE  \A v \in Workers : Remembers(v)'
  <2>1. \A f \in FamilyIds : f <= famSeq => family'[f] = family[f]
    BY <1>2, <1>d DEF AddFamily, TypeOK
  <2>2. UNCHANGED req /\ famSeq <= famSeq'
    BY <1>2, <1>d DEF AddFamily
  <2>3. QED
    BY <1>g, <1>n, <2>1, <2>2
<1>3. ASSUME NEW f \in FamilyIds,
             DeleteFamily(f) \/ \E active \in BOOLEAN : OverwriteFamily(f, active)
      PROVE  \A v \in Workers : Remembers(v)'
  <2>1. \A g \in FamilyIds : family[g] = None => family'[g] = None
    BY <1>3 DEF DeleteFamily, OverwriteFamily, TypeOK
  <2>2. UNCHANGED req /\ famSeq <= famSeq'
    BY <1>3, <1>d DEF DeleteFamily, OverwriteFamily
  <2>3. QED
    BY <1>g, <1>n, <2>1, <2>2
<1>4. ASSUME NEW w \in Workers, InsertFamily(w)
      PROVE  \A v \in Workers : Remembers(v)'
  <2>1. \A v \in Workers \ {w} : Serves(v, "createFamily")
                                    => req[v].family # req[w].family
    BY <1>4, <1>r DEF InsertFamily, Remembers
  <2>2. \A g \in FamilyIds : g # req[w].family => family'[g] = family[g]
    BY <1>4 DEF InsertFamily, TypeOK
  <2>3. Finish(w) /\ famSeq <= famSeq'
    BY <1>4, <1>d DEF InsertFamily
  <2>4. QED
    BY <1>f, <1>n, <2>1, <2>2, <2>3
<1>5. ASSUME NEW w \in Workers, SaveFamily(w)
      PROVE  \A v \in Workers : Remembers(v)'
  <2>1. \A g \in FamilyIds : family[g] = None => family'[g] = None
    BY <1>5 DEF SaveFamily, TypeOK
  <2>2. Finish(w) /\ famSeq <= famSeq'
    BY <1>5, <1>d DEF SaveFamily
  <2>3. QED
    BY <1>f, <1>n, <2>1, <2>2
<1>6. ASSUME NEW w \in Workers, SaveOrganization(w) \/ Abort(w)
      PROVE  \A v \in Workers : Remembers(v)'
  <2>1. Finish(w) /\ UNCHANGED <<family, famSeq>>
    BY <1>6 DEF SaveOrganization, Abort, families
  <2>2. QED
    BY <1>d, <1>f, <1>n, <2>1
<1>h. ASSUME NEW w \in Workers, NEW r \in Request, Set(w, r), Remembers(w)',
             r.op = "createFamily" => r.family = famSeq + 1,
             UNCHANGED family, famSeq <= famSeq'
      PROVE  \A v \in Workers : Remembers(v)'
  <2>1. \A v \in Workers : req'[v] = IF v = w THEN r ELSE req[v]
    BY <1>h DEF Set, TypeOK
  <2>2. \A v \in Workers : Serves(v, "createFamily") => req[v].family # famSeq + 1
    BY <1>d, <1>n DEF FamilyIds
  <2>3. ASSUME NEW v \in Workers, v # w PROVE Remembers(v)'
    BY <1>e, <1>h, <1>n, <2>1, <2>2, <2>3
  <2>4. QED
    BY <1>h, <2>3
<1>7. ASSUME NEW w \in Workers, NEW o \in OrgIds, FindOrganization(w, o)
      PROVE  \A v \in Workers : Remembers(v)'
  <2> DEFINE r == [Idle EXCEPT !.op = "saveOrganization", !.org = o,
                               !.app = organization[o]]
  <2>1. /\ Set(w, r) /\ organization[o] # None /\ o <= orgSeq
        /\ UNCHANGED <<organization, orgSeq, replaced, family, famSeq>>
    BY <1>7, <1>d DEF FindOrganization, network, families, PlacesSound, OrgIds
  <2>2. r \in Request
    BY <2>1, RequestShapes DEF TypeOK
  <2>3. /\ r.op = "saveOrganization" /\ r.org = o /\ r.app = organization[o]
        /\ r.place = NoPlace /\ r.details = NoPlace
    BY DEF Idle
  <2>4. req'[w] = r
    BY <2>1 DEF Set, TypeOK
  <2> HIDE DEF r
  <2>5. Remembers(w)'
    BY <1>c, <2>1, <2>3, <2>4 DEF Remembers, Serves, Sound
  <2>6. QED
    BY <1>d, <1>h, <2>1, <2>2, <2>3, <2>5
<1>8. ASSUME NEW w \in Workers, NEW f \in FamilyIds, FindFamily(w, f)
      PROVE  \A v \in Workers : Remembers(v)'
  <2> DEFINE r == [Idle EXCEPT !.op = "saveFamily", !.family = f,
                               !.place = family[f].place]
  <2>1. /\ Set(w, r) /\ family[f] # None
        /\ UNCHANGED <<organization, orgSeq, replaced, family, famSeq>>
    BY <1>8 DEF FindFamily, network, families
  <2>2. family[f].place \in Place /\ Next1(family[f].place)
    BY <1>b, <2>1 DEF TypeOK, FamilyRow, PlacesSound, Sound
  <2>3. r \in Request
    BY <2>2, RequestShapes
  <2>4. r.op = "saveFamily" /\ r.place = family[f].place /\ r.details = NoPlace
    BY DEF Idle
  <2>5. req'[w] = r
    BY <2>1 DEF Set, TypeOK
  <2> HIDE DEF r
  <2>6. Remembers(w)'
    BY <1>c, <2>2, <2>4, <2>5 DEF Remembers, Serves, Sound
  <2>7. QED
    BY <1>d, <1>h, <2>1, <2>3, <2>4, <2>6
<1>9. ASSUME NEW w \in Workers, NEW u \in Users, NEW o \in OrgIds \cup {Null},
             StartFamily(w, u, o)
      PROVE  \A v \in Workers : Remembers(v)'
  <2>1. /\ session[u] \in Place
        /\ o # Null => organization[o] # None
        /\ famSeq' = famSeq + 1 /\ famSeq + 1 \in FamilyIds
        /\ UNCHANGED <<organization, orgSeq, replaced, family>>
    BY <1>9, <1>d DEF StartFamily, network, TypeOK, FamilyIds
  <2>2. PICK pl \in Place :
          /\ pl = PlaceOf(session[u], o) /\ pl.org = o
          /\ pl.app = IF o = Null THEN session[u].app ELSE organization[o]
    <3>1. o # Null => organization[o] \in AppIds
                        \/ organization[o] = Null
      BY <2>1 DEF TypeOK
    <3>2. session[u].app \in AppIds \cup {Null}
      BY <2>1 DEF Place
    <3>3. PlaceOf(session[u], o) \in Place
      BY <3>1, <3>2 DEF PlaceOf, Place
    <3>4. QED
      BY <3>3 DEF PlaceOf
  <2>3. PICK r \in Request :
          /\ r.op = "createFamily" /\ r.place = pl /\ r.details = session[u]
          /\ r.family = famSeq + 1 /\ Set(w, r)
    <3> DEFINE r == [Idle EXCEPT !.op = "createFamily", !.details = session[u],
                                 !.place = pl, !.family = famSeq + 1]
    <3>1. r \in Request
      BY <2>1, RequestShapes
    <3>2. /\ r.op = "createFamily" /\ r.place = pl /\ r.details = session[u]
          /\ r.family = famSeq + 1
      BY DEF Idle
    <3>3. Set(w, r)
      BY <1>9, <2>2 DEF StartFamily
    <3> HIDE DEF r
    <3>4. QED
      BY <3>1, <3>2, <3>3
  <2>4. o # Null => o <= orgSeq
    <3>1. \A k \in OrgIds : k > orgSeq => organization[k] = None
      BY DEF PlacesSound
    <3>2. QED
      BY <1>d, <2>1, <3>1 DEF OrgIds
  <2>5. Next1(pl) /\ Next1(session[u])
    <3>1. session[u] # None
      BY <1>9 DEF StartFamily
    <3>2. Now(session[u])
      BY <3>1 DEF PlacesSound, Sound
    <3>3. Next1(session[u])
      BY <1>b, <2>1, <3>2
    <3>4. Next1(pl)
      BY <2>1, <2>2, <2>4 DEF SoundIn
    <3>5. QED
      BY <3>3, <3>4
  <2>6. \A v \in Workers : req'[v] = IF v = w THEN r ELSE req[v]
    <3>1. req \in [Workers -> Request]
      BY DEF TypeOK
    <3>2. QED
      BY <2>3, <3>1 DEF Set
  <2>7. \A v \in Workers : Serves(v, "createFamily") => req[v].family # famSeq + 1
    BY <1>d, <1>n DEF FamilyIds
  <2>8. family'[famSeq + 1] = None /\ famSeq <= famSeq'
    BY <1>d, <2>1 DEF PlacesSound
  <2>9. Remembers(w)'
    BY <1>d, <2>1, <2>2, <2>3, <2>5, <2>6, <2>7, <2>8
       DEF Remembers, Serves, Sound
  <2>10. QED
    BY <1>h, <2>1, <2>3, <2>8, <2>9
<1>10. QED
  BY <1>1, <1>2, <1>3, <1>4, <1>5, <1>6, <1>7, <1>8, <1>9
     DEF Next, AddApplication, DeleteApplication, AddOrganization,
         OverwriteOrganization, DeleteOrganization, Unassign, LogIn, LogOut, vars,
         families

(* So do the tables and the tokens.                                        *)
LEMMA TablesInductive ==
    TypeOK /\ TypeOK' /\ PlacesSound /\ [Next]_vars
        => /\ (\A o \in OrgIds : o > orgSeq => organization[o] = None)'
           /\ (\A f \in FamilyIds : f > famSeq => family[f] = None)'
           /\ (\A u \in Users : Sound(assigned[u]))'
           /\ (\A u \in Users : session[u] # None => Sound(session[u]))'
           /\ (\A f \in FamilyIds : family[f] # None => Sound(family[f].place))'
<1> SUFFICES ASSUME TypeOK, TypeOK', PlacesSound, [Next]_vars
             PROVE  /\ (\A o \in OrgIds : o > orgSeq => organization[o] = None)'
                    /\ (\A f \in FamilyIds : f > famSeq => family[f] = None)'
                    /\ (\A u \in Users : Sound(assigned[u]))'
                    /\ (\A u \in Users : session[u] # None => Sound(session[u]))'
                    /\ (\A f \in FamilyIds : family[f] # None
                                               => Sound(family[f].place))'
  OBVIOUS
<1> USE BoundsAssumption, SentinelAssumption
<1> DEFINE Now(pl)   == SoundIn(pl, organization, orgSeq, replaced)
           Next1(pl) == SoundIn(pl, organization', orgSeq', replaced')
           TablesThen ==
             /\ \A f \in FamilyIds : f > famSeq' => family'[f] = None
             /\ \A f \in FamilyIds : family'[f] # None => Next1(family'[f].place)
<1>a. \A pl \in Place : Now(pl) => Next1(pl)
  BY StepsStable, SoundKept
<1>b. NoPlace \in Place /\ Next1(NoPlace)
  BY DEF NoPlace, Place, SoundIn
<1>c. /\ orgSeq \in Int /\ orgSeq' \in Int /\ famSeq \in Int /\ famSeq' \in Int
      /\ \A u \in Users : /\ assigned[u] \in Place
                          /\ session[u] # None => session[u] \in Place
      /\ \A f \in FamilyIds : family[f] # None => family[f].place \in Place
      /\ \A w \in Workers : req[w].place \in Place
  BY DEF TypeOK, FamilyRow, Request
<1>d. /\ \A u \in Users : /\ Next1(assigned[u])
                          /\ session[u] # None => Next1(session[u])
      /\ \A f \in FamilyIds : family[f] # None => Next1(family[f].place)
      /\ \A w \in Workers : Next1(req[w].place)
  BY <1>a, <1>c DEF PlacesSound, Remembers, Sound
<1>1. \A o \in OrgIds : o > orgSeq' => organization'[o] = None
  <2>1. \A o \in OrgIds : o > orgSeq => organization[o] = None
    BY DEF PlacesSound
  <2>2. CASE AddOrganization
    BY <1>c, <2>1, <2>2 DEF AddOrganization, TypeOK, OrgIds
  <2>3. ASSUME UNCHANGED orgSeq,
               \A o \in OrgIds : organization[o] = None => organization'[o] = None
        PROVE  \A o \in OrgIds : o > orgSeq' => organization'[o] = None
    BY <2>1, <2>3
  <2>4. ASSUME NEW o \in OrgIds, OverwriteOrganization(o) \/ DeleteOrganization(o)
        PROVE  \A k \in OrgIds : k > orgSeq' => organization'[k] = None
    BY <2>3, <2>4 DEF OverwriteOrganization, DeleteOrganization, TypeOK
  <2>5. ASSUME NEW w \in Workers, SaveOrganization(w)
        PROVE  \A o \in OrgIds : o > orgSeq' => organization'[o] = None
    BY <2>3, <2>5 DEF SaveOrganization, TypeOK
  <2>6. CASE UNCHANGED <<organization, orgSeq>>
    BY <2>3, <2>6
  <2>7. QED
    BY <2>2, <2>4, <2>5, <2>6
       DEF Next, AddApplication, DeleteApplication, FindOrganization, Unassign, LogIn,
           LogOut, StartFamily, InsertFamily, AddFamily, OverwriteFamily, FindFamily,
           SaveFamily, DeleteFamily, Abort, vars, network, families
<1>2. /\ \A u \in Users : Next1(assigned'[u])
      /\ \A u \in Users : session'[u] # None => Next1(session'[u])
  <2>1. ASSUME NEW u \in Users, Unassign(u) \/ LogIn(u) \/ LogOut(u)
        PROVE  \A v \in Users :
                 /\ assigned'[v] = assigned[v] \/ assigned'[v] = NoPlace
                 /\ \/ session'[v] = session[v] \/ session'[v] = None
                    \/ session'[v] = assigned[v]
    BY <2>1 DEF Unassign, LogIn, LogOut, TypeOK, network
  <2>2. CASE UNCHANGED <<assigned, session>>
    BY <1>d, <2>2
  <2>3. CASE \E u \in Users : Unassign(u) \/ LogIn(u) \/ LogOut(u)
    BY <1>b, <1>d, <2>1, <2>3
  <2>4. QED
    BY <2>2, <2>3
       DEF Next, AddApplication, DeleteApplication, AddOrganization,
           OverwriteOrganization, FindOrganization, SaveOrganization,
           DeleteOrganization, StartFamily, InsertFamily, AddFamily,
           OverwriteFamily, FindFamily, SaveFamily, DeleteFamily, Abort, vars,
           network, families
<1>3. TablesThen
  <2>0. \A f \in FamilyIds : f > famSeq => family[f] = None
    BY DEF PlacesSound
  <2>1. ASSUME famSeq <= famSeq',
               \A f \in FamilyIds :
                 \/ family'[f] = family[f]
                 \/ family'[f] = None
                 \/ f <= famSeq' /\ family'[f].place = NoPlace
                 \/ f <= famSeq' /\ \E w \in Workers : family'[f].place = req[w].place
        PROVE  TablesThen
    BY <1>b, <1>c, <1>d, <2>0, <2>1 DEF FamilyIds
  <2>2. ASSUME NEW w \in Workers, InsertFamily(w) \/ SaveFamily(w)
        PROVE  TablesThen
    <3>1. \A f \in FamilyIds :
            \/ family'[f] = family[f]
            \/ f = req[w].family /\ family'[f].place = req[w].place
      BY <2>2 DEF InsertFamily, SaveFamily, TypeOK
    <3>2. SaveFamily(w) => family' = family \/ family[req[w].family] # None
      BY DEF SaveFamily
    <3>3. InsertFamily(w) => req[w].family <= famSeq
      BY DEF InsertFamily, PlacesSound, Remembers
    <3>4. QED
      BY <1>c, <2>0, <2>1, <2>2, <3>1, <3>2, <3>3
         DEF InsertFamily, SaveFamily, FamilyIds
  <2>3. ASSUME NEW active \in BOOLEAN, AddFamily(active) PROVE TablesThen
    BY <1>c, <2>1, <2>3 DEF AddFamily, TypeOK, FamilyIds
  <2>4. ASSUME NEW f \in FamilyIds, NEW active \in BOOLEAN, OverwriteFamily(f, active)
        PROVE  TablesThen
    <3>1. f <= famSeq
      BY <1>c, <2>0, <2>4 DEF OverwriteFamily, FamilyIds
    <3>2. QED
      BY <1>c, <2>1, <2>4, <3>1 DEF OverwriteFamily, TypeOK
  <2>5. ASSUME NEW f \in FamilyIds, DeleteFamily(f) PROVE TablesThen
    BY <1>c, <2>1, <2>5 DEF DeleteFamily, TypeOK
  <2>6. ASSUME NEW w \in Workers, NEW u \in Users, NEW o \in OrgIds \cup {Null},
               StartFamily(w, u, o)
        PROVE  TablesThen
    BY <1>c, <2>1, <2>6 DEF StartFamily
  <2>7. CASE UNCHANGED <<family, famSeq>>
    BY <1>c, <2>1, <2>7
  <2>8. QED
    BY <2>2, <2>3, <2>4, <2>5, <2>6, <2>7
       DEF Next, AddApplication, DeleteApplication, AddOrganization,
           OverwriteOrganization, FindOrganization, SaveOrganization,
           DeleteOrganization, Unassign, LogIn, LogOut, FindFamily, Abort, vars,
           network, families
<1>4. QED
  BY <1>1, <1>2, <1>3 DEF Sound

-----------------------------------------------------------------------------
IInv == TypeOK /\ ReferentialIntegrity /\ PlacesSound

(* The seed data are consistent.                                           *)
LEMMA InitHolds == Init => IInv
<1> SUFFICES ASSUME Init PROVE IInv
  OBVIOUS
<1> USE BoundsAssumption, SentinelAssumption
<1>0. NoPlace \in Place
  BY DEF NoPlace, Place
<1>1. /\ application \in SUBSET AppIds /\ appSeq \in 0 .. MaxApplications
      /\ orgSeq \in 0 .. MaxOrganizations /\ famSeq \in 0 .. MaxFamilies
      /\ replaced \in SUBSET OrgIds
  BY DEF Init, AppIds
<1>2. /\ organization \in [OrgIds -> application \cup {None}]
      /\ \A o \in OrgIds : organization[o] = None <=> o > orgSeq
  BY DEF Init
<1>3. /\ assigned \in [Users -> Place]
      /\ \A u \in Users :
           /\ assigned[u].app \in application \cup {Null}
           /\ assigned[u].org # Null => /\ organization[assigned[u].org] # None
                                        /\ organization[assigned[u].org] = assigned[u].app
  BY DEF Init
<1>4. /\ session \in [Users -> Place \cup {None}]
      /\ family \in [FamilyIds -> FamilyRow \cup {None}]
      /\ \A u \in Users : session[u] = None
      /\ \A f \in FamilyIds : family[f] = None
  BY DEF Init
<1>5. /\ req \in [Workers -> Request]
      /\ \A w \in Workers : /\ req[w].op = "none"
                            /\ req[w].place = NoPlace /\ req[w].details = NoPlace
  BY RequestShapes DEF Init, Idle
<1>6. TypeOK
  BY <1>1, <1>2, <1>3, <1>4, <1>5 DEF TypeOK
<1>7. ReferentialIntegrity
  BY <1>2, <1>3, <1>4 DEF ReferentialIntegrity, PlaceExists
<1>8. Sound(NoPlace)
  BY DEF Sound, SoundIn, NoPlace
<1>9. \A u \in Users : Sound(assigned[u])
  <2>1. \A u \in Users : assigned[u].org \in OrgIds \cup {Null}
    BY <1>3 DEF Place
  <2>2. QED
    BY <1>1, <1>2, <1>3, <2>1 DEF Sound, SoundIn, OrgIds
<1>10. \A w \in Workers : Remembers(w)
  BY <1>5, <1>8 DEF Remembers, Serves
<1>11. PlacesSound
  BY <1>2, <1>4, <1>9, <1>10 DEF PlacesSound
<1>12. QED
  BY <1>6, <1>7, <1>11 DEF IInv

LEMMA StepsHold == IInv /\ [Next]_vars => IInv'
<1> SUFFICES ASSUME IInv, [Next]_vars PROVE IInv'
  OBVIOUS
<1>1. TypeOK /\ ReferentialIntegrity /\ PlacesSound
  BY DEF IInv
<1>2. TypeOK' /\ ReferentialIntegrity'
  BY <1>1, TypeInductive, IntegrityInductive
<1>3. PlacesSound'
  BY <1>1, <1>2, RequestsInductive, TablesInductive DEF PlacesSound
<1>4. QED
  BY <1>2, <1>3 DEF IInv

(* Every reachable state is consistent.                                    *)
THEOREM Invariance == Spec => []IInv
<1>1. Init => IInv
  BY InitHolds
<1>2. IInv /\ [Next]_vars => IInv'
  BY StepsHold
<1>3. QED
  BY <1>1, <1>2, PTL DEF Spec

(* The tables and the requests stay within their types, however many        *)
(* requests interleave.                                                     *)
THEOREM TypeCorrect == Spec => []TypeOK
<1>1. IInv => TypeOK
  BY DEF IInv
<1>2. QED
  BY <1>1, Invariance, PTL

(* No organization, assignment or family refers to a deleted application or *)
(* organization, whichever rows were loaded before the deletion.            *)
THEOREM IntegrityPreserved == Spec => []ReferentialIntegrity
<1>1. IInv => ReferentialIntegrity
  BY DEF IInv
<1>2. QED
  BY <1>1, Invariance, PTL

(* The listing of an organization, asked for by a login of it or of an      *)
(* application, is exactly its active families or nothing.                  *)
THEOREM ListingsStayExact == Spec => []ListingsExact
<1>1. IInv => ListingsExact
  <2> SUFFICES ASSUME IInv,
                      NEW u \in Users, NEW o \in OrgIds \ replaced,
                      organization[o] # None,
                      session[u] # None, session[u].app # Null,
                      session[u].org \in {o, Null}
               PROVE  Listing(session[u], o) =
                        IF organization[o] = session[u].app THEN Active(o) ELSE {}
    BY DEF ListingsExact
  <2>1. o # Null
    BY SentinelAssumption DEF OrgIds
  <2>2. Listing(session[u], o) =
          {f \in FamilyIds : /\ family[f] # None /\ family[f].active
                             /\ family[f].place.app = session[u].app
                             /\ family[f].place.org = o}
    BY <2>1 DEF Listing, ByFilter
  <2>3. \A f \in FamilyIds : family[f] # None /\ family[f].place.org = o
                               => family[f].place.app = organization[o]
    BY <2>1 DEF IInv, PlacesSound, Sound, SoundIn
  <2>4. QED
    BY <2>2, <2>3 DEF Active
<1>2. QED
  BY <1>1, Invariance, PTL

(* Whoever makes a family for the organization of their login finds it in   *)
(* their listing as soon as it is stored.                                   *)
THEOREM CreatorSees == Spec => CreatorSeesFamily
<1> DEFINE Seen ==
      \A w \in Workers, login \in Place :
         /\ Serves(w, "createFamily") /\ req[w].details = login
         /\ family'[req[w].family] # family[req[w].family]
         /\ req[w].place.org = login.org
         /\ req[w].place.org \notin replaced
         => \E f \in Listing(login, Null)' : f = req[w].family
<1>1. IInv /\ [Next]_vars => [Seen]_vars
  <2> SUFFICES ASSUME IInv, [Next]_vars, NEW w \in Workers, NEW d \in Place,
                      Serves(w, "createFamily"), req[w].details = d,
                      family'[req[w].family] # family[req[w].family],
                      req[w].place.org = d.org,
                      req[w].place.org \notin replaced
               PROVE  \E f \in Listing(d, Null)' : f = req[w].family
    OBVIOUS
  <2> DEFINE f == req[w].family
  <2>0. TypeOK /\ Remembers(w)
    BY DEF IInv, PlacesSound
  <2>1. /\ f \in FamilyIds /\ f <= famSeq /\ famSeq \in Int /\ family[f] = None
        /\ \A v \in Workers \ {w} : Serves(v, "createFamily") => req[v].family # f
    BY <2>0, BoundsAssumption DEF Remembers, TypeOK
  <2>2. InsertFamily(w)
    <3>1. ASSUME NEW v \in Workers, InsertFamily(v) PROVE v = w
      BY <2>0, <2>1, <3>1 DEF InsertFamily, TypeOK
    <3>2. ~ \E v \in Workers : SaveFamily(v)
      BY <2>0, <2>1 DEF SaveFamily, TypeOK
    <3>3. ~ \E active \in BOOLEAN :
              AddFamily(active) \/ \E g \in FamilyIds : OverwriteFamily(g, active)
      <4> DEFINE row(active) == [place |-> NoPlace, active |-> active]
      <4>1. ASSUME NEW g \in FamilyIds, NEW active \in BOOLEAN, g # f
            PROVE  [family EXCEPT ![g] = row(active)][f] = family[f]
        BY <2>0, <2>1, <4>1 DEF TypeOK
      <4>2. ASSUME NEW active \in BOOLEAN PROVE ~AddFamily(active)
        <5>1. famSeq < MaxFamilies => famSeq + 1 \in FamilyIds /\ famSeq + 1 # f
          BY <2>0, <2>1, BoundsAssumption DEF TypeOK, FamilyIds
        <5>2. QED
          BY <4>1, <5>1 DEF AddFamily
      <4>3. ASSUME NEW g \in FamilyIds, NEW active \in BOOLEAN
            PROVE  ~OverwriteFamily(g, active)
        BY <2>1, <4>1 DEF OverwriteFamily
      <4>4. QED
        BY <4>2, <4>3
    <3>4. ~ \E g \in FamilyIds : DeleteFamily(g)
      BY <2>0, <2>1 DEF DeleteFamily, TypeOK
    <3>5. QED
      BY <3>1, <3>2, <3>3, <3>4
         DEF Next, AddApplication, DeleteApplication, AddOrganization,
             OverwriteOrganization, FindOrganization, SaveOrganization,
             DeleteOrganization, Unassign, LogIn, LogOut, StartFamily, FindFamily,
             Abort, vars, network, families
  <2>3. /\ PlaceExists(req[w].place)
        /\ family'[f] = [place |-> req[w].place, active |-> TRUE]
    BY <2>0, <2>1, <2>2 DEF InsertFamily, TypeOK
  <2>4. family'[f] # None
    <3>1. req[w].place \in Place
      BY <2>0 DEF TypeOK, Request
    <3>2. family'[f] \in FamilyRow
      BY <2>3, <3>1 DEF FamilyRow
    <3>3. QED
      BY <3>2, SentinelAssumption
  <2>5. req[w].place.app = d.app
    BY <2>0, <2>1, <2>3 DEF Remembers, Sound, SoundIn, PlaceExists
  <2>6. f \in {g \in FamilyIds :
                 /\ family'[g] # None /\ family'[g].active
                 /\ d.app # Null => family'[g].place.app = d.app
                 /\ d.org # Null => family'[g].place.org = d.org}
    BY <2>1, <2>3, <2>4, <2>5
  <2>7. QED
    BY <2>6 DEF Listing, ByFilter
<1>2. QED
  BY <1>1, Invariance, PTL DEF CreatorSeesFamily, Spec

=============================================================================
