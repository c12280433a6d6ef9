# FP-PSP Server: a TLA+ model of the Poverty Stoplight back end

The server (`src/src/main/java/py/org/fundacionparaguaya/pspserver`, Spring Boot
with Spring Data JPA on PostgreSQL) records families, the surveys they answer
("snapshots"), the priorities they set among the indicators of a snapshot, the
users who visit them, and the network of applications and organizations those
users work for. This directory holds TLA+ modules of its core, the TLC
configurations that check them and the TLAPS proofs about them.

Paths below are relative to that Java package unless they start with `src/`.

## 1. How the program runs, and what is hard about it

Every operation is an HTTP request, handled from start to end by one server
thread. There are no queues, schedulers or messages; all state is in the
database, and threads meet only there.

- **Transactions.** `SnapshotServiceImpl.addSurveySnapshot` is the only
  `@Transactional` service method. Every other method is a sequence of
  repository calls, each of which opens and commits a transaction of its own.
  Whatever a method has learnt from one call may be out of date at the next,
  and a failure between two calls leaves the first one's effect behind.
- **Isolation** is PostgreSQL's default, READ COMMITTED: a transaction sees what
  others have committed by the time of each statement. No entity has a
  `@Version`.
- **Sessions.** The persistence context lives as long as the request (open
  session in view). An entity loaded by one call is still managed at the next:
  saving it writes the whole row as it was loaded plus what the code changed,
  fails when the row is gone, and writes nothing when nothing differs from what
  was loaded. Outside a transaction nothing is flushed, so
  an entity that is changed and not saved never reaches the table.
- **Constraints.** Besides the primary keys the database has only foreign keys,
  all `ON DELETE NO ACTION`. Names, codes and e-mail addresses are not unique.
- **Failures.** An exception ends the request with an error answer
  (`web/error/ExceptionTranslatorAdvice.java`) and rolls back the transaction it
  happened in, not those before it. The process or its connection can go away
  between two calls (action `Abort` of each module).

One action of a module is therefore one repository call together with the Java
code up to the next call; `req[w]` holds what the request of thread `w`
remembers from call to call. Ids come from sequences, which are never rolled
back.

## 2. Inventory

| Component | State | Operations | Depends on | Hard behaviour |
|---|---|---|---|---|
| Snapshots and families (`surveys/services/impl/SnapshotServiceImpl`, `families/services/impl/*`) | tables `family`, `snapshots_economics`, `snapshots_indicators` | POST, DELETE `/snapshots`; POST, PUT, DELETE `/families` | surveys, priorities, network | look-up by code and insert race; deletion in up to six transactions; whole rows written back; what a long history of calls makes of a family |
| Priorities (`surveys/services/impl/SnapshotIndicatorPriorityServiceImpl`) | table `snapshot_indicator_priorities` | add, add list, update, update list, delete, list | snapshots | limit checked and used in two transactions; partial lists; updates against deletions |
| Surveys and answers (`surveys/services/impl/SurveyServiceImpl`, `surveys/validation`, `surveys/mapper`) | table `surveys`, columns and JSON of snapshots | POST, DELETE `/surveys`; check and mapping of a snapshot | property attributes | check against a survey that may be deleted; answers routed by two names and three sections |
| User accounts (`security/services/impl/UserServiceImpl`) | table `users` | POST, PUT, DELETE `/users` | tokens, drafts, snapshots | look-up by name and insert race; PUT is not saved |
| Password reset (`security/services/impl/PasswordResetTokenServiceImpl`) | table `password_reset_token` | reset, validate | users, mail, clock | time arithmetic; stale user row; mail fails after the token is stored |
| Snapshot drafts (`surveys/services/impl/SnapshotDraftServiceImpl`) | table `snapshot_draft` | add, update, delete, list by user and age | users, surveys, policies, clock | whole rows written back over a hand-over or a deletion; users deleted between look-up and insert; a window of eight days |
| Reading snapshots (`SnapshotServiceImpl` lines 141-288, `FamilySnapshotsManagerImpl` 56-83) | columns `created_at` and `id` of `snapshots_economics` | stoplight counts, newest snapshot, family map, the thirty days of a deletion | snapshots, surveys, clock | two definitions of newest; two ways of counting; calendar arithmetic on a clock that is put back |
| Family listings (`families/specifications`, `FamilyServiceImpl` 131-199) | none | list and count by filter and user | network, login | what a user's details let him see |
| Network (`network/services/impl/*`) | tables `applications`, `organizations`, `users_applications` | add, update, delete, dashboards | families | associations that a POST does not copy; deletions against references |
| Roles and login (`security/services/impl/UserRoleServiceImpl`, `UserDetailsServiceImpl`) | table `users_roles`, the details in an access token | add, delete, log in | users, network | details are those of the login until the token expires |
| Terms and policies (`security/services/impl/TermCondPolServiceImpl`) | table `termcondpol` | newest of a type | - | none: nothing writes it |
| Catalogues (`system/services/impl/*`, `PersonServiceImpl`) | activities, cities, countries, parameters, people | add, update, delete | - | add is an upsert, update is not saved |
| Mail, error advice, log filter, configuration, Hibernate types | none | - | - | output and conversions |

What makes each correct, in a sentence: no row refers to a deleted one and no
family is forgotten when its last snapshot goes (snapshots); the limit holds up
to the concurrency and an update never touches another snapshot's priorities
(priorities); a stored snapshot complies with its survey and its answers are
read back as they were sent (surveys); names stay apart up to the concurrency
and a reset rewrites only the row it loaded (accounts); a token lives no longer
than its term (password reset); a draft leaves the listings for good after its
window, stays deleted, and stays with the user it was handed to (drafts); the
newest snapshot is the same whichever way it is asked for, a recent one goes with
its family, and counts of one snapshot agree wherever they are shown (reading);
whoever asks for an organization that no POST has overwritten is shown all its
active families or, from another application, none (network, listings).

`PROJECT.json` lists every component with its status, and under `hazards` each
place of the code where this is at risk.

## 3. Modules

| Module | Models | Lines of code it stands for |
|---|---|---|
| `Snapshots` | families and snapshots, call by call | `SnapshotServiceImpl`, `FamilySnapshotsManagerImpl`, `FamilyServiceImpl`, their entities and repositories |
| `FamilyLife` | the abstract specification of the life of one family, which `Snapshots` implements | what `addSurveySnapshot`, `addFamily` and the two deletions amount to |
| `PriorityTable` | the contract between the services that share the priorities, which both `Snapshots` and `Priorities` implement | what the two sides do to the table `snapshot_indicator_priorities` |
| `Priorities` | the priorities of snapshots, call by call | `SnapshotIndicatorPriorityServiceImpl` and its entity |
| `TokenExpiry` | the arithmetic of a token's expiry date | `PasswordResetTokenServiceImpl` 102-112, 135-139 |
| `Accounts` | users and password reset, call by call, on `TokenExpiry` | `UserServiceImpl`, `PasswordResetTokenServiceImpl` |
| `PasswordDesk` | the abstract specification of accounts, tokens and changed passwords, which `Accounts` implements | what a reset and its validation amount to |
| `Surveys` | survey definitions, the compliance check, the way of the answers | `SurveyServiceImpl`, `surveys/validation`, `surveys/mapper`, `NewSnapshot` |
| `SurveyLedger` | the abstract specification of surveys and what was filled in against them, which `Surveys` implements | what `addSurveySnapshot` and `deleteSurvey` amount to |
| `Network` | applications, organizations, assignments and logins, and the families made and listed under them | `ApplicationServiceImpl`, `OrganizationServiceImpl`, `UserApplicationServiceImpl`, `UserDetailsServiceImpl`, `FamilyServiceImpl`, `FamilySpecification` |
| `Calendar` | the months of `LocalDate` and the day component of `Period.between` | `java.time`, as `FamilySnapshotsManagerImpl` 79-83 uses it (external) |
| `Reading` | which snapshot of a family is the newest, whether it is deleted with the family, and its two counts, on `Calendar` | `FamilySnapshotsManagerImpl` 71-96, `SnapshotServiceImpl` 183-288, `SnapshotEconomicEntity`, `SnapshotEconomicRepository` |
| `Drafts` | the drafts of snapshots, call by call, with their users and the clock | `SnapshotDraftServiceImpl`, `SnapshotDraftMapper`, `SnapshotDraftSpecification`, `SnapshotDraftEntity` |
| `MC...` | instances for TLC: symmetry sets, small inputs | - |
| `...Proofs` | theorems and their TLAPS proofs | - |

The map in `PROJECT.json` gives for every definition the lines it translates.

**Snapshots.** `family`, `economic` and `priority` are the tables, each row
reduced to the columns the operations read or write; an economic row and its
indicator row come and go together (`CascadeType.ALL`). POST `/snapshots` is
`LookupFamily` (check, code, `findByCode`), `PersistNewFamily` or
`PersistInFamily` (ids are drawn) and `CommitSnapshot` (the flush, where the
foreign key to the family is tested). DELETE `/snapshots/{id}` is `FindSnapshot`,
`ListPriorities`, `PurgePriorities`, `DeleteEconomic`, `CountRemaining`,
`DeleteFamilyRow`; DELETE `/families/{id}` is `FindFamily`, `PickNewest`, the same
purge and `DeactivateFamily`, which writes back the row loaded at the start. POST
`/families` with an id overwrites a row (`OverwriteFamily`). Priorities are the
environment here. `lost` is a history variable: families whose clean-up was
aborted.

**FamilyLife** forgets requests, rows and columns. A family is in one of eight
stages (unborn, registered, listed, hidden, closing, abandoned, closed, gone), and
one action moves it for each thing that can happen to it: a snapshot is stored, POST
`/families` writes it, its last snapshot goes, it is deactivated or deleted, a
request in charge of it is cut short or another takes over. `Snapshots` has the
refinement mapping (`Status`): the stage is read off the row of the family, whether
it has snapshots, and whether a request is about to clean it up. `LivesItsLife`
says that every behaviour of `Snapshots` is one of `FamilyLife`. What it rules out
are moves: from gone to anywhere, from listed or hidden to gone, from closed to
listed without POST `/families`, from listed to abandoned without an abort.

**PriorityTable** is what `Snapshots` and `Priorities` assume of each other. Each
has the other as its environment: `Snapshots` one row at a time, `Priorities` one
snapshot at a time. The contract has the moves of both sides: priorities are made
under new ids or moved, all to one snapshot that is there or to none; a snapshot
appears once under its id and goes only when no priority refers to it. Both
modules implement it, so neither relies on an order of events the other does not keep
to. `Snapshots` maps the ids nobody is about to insert (`Settled`) to those that have
been used, `Priorities` its rows to their links (`Links`).

**Priorities.** One action per call of the six operations; snapshots are the
environment. An update loads a row (`FindPriority`, `FindNext`) and writes it
back whole (`SavePriority`). `Limit` is the five of the code. `listed` is a history
variable: rows a POST `.../list` has written.

**Accounts and TokenExpiry.** POST `/users` is `CheckName`, `InsertUser`; a PUT is
never saved and has no action. A reset is `FindUserByEmail`,
`SaveToken`, `SendMail`; its validation `LoadUser`, `FindToken`, `SavePassword`.
`Tick` is the clock. `TokenExpiry` counts time in ticks from a local midnight: the
code reads local time as UTC and the column keeps only the date, so the expiry
is a midnight.

**PasswordDesk** forgets requests, addresses and dates. A clerk gets a permit for one
account against a token of that account that is within its term, and with a
permit changes that account's password and nothing else, once. In the mapping a
permit is a request that stands before its write (`Permits`), so a token may expire between the
check and the write, as it may in the code, but no password is written without
a check, for another user than the token's, together with stale values of other
columns, or after the account went. No action takes a token away, which is why an
account that ever had one stays.

**Surveys.** A submitted snapshot is a set of answers `[section, name, value]`,
a value being the kind the validators tell apart. `Complies` is
`checkSchemaCompliance`; `Static`, `Additional` and `Renamed` are the predicates of
`PropertyAttributeSupport`; `RowOf` deals the answers out to columns and documents
and `ReadBack` is `getAllProperties`. `CheckSnapshot` and `InsertSnapshot` are the
two points of `addSurveySnapshot` at which it sees the survey.

**SurveyLedger** forgets the calls: a snapshot is submitted in one instant, in which
its survey is there and accepts the answers (`Accepted`: they comply, can be stored, and name a person), or
it is refused. A survey is withdrawn only while nothing stored refers to it. The
ledger keeps what was sent, which `Surveys` has in the history variable `sent`.

**Network.** `organization` and `assigned` hold the associations of the two tables,
`session` the details each user's token was issued with. A `Place` is the pair of
application and organization that users and families have. POST and DELETE are
one action each; PUT of an organization is `FindOrganization`, `SaveOrganization`;
a family is made by `StartFamily` (`createFamilyFromSnapshot`: the place is put
together, the id drawn) and `InsertFamily` (the flush, where the foreign keys are
tested), and deactivated by `FindFamily`, `SaveFamily`. `BeanUtils.copyProperties`
copies no property whose type differs, so no POST sets an association: those of
the seed data (`Init`, any consistent ones) are all there are, and a POST with the
id of a row clears them. `replaced` is a history variable: the organizations this
has happened to. `ByFilter` and `Listing` are the families a login is shown.

**Reading.** A snapshot gets its date (`Stamp`, the `@PrePersist`), its id (`Draw`, the
sequence) and its row (`Commit`) at three moments. `seen` and `season` are history:
which snapshots there were, and how often the clock had been put back, when the
date was taken. DELETE `/families/{id}` is `FindFamily`, `PickNewest` (greatest id; is it
recent?), then `DeleteEconomic` or `Spare`. `WithinWindow` is the code's test, on
`PeriodDays` of `Calendar`, which gives the months as their first days, of any
lengths. `CountShown` counts positions of the UI order, as the family map does,
`CountAll` the stored values, as the list of a family's snapshots does; both are
operators over the rows. The clock is local time, so it can be put back.

**Drafts.** POST is `FindOwner` (the mapper's look-up), `Persist` (the `@PrePersist`) and
`Insert`; PUT is `FindDraft`, `FindUser` when it names one, and `Save` or, when
nothing differs from what was loaded, `SaveClean`; DELETE is `FindToDelete`,
`DeleteDraft`. `overtaken` is a history field: the row was written by another
request since this one loaded it. `Listed` is the age limit of the listing.

The modules meet at six places. A priority's foreign key makes `DeleteEconomic`
fail (`Snapshots` has priorities as environment, `Priorities` has snapshots);
`CheckSnapshot` of `Surveys` is the guard that `LookupFamily` of `Snapshots` leaves
open (any code may be submitted); drafts and snapshots refer to users, which
`Accounts` allows to refuse a deletion it would otherwise make; a family's row
is that of `Snapshots` with the columns `Network` is about, whose `StartFamily`,
`SaveFamily` and `DeleteFamily` stand for that module's `PersistNewFamily`,
`DeactivateFamily` and `DeleteFamilyRow`; `Reading` is `Snapshots` for one family
with the dates, which `PickNewest` there leaves open; and `DeleteUser` of `Drafts`
is that of `Accounts` with the foreign key of the drafts.

## 4. Runs

| Run | Instance | Shows |
|---|---|---|
| `snapshots` | 2 threads, 1 code, 2 families, 2 snapshots, 1 priority | types; `ReferentialIntegrity`; `NoStrayFamily`; `RequestsConsistent`; `DuplicatesBounded`; `SnapshotIdentity`; `RetiredForGood`; `KeepsPriorityTable` (the refinement of `PriorityTable`) |
| `snapshots_live` | 2 threads, 1 family, 2 snapshots | `LivesItsLife` (the refinement of `FamilyLife`); `StrayFamilyResolved` under fairness |
| `priorities` | 2 threads, limit 1, 2 snapshots, 3 priorities | types; `LimitOverrunBounded`; `LinksSound`; `PendingSound`; `PriorityIdentity`; `KeepsPriorityTable` (the refinement of `PriorityTable`) |
| `priorities_limit` | limit 2, 1 snapshot | `AtMostLimit` fails |
| `accounts` | 2 threads, 1 name, 2 addresses, 3 users, 1 token, days of 3 ticks | types; `SharedNamesBounded`; `ResetTargetKept`; `TokenNeverOutlivesTerm`; `TokenGoodForItsDay`; `ResetsPermitted` (the refinement of `PasswordDesk`) |
| `accounts_term` | days of 24 ticks, offset of Asuncion | `TokenLivesItsTerm` fails |
| `surveys` | 2 threads, 5 schemas, 2 surveys, 1 snapshot; submissions of up to 2 answers in a section, and forms of 2 or 3 answers over all sections | types; `SnapshotsComply`; `AnswersReadBack`; `PersonIdentified`; `SubmissionsAtomic` (the refinement of `SurveyLedger`) |
| `surveys_required` | 1 thread, 1 survey, the same submissions | `RequiredKept` fails |
| `network` | 2 threads, 1 user, 3 applications (2 of the seed), 2 organizations (1 of the seed), 1 family | types; `ReferentialIntegrity`; `ListingsExact`; `CreatorSeesFamily` |
| `reading` | 2 threads, months of 2 and 3 days, 2 ticks a day, a window of 2 days, the clock put back once, 2 snapshots, 3 indicators | types; `OrdersAgree`; `RecentNeverSpared`; `CountsAgree` |
| `reading_window` | 1 thread, January to March, the window of 30 days, 1 snapshot | `OnlyRecentDeleted` fails |
| `drafts` | 2 threads, 2 users, 2 drafts, a window of 2 ticks, 4 times | types; `OwnersExist`; `DeletedForGood`; `AgedForGood`; `HandOverStands` |

**Bounds.** Two threads show every race of two requests; the counting properties,
whose bound is the number of threads, are proved for any number. Ids are bounded
by the constants `Max...`, as guards of the inserts. Two families with one code
are what a duplicate needs, two snapshots what "the last snapshot but one" needs,
one priority is enough to keep a snapshot from being deleted. Limit 1 with three
priorities lets the limit be reached, overrun and, after a deletion, reached
again. Three users let a name be shared and one of the sharers deleted. Days of
three ticks put a token's issue at every hour of such a day. Two answers of one
section are what it takes for two names to meet in a column; the
forms put the person's name and one or two attributes in one snapshot, in the
right section or not; two surveys let the one in use be deleted while another is
there. A
window of two days with months of two and three puts the interval on both sides
of the window within a month, at the end of one and across two of different
length, and two ticks a day tell dates from times; two snapshots are what two
orders can differ on. In the form of the run one name comes twice in the order
and is no indicator. Two drafts and two users let a draft be handed over, back,
and deleted while another is there; four times are one more than a draft needs to
leave the listing after a window of two. Two
applications of the seed put the organization of the seed under the login's
application or under another one, and the ids left over are for those a POST
adds. One user can log in before and after losing the assignment; that it holds
between any number of users is proved. No run has a state
constraint; `SYMMETRY` permutes threads, and in `drafts` users, and never in a run
with a liveness property.

**Deadlock** is checked in every run but `reading` and `drafts`: there the bounds on ids
and on the clock can all be reached, and nothing is left to do. In the others none
is expected: reads, aborts and refused requests are always possible.

**Fairness.** Only `FairSpec` of `Snapshots` states any: weak fairness of `Proceed(w)`
for each thread. A thread that has taken a request runs it to its end, each
call returns or throws, and no call waits for another thread. Nothing is assumed
of clients or of `Abort`.

### What the runs found

- `priorities_limit`: two requests that both count before either inserts leave one
  priority more than the five of `"There are already five priorities"`.
  `LimitOverrunBounded` is what the code does guarantee.
- `accounts_term`: a reset token dies at a local midnight, up to a day and the
  zone's offset before its term of `60 * 24` minutes. `TokenGoodForItsDay` is what can be
  relied on: on the day of its issue it is good until midnight, unless it was issued within as many
  hours of the midnight before as local time is behind UTC; then it is dead at once.
- `surveys_required`: a required answer sent in the wrong section passes the check
  and is stored nowhere.
- `reading_window`: DELETE `/families/{id}` compares `Period.getDays()` with
  `MAX_DAYS_DELETE_SNAPSHOT = 30`. That is the rest of the interval after its whole
  months, so nearly every snapshot is deleted, however old. `RecentNeverSpared` is
  the half that holds.

## 5. Proofs

Each proof module extends the module it is about. Constants are arbitrary; the
assumptions are named in the modules: `BoundsAssumption` (bounds are naturals,
and `Limit` is positive), `SentinelAssumption` (`None` and `Null` are no values),
`WorkersAssumption` (finitely many threads, at least one), `DayAssumption` and
`OffsetAssumption` (an offset is less than a day), `AttributesAssumption` (names of
attributes identify them, as in the seed data), `InputsAssumption` (a map has
one value for a key), `MonthsAssumption` (months follow each other and have at
least a day), `ClockAssumption` and `DraftsAssumption` (windows and steps of a clock
are naturals) and `NoRowAssumption` (`None` is no row).

| Theorem | States |
|---|---|
| `SnapshotsProofs!TypeCorrect`, `IntegrityPreserved`, `NoFamilyLeftBehind`, `RequestsStayConsistent`, `IdentityPreserved`, `DuplicatesStayBounded` | `TypeOK`, `ReferentialIntegrity`, `NoStrayFamily`, `RequestsConsistent`, `SnapshotIdentity`, `DuplicatesBounded` |
| `SnapshotsProofs!RetirementLasts` | `RetiredForGood` |
| `SnapshotsProofs!SnapshotsKeepPriorityTable`, `PrioritiesProofs!PrioritiesKeepTable` | `KeepsPriorityTable`: both modules implement `PriorityTable` |
| `FamilyLifeProofs!FamiliesLiveTheirLives` | `LivesItsLife`: `Snapshots` implements `FamilyLife` |
| `PrioritiesProofs!TypeCorrect`, `PendingStaysSound`, `LinksStaySound`, `IdentityPreserved`, `OverrunStaysBounded` | `TypeOK`, `PendingSound`, `LinksSound`, `PriorityIdentity`, `LimitOverrunBounded` |
| `AccountsProofs!TypeCorrect`, `TargetsStayKept`, `TokensExpire`, `TokensGoodForTheirDay`, `SharingStaysBounded` | `TypeOK`, `ResetTargetKept`, `TokenNeverOutlivesTerm`, `TokenGoodForItsDay`, `SharedNamesBounded` |
| `AccountsProofs!ResetsArePermitted` | `ResetsPermitted`: `Accounts` implements `PasswordDesk` |
| `SurveysProofs!TypeCorrect`, `ComplianceKept`, `PersonsIdentified`, `AnswersKept` | `TypeOK`, `SnapshotsComply`, `PersonIdentified`, `AnswersReadBack` |
| `SurveysProofs!SubmissionsAreAtomic` | `SubmissionsAtomic`: `Surveys` implements `SurveyLedger` |
| `SurveysProofs!RowReadsBack` | what the mapper makes of a submission is read back as it was sent, for any submission that can be stored |
| `ReadingProofs!PeriodInInterval`, `PeriodExactWithinMonth` | the days of a period are at most those of the interval, and just those until the same day of the next month |
| `SnapshotsProofs!RequestsRunDown` | each call of a request leaves it fewer calls to make |
| `SnapshotsProofs!SequentialKeepsCodes`, `PrioritiesProofs!SequentialKeepsLimit`, `AccountsProofs!SequentialKeepsNames`, `DraftsProofs!SequentialHandOvers` | with one worker: codes of surveyed families are unique, `AtMostLimit`, names are unique, a draft changes hands only by a PUT that names its new user |
| `NetworkProofs!TypeCorrect`, `IntegrityPreserved`, `ListingsStayExact`, `CreatorSees` | `TypeOK`, `ReferentialIntegrity`, `ListingsExact`, `CreatorSeesFamily` |
| `ReadingProofs!TypeCorrect`, `NewestAgree`, `SparesNoRecent`, `CountsAlwaysAgree` | `TypeOK`, `OrdersAgree`, `RecentNeverSpared`, `CountsAgree` |
| `DraftsProofs!TypeCorrect`, `DraftsHaveOwners`, `DeletionLasts`, `AgeingLasts`, `HandOversStand` | `TypeOK`, `OwnersExist`, `DeletedForGood`, `AgedForGood`, `HandOverStands` |

The argument is the same in each: an invariant `IInv` that holds initially, that
every action preserves (one lemma or step per action), and from which the
theorem follows.

- **Snapshots**: `IInv == TypeOK /\ RequestsConsistent /\ FamiliesKnown /\
  ReferentialIntegrity /\ NoStrayFamily`. `NoStrayFamily` alone is not inductive:
  that a deletion's count of zero is answered by a family being cleaned up needs
  to know which snapshot and family the request remembers, which is
  `RequestsConsistent`, and that in turn needs drawn ids to be nobody else's. A
  deactivation writes nothing when the row it loaded was inactive already;
  `FamiliesKnown` is why that leaves no stray family: a family that is gone,
  inactive or without a person never again becomes an active one with a person.
  `DuplicatesBounded` is proved separately on top of it: a thread sets out to insert only when no row has the code, so every
  family that still counts is in the hands of another thread's pending
  deactivation, and those families inject into those threads. `RetiredForGood` is an
  action property: only the insert of its row, whose id is drawn and nobody
  else's, makes a family active with a person.
- **PriorityTable**: for `Snapshots`, on top of `IInv`, that priorities have drawn ids
  (`PrioritiesDrawn`). The one hard step is a commit: its snapshot appears under an
  id that is unsettled until then, since no two requests commit the same one, and settles with it
  whether the row is stored or refused. For `Priorities` it is `LinksSound` that
  lets a link be written back at any later time: the snapshot it names is still
  there, or the row is not.
- **FamilyLife**: on top of `IInv`, initial states map to initial states and each
  action, family by family, to a move or a stutter. Most of the work is in the stages
  that depend on requests: that an unborn family has no snapshots and is nobody's
  to clean up, that a deletion which counts none left takes the family through
  "closing" and an abort through "abandoned", and that nothing else takes it out of the
  hands of a request. A family whose row is still to be inserted is active
  (`NewActive`), so that its first snapshot lists it.
- **Priorities**: `IInv == TypeOK /\ PendingSound /\ LinksSound`. A link that is
  written back is sound because the row still has it, which holds because only a
  list moves a row. The bound on the limit is an invariant of its own, by
  counting rows and pending inserts of a snapshot together.
- **Accounts**: `IInv == TypeOK /\ ResetTargetKept`; the bound on shared names is a
  count as above, and the term of a token is arithmetic on `\div`. `DateOfIssue` says which date a
  token gets: that of its issue, if the clock's offset takes the hour of its issue
  below zero, a later one otherwise.
- **PasswordDesk**: on top of `IInv` and of `TokenNeverOutlivesTerm`, which is what makes the look at
  the date a look at the term. The write of a whole row is a change
  of the password alone because `ResetTargetKept` has the loaded row agree with
  the table's but for the password.
- **Surveys**: `IInv == TypeOK /\ Sound /\ SnapshotsComply /\ PersonIdentified`, where
  `Sound` says that a pending insert was checked against the survey if that is
  still there. Survey ids are never reused, so a survey that is there is the one that
  was read. `AnswersKept` needs another invariant, `Faithful`: the row of a snapshot
  is what the mapper made of its submission, and a pending one was found to comply.
  From there it is a lemma about `RowOf` and `ReadBack` (`RowReadsBack`): a column
  is written by the one attribute of its name (`ColumnOfRow`), and neither the columns
  nor the two documents have a key of another.
- **SurveyLedger**: the instant of a submission is its insert. A pending
  one complies with what its survey was (`Sound`), can be stored and names a person, and its
  survey is the same or gone, when the foreign key refuses it. `Faithful` adds that what is pending was submitted
  as it is, `Posted` that a survey that is there is one that was posted.
- **Network**: `IInv == TypeOK /\ ReferentialIntegrity /\ PlacesSound`. A place is
  sound when its application is that of its organization, as long as the
  organization is there and no POST has overwritten it. This has to hold of
  everything a place is copied from and to (assignments, tokens, families, what a
  request remembers), since each can be written back long after it was read;
  ids are never reused, so a sound place stays sound (lemma `SoundKept`) whatever
  happens to its organization (lemma `StepsStable`).
- **Reading**: the invariant `Sound` says that an id that has been drawn is known to
  nobody yet (no row has it, no other request, no set `seen`), that `seen` holds ids
  below those drawn later, and that within a season dates do not decrease; it needs
  the clock only to move forward but for `PutBack`, which opens a season. The
  window rests on calendar lemmas about months of any lengths, ending in
  `PeriodInInterval`: for dates in order, the days of the period are at most the days of the
  interval; and `RecentInWindow` for dates out of order. `CountsMatch` is a bijection from the
  positions shown to the names answered.
- **Drafts**: the invariant says that a copy a request has loaded has the date of the row,
  if that is still there, and its user as well unless the request was overtaken;
  that drawn ids are below the sequence; and that the row's user exists. The foreign
  key is used twice: an insert or update needs the user, a deletion of the user
  needs no draft.

- **One worker**: the theorems named `Sequential...` assume that there is a single worker and
  nothing else. They follow from the bounds by the number of workers, and
  for drafts from the invariant that nobody is ever overtaken. They say that the
  flaws which the bounds leave room for are races, and that none of them can be had by a
  sequence of requests one after the other, however long, with requests cut short in it.

Only model-checked: `StrayFamilyResolved`, since liveness is outside the prover's reach. Its
safety half is `RequestsRunDown`: no request is sent back to an earlier call by a
failure, by a list of priorities or by another request, so that fairness has at
most seven calls to see to. That each of those calls is enabled, and the temporal
argument, are left to the run `snapshots_live`.
Every other property of a passing run has a theorem. The violated properties
have counterexamples instead of proofs.

## 6. What is not modelled

- Wording, paging, sorting of lists, logging, the OAuth protocol and the sending
  of mail: output and library code. That a mail may fail is modelled.
- The contents of a family code beyond the fields it is made of: two people may
  share one, which `Codes` with one element makes the normal case.
- `PUT` of users, families, applications, assignments, roles, people, cities and
  parameters: the entity is changed outside a transaction and never saved, so no
  table changes. The API guide says that a PUT "overwrites all fields"
  (`src/src/main/asciidoc/index.adoc:30`).
- Transactions that run into a lock wait for it and then fail or succeed as if
  they had come later; no operation holds a lock from one call to the next, so
  waiting is not modelled.
- Terms and policies are only read; nothing in the program writes their table.
- Catalogues (activities, cities, countries, parameters, people) and roles: each
  call is one transaction on one table, with nothing remembered from one call to
  the next. No order of such calls does what the single SQL statements do not, so a
  model would restate them.
- Filters of a listing by country, city and name look at one row at a time.
- Modelled, and bounded instead of refuted by a run of their own: two concurrent POST
  `/users` that create one name (`SharedNamesBounded`), and a POST
  `/snapshots/priority/list` for an unknown snapshot, whose priorities are stored and
  belong to none (`LinksSound` allows `Null` for exactly those).
- `src/src/main/resources/static/swagger` holds the only JavaScript of the
  repository: the minified third-party Swagger UI, three files that show the API
  documentation in a browser. The program is the Java code; no definition of this
  project stands for a line of those files, and none should.
