------------------------------ MODULE Services ------------------------------
(***************************************************************************)
(* The small components, which share no state: one of them runs in each      *)
(* behaviour and the others stay as they start. OrderStatus is extended, with *)
(* the flash sale it asks about; the others are instances.                  *)
(***************************************************************************)
EXTENDS OrderStatus

CONSTANTS
    Posts, ScoreOf, MemberOf, PageSize,                            \* FeedScroll
    Replicas, Shops, Types, Queries, Keep, MaxChanges, MaxFaults,  \* ShopGeo
    Clients, MaxTries, MaxCodes, MaxInserts, Fields, MaxEdits,     \* Login, PracticeUser
    Requests, Months, MonthLength,                                 \* SignIn
    LastSecond, DayLength, Span, Earlier, MaxLosses,               \* OrderIds
    Readers, Writers, MaxUpdates, PracticeFaults,                  \* PracticeShop
    MaxRequests, MaxRefreshes,                                     \* Server
    Runs, Seeds, Length, UserAt                                    \* Migrate

VARIABLES
    component,   \* the one that runs
    inbox, max, offset, seen, ended, start,
    shopRow, index, ready, call, query, doubt, changes, faults,
    code, sent, throttle, tries, pwTries, pwExpiry, userRow, lastId, hasPassword,
    step, user, session, admitted, cut,
    name, profile, edit, edits, last,
    today, bitmap, signRequest, signed,
    clock, counter, request, issued, repeated, losses,
    practiceRow, data, version, reader, writer, geo, floor, torn, practiceFaults,
    phase, stage, opened, goroutine, cancelled, failed, shutdown, timedOut,
    closing, requests, refreshes,
    java, lock, ledger, recorded, applied, run

scrollVars == <<inbox, max, offset, seen, ended, start>>
geoVars == <<shopRow, index, ready, call, query, doubt, changes, faults>>
loginVars == <<code, sent, throttle, tries, pwTries, pwExpiry, userRow, lastId, hasPassword,
               step, user, session, admitted, cut>>
accountVars == <<name, profile, edit, edits, last>>
signVars == <<today, bitmap, signRequest, signed>>
idVars == <<clock, counter, request, issued, repeated, losses>>
practiceVars == <<practiceRow, data, version, reader, writer, geo, floor, torn, practiceFaults>>
serverVars == <<phase, stage, opened, goroutine, cancelled, failed, shutdown, timedOut,
                closing, requests, refreshes>>
migrateVars == <<java, lock, ledger, recorded, applied, run>>
servicesVars == <<component, scrollVars, geoVars, allVars, loginVars, accountVars, signVars, idVars,
          practiceVars, serverVars, migrateVars>>

-----------------------------------------------------------------------------
(* Instances *)

Scroll == INSTANCE FeedScroll WITH Blogs <- Posts
Geo == INSTANCE ShopGeo WITH row <- shopRow
\* PracticeUser extends Login: Accounts!Next is the login of the main server.
Accounts == INSTANCE PracticeUser WITH row <- userRow
Sign == INSTANCE SignIn WITH request <- signRequest
Ids == INSTANCE OrderIds
Practice == INSTANCE PracticeShop WITH
    MaxFaults <- PracticeFaults, row <- practiceRow, faults <- practiceFaults
Server == INSTANCE Server
Migrate == INSTANCE Migrate

ASSUME InstancesAssumption ==
    /\ Scroll!ConstantsAssumption /\ Geo!ConstantsAssumption
    /\ Accounts!ConstantsAssumption /\ Accounts!EditsAssumption
    /\ Sign!ConstantsAssumption /\ Ids!ConstantsAssumption /\ Practice!ConstantsAssumption
    /\ Server!ConstantsAssumption /\ Migrate!ConstantsAssumption

-----------------------------------------------------------------------------

Components ==
    {"scroll", "geo", "status", "login", "accounts", "sign", "ids", "practice", "server", "migrate"}

ServicesInit ==
    /\ component \in Components
    /\ Scroll!Init /\ Geo!Init /\ StatusInit /\ Accounts!AccountInit /\ Sign!Init /\ Ids!Init
    /\ Practice!Init /\ Server!Init /\ Migrate!Init

Running(c) == component = c /\ UNCHANGED component

ScrollStep ==
    /\ Running("scroll") /\ Scroll!Next
    /\ UNCHANGED <<geoVars, allVars, loginVars, accountVars, signVars, idVars,
                   practiceVars, serverVars, migrateVars>>
GeoStep ==
    /\ Running("geo") /\ Geo!Next
    /\ UNCHANGED <<scrollVars, allVars, loginVars, accountVars, signVars, idVars,
                   practiceVars, serverVars, migrateVars>>
StatusStep ==
    /\ Running("status") /\ StatusNext
    /\ UNCHANGED <<scrollVars, geoVars, loginVars, accountVars, signVars, idVars,
                   practiceVars, serverVars, migrateVars>>
LoginStep ==
    /\ Running("login") /\ Accounts!Next
    /\ UNCHANGED <<scrollVars, geoVars, allVars, accountVars, signVars, idVars,
                   practiceVars, serverVars, migrateVars>>
AccountsStep ==
    /\ Running("accounts") /\ Accounts!AccountNext
    /\ UNCHANGED <<scrollVars, geoVars, allVars, signVars, idVars, practiceVars,
                   serverVars, migrateVars>>
SignStep ==
    /\ Running("sign") /\ Sign!Next
    /\ UNCHANGED <<scrollVars, geoVars, allVars, loginVars, accountVars, idVars,
                   practiceVars, serverVars, migrateVars>>
IdsStep ==
    /\ Running("ids") /\ Ids!Next
    /\ UNCHANGED <<scrollVars, geoVars, allVars, loginVars, accountVars, signVars,
                   practiceVars, serverVars, migrateVars>>
PracticeStep ==
    /\ Running("practice") /\ Practice!Next
    /\ UNCHANGED <<scrollVars, geoVars, allVars, loginVars, accountVars, signVars,
                   idVars, serverVars, migrateVars>>
ServerStep ==
    /\ Running("server") /\ Server!Next
    /\ UNCHANGED <<scrollVars, geoVars, allVars, loginVars, accountVars, signVars,
                   idVars, practiceVars, migrateVars>>
MigrateStep ==
    /\ Running("migrate") /\ Migrate!Next
    /\ UNCHANGED <<scrollVars, geoVars, allVars, loginVars, accountVars, signVars,
                   idVars, practiceVars, serverVars>>

ServicesNext ==
    \/ ScrollStep \/ GeoStep \/ StatusStep \/ LoginStep \/ AccountsStep
    \/ SignStep \/ IdsStep \/ PracticeStep \/ ServerStep \/ MigrateStep

\* The fairness of the two components with liveness, while they run.
GeoFairness ==
    /\ \A r \in Replicas : WF_geoVars(component = "geo" /\ Geo!Working(r))
    /\ WF_geoVars(component = "geo" /\ Geo!Expire)
    /\ \A q \in Queries : WF_geoVars(component = "geo" /\ Geo!Asking(q))
ServerFairness ==
    /\ WF_serverVars(component = "server" /\ Server!Main)
    /\ WF_serverVars(component = "server" /\ (Server!OrdersStart \/ Server!OrdersEnd))
    /\ WF_serverVars(component = "server" /\ Server!FeedEnds)
    /\ WF_serverVars(component = "server" /\ shutdown /\ Server!ServeEnds)
    /\ WF_serverVars(component = "server" /\ (Server!Shutdown \/ Server!ShutdownReturns))
    /\ WF_serverVars(component = "server" /\ Server!RefreshEnds)

ServicesSpec == ServicesInit /\ [][ServicesNext]_servicesVars /\ GeoFairness /\ ServerFairness

-----------------------------------------------------------------------------
(* Properties of the components, see their modules *)

\* Every variable has its type.
ServicesTypeOK ==
    /\ Geo!TypeOK /\ TypeOK /\ StatusTypeOK /\ Accounts!TypeOK /\ Accounts!AccountTypeOK /\ Sign!TypeOK
    /\ Ids!TypeOK /\ Practice!TypeOK /\ Server!TypeOK /\ Migrate!TypeOK

\* A scroll shows every post that was there when it began, and repeats none
\* but those pushed down by later posts of their millisecond.
ScrollComplete == Scroll!ScrollComplete

\* A nearby answer misses no shop whose index entry is vouched for.
NearbyComplete == Geo!NearbyComplete

\* The GEO index comes to agree with MySQL once creates and updates end.
GeoHeals == Geo!GeoHeals

\* A code admits one login, all logins are of the one user row, and edits of
\* its profile lose nothing.
LoginsAgree == Accounts!LoginsAgree /\ Accounts!ProfileKept

\* The streak of sign-ins is right around midnight and the end of a month.
StreakRight == Sign!StreakRight

\* The password's counter lacks its expiry only after a fault.
LockoutNeedsFault == Accounts!LockoutNeedsFault

\* No order id is handed out twice while Redis keeps its counters.
IdsUnique == Ids!IdsUnique

\* The practice server's cache keeps the promise of FreshCache.
PracticeFresh == Practice!PracticeFresh

\* The process stops as a whole, and its clients close last.
ShutsDown == Server!ShutsDown

\* The migration ledger is true, and a half initialised database is resumed.
LedgerIsTrue == Migrate!LedgerIsTrue

=============================================================================
