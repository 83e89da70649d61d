-------------------------- MODULE PackageVersions --------------------------
(***************************************************************************)
(* What iorapd knows of package versions.  The package manager lives in    *)
(* system_server, which may die and come back.  iorapd has two connections *)
(* to it (PackageManagerRemote): one of the version map, which is asked on *)
(* several threads under a mutex, and one of the binder service, which     *)
(* registers an observer of package changes and a recipient of the death   *)
(* of system_server.  Each call that fails connects again and tries once   *)
(* more, for a minute at most; start-up exits when even that fails, and    *)
(* init starts iorapd anew.                                                *)
(***************************************************************************)
EXTENDS Integers, Sequences, FiniteSets

CONSTANTS
    Packages,
    MaxVersion,   \* bound on versions
    Initially,    \* what may be installed at first
    MaxChanges,   \* bound on installations, updates and removals
    MaxStarts,    \* bound on starts of system_server
    MaxFaults,    \* bound on linkToDeath that fails
    Timeout       \* attempts that kTimeoutMs leaves time for

Versions == 1 .. MaxVersion
NotInstalled == 0
Unversioned == -1  \* the package manager's answer for a package it does not have
Absent == -2       \* the map has no entry

ASSUME PackagesAssumption ==
    /\ IsFiniteSet(Packages)
    /\ Initially \subseteq [Packages -> Versions \cup {NotInstalled}]
    /\ MaxVersion \in Nat /\ MaxChanges \in Nat /\ MaxStarts \in Nat /\ MaxFaults \in Nat
    /\ Timeout \in Nat \ {0}

VARIABLES
    server,       \* which start of system_server is up; 0: none
    starts,       \* how often it was started
    installed,    \* the packages it has, with their versions
    made,         \* changes so far
    faults,       \* calls of linkToDeath that failed
    observed,     \* it has our observer
    changes,      \* onPackageChanged calls on their way
    linked,       \* the start whose death the recipient is told of
    obituary,     \* binderDied is on its way
    link,         \* the two connections, and the call each is in
    main,         \* the main thread: "map", "service", "ready"
    package_manager, \* package_manager_ of the map is not null
    has_map,      \* version_map_ has a value
    version_map,  \* and then this
    todo, fetched,   \* GetPackageVersionMap: packages still to ask for, and the answers
    missed,       \* history: changes that nobody was told of since the map was made
    refreshed     \* history: packages that the map under way has asked for since then,
                  \* with no earlier change still on its way

serverVars == <<server, starts, installed, made, faults>>
watchVars == <<observed, changes, linked, obituary>>
mapVars == <<package_manager, has_map, version_map, todo, fetched>>
history == <<missed, refreshed>>
vars == <<serverVars, watchVars, link, main, mapVars, history>>

Links == {"map", "service"}
EmptyMap == [p \in Packages |-> Absent]

-----------------------------------------------------------------------------
(* PackageManagerRemote: one call at a time on each connection.            *)

Pc(l) == link[l].pc
Op(l) == link[l].op
Service(l) == link[l].service

At(l, pc, op) == [link EXCEPT ![l].pc = pc, ![l].op = op]
Call(l, op) == At(l, "call", op)
Return(l) == At(l, "idle", "none")

NewConnection == [pc |-> "idle", op |-> "none", count |-> 0, service |-> 0]
Connect(l, op) == [link EXCEPT ![l] = [NewConnection EXCEPT !.pc = "connect", !.op = op]]

Alive(l) == Service(l) # 0 /\ Service(l) = server

\* A call that system_server answers, the first or the second time.
Answered(l, op) == Pc(l) \in {"call", "again"} /\ Op(l) = op /\ Alive(l)

\* InvokeRemote gives up: not connected in time, or dead once more.
Failed(l) ==
    \/ Pc(l) = "failed"
    \/ Pc(l) = "again" /\ Op(l) \notin {"create", "link"} /\ ~Alive(l)

\* The first call fails: ReconnectWithTimeout, which drops the service it has.
InvokeFails(l) ==
    /\ Pc(l) = "call" /\ Op(l) # "link"
    /\ Service(l) # 0 /\ ~Alive(l)
    /\ link' = Connect(l, Op(l))
    /\ UNCHANGED <<serverVars, watchVars, main, mapVars, history>>

\* And a second of sleep.  The count stops at its limit.
GetPackageService(l) ==
    /\ Pc(l) = "connect"
    /\ link' = [link EXCEPT ![l].service = server, ![l].pc = "asleep",
                            ![l].count = IF @ < Timeout THEN @ + 1 ELSE @]
    /\ UNCHANGED <<serverVars, watchVars, main, mapVars, history>>

\* Mutant: wait for as long as it takes.
AfterSleepPatiently(l) == IF Service(l) # 0 THEN "again" ELSE "connect"

\* The time is tested before the connection: that of the last attempt is not used.
AfterSleep(l) ==
    IF link[l].count >= Timeout THEN "failed"
    ELSE IF Service(l) # 0 THEN "again" ELSE "connect"

WakeUp(l) ==
    /\ Pc(l) = "asleep"
    /\ link' = [link EXCEPT ![l].pc = AfterSleep(l),
                            ![l].count = IF AfterSleep(l) = "connect" THEN @ ELSE 0]
    /\ UNCHANGED <<serverVars, watchVars, main, mapVars, history>>

-----------------------------------------------------------------------------
(* iorapd starts, and starts again.                                        *)

AtStart == [l \in Links |-> IF l = "map"
                            THEN [NewConnection EXCEPT !.pc = "connect", !.op = "create"]
                            ELSE NewConnection]

Init ==
    /\ server = 0 /\ starts = 0
    /\ installed \in Initially
    /\ made = 0 /\ faults = 0
    /\ observed = FALSE /\ changes = <<>> /\ linked = 0 /\ obituary = FALSE
    /\ link = AtStart /\ main = "map"
    /\ package_manager = FALSE /\ has_map = FALSE /\ version_map = EmptyMap
    /\ todo = {} /\ fetched = EmptyMap
    /\ missed = {} /\ refreshed = {}

\* exit(1) or a null pointer; init starts iorapd again.
Restart ==
    /\ observed' = FALSE /\ changes' = <<>> /\ linked' = 0 /\ obituary' = FALSE
    /\ link' = AtStart /\ main' = "map"
    /\ package_manager' = FALSE /\ has_map' = FALSE /\ version_map' = EmptyMap
    /\ todo' = {} /\ fetched' = EmptyMap
    /\ missed' = {} /\ refreshed' = {}
    /\ UNCHANGED serverVars

\* After a time-out package_service_ stays null, and the next call goes through it.
NullService(l) == Pc(l) = "call" /\ Service(l) = 0 /\ Restart

-----------------------------------------------------------------------------
(* PackageVersionMap: mutex_ is held while its connection is in a call.    *)

Free == Pc("map") = "idle"

\* The end of a call of the map, or of its creation: the service comes next.
MapReturns ==
    IF main = "map"
    THEN /\ main' = "service"
         /\ link' = [Return("map") EXCEPT !["service"].pc = "connect", !["service"].op = "create"]
    ELSE main' = main /\ link' = Return("map")

\* PackageManagerRemote::Create
MapConnected ==
    /\ Pc("map") = "again" /\ Op("map") = "create"
    /\ package_manager' = TRUE
    /\ link' = Call("map", "all")
    /\ UNCHANGED <<serverVars, watchVars, main, has_map, version_map, todo, fetched, history>>

\* UpdateAll.  It reads the size of an optional that may be empty, and goes on.
UpdateAll ==
    /\ main = "ready" /\ Free
    /\ package_manager
    /\ link' = Call("map", "all")
    /\ UNCHANGED <<serverVars, watchVars, main, mapVars, history>>

\* Or does not; and package_manager_ may be null.
UpdateAllCrashes ==
    /\ main = "ready" /\ Free
    /\ ~package_manager \/ ~has_map
    /\ Restart

\* GetAllPackages
GetAllPackages ==
    /\ Answered("map", "all")
    /\ todo' = {p \in Packages : installed[p] # NotInstalled}
    /\ fetched' = EmptyMap /\ refreshed' = {}
    /\ link' = IF todo' = {} THEN At("map", "done", "package") ELSE Call("map", "package")
    /\ UNCHANGED <<serverVars, watchVars, main, package_manager, has_map, version_map, missed>>

Pending(p) == \E k \in DOMAIN changes : changes[k].package = p
VersionCode(p) == IF installed[p] = NotInstalled THEN Unversioned ELSE installed[p]

\* GetPackageVersion for the next one.
GetPackageVersion(p) ==
    /\ Answered("map", "package")
    /\ p \in todo
    /\ todo' = todo \ {p}
    /\ fetched' = [fetched EXCEPT ![p] = VersionCode(p)]
    /\ refreshed' = IF Pending(p) THEN refreshed ELSE refreshed \cup {p}
    /\ link' = IF todo' = {} THEN At("map", "done", "package") ELSE Call("map", "package")
    /\ UNCHANGED <<serverVars, watchVars, main, package_manager, has_map, version_map, missed>>

\* All of them answered.
StoreMap ==
    /\ Pc("map") = "done"
    /\ has_map' = TRUE /\ version_map' = fetched /\ fetched' = EmptyMap
    /\ missed' = missed \ refreshed /\ refreshed' = {}
    /\ MapReturns
    /\ UNCHANGED <<serverVars, watchVars, package_manager, todo>>

\* std::nullopt: the map stays as it is; or -1 for the package that was asked for.
MapCallFails ==
    /\ Failed("map")
    /\ todo' = {} /\ fetched' = EmptyMap /\ refreshed' = {}
    /\ MapReturns
    /\ UNCHANGED <<serverVars, watchVars, package_manager, has_map, version_map, missed>>

\* GetOrQueryPackageVersion, for a package that the map does not have.
QueryVersion(p) ==
    /\ main = "ready" /\ Free
    /\ has_map /\ version_map[p] = Absent
    /\ todo' = {p}
    /\ link' = Call("map", "query")
    /\ UNCHANGED <<serverVars, watchVars, main, package_manager, has_map, version_map, fetched,
                   history>>

QueryAnswered ==
    /\ Answered("map", "query")
    /\ \E p \in todo : version_map' = [version_map EXCEPT ![p] = VersionCode(p)]
    /\ todo' = {}
    /\ MapReturns
    /\ UNCHANGED <<serverVars, watchVars, package_manager, has_map, fetched, history>>

-----------------------------------------------------------------------------
(* IIorapImpl: the observer, and the death of system_server.               *)

ServiceConnected ==
    /\ Pc("service") = "again" /\ Op("service") = "create"
    /\ link' = Call("service", "register")
    /\ UNCHANGED <<serverVars, watchVars, main, mapVars, history>>

\* Mutant: the recipient is not told of the next death.
RegisterOnce ==
    /\ Answered("service", "register")
    /\ observed' = TRUE
    /\ link' = IF main = "ready" THEN Return("service") ELSE Call("service", "link")
    /\ UNCHANGED <<serverVars, changes, linked, obituary, main, mapVars, history>>

\* RegisterPackageChangeObserver
Register ==
    /\ Answered("service", "register")
    /\ observed' = TRUE
    /\ link' = Call("service", "link")
    /\ UNCHANGED <<serverVars, changes, linked, obituary, main, mapVars, history>>

\* RegisterPackageManagerDeathRecipient.  A dead service is reported at once; then
\* the constructor ends, and the threads of binder start.
LinkToDeath ==
    /\ Pc("service") \in {"call", "again"} /\ Op("service") = "link"
    /\ linked' = IF Alive("service") THEN server ELSE linked
    /\ obituary' = (obituary \/ ~Alive("service"))
    /\ link' = Return("service") /\ main' = "ready"
    /\ UNCHANGED <<serverVars, observed, changes, mapVars, history>>

\* Or linkToDeath fails, which is taken for a dead service.
LinkToDeathFails ==
    /\ Pc("service") \in {"call", "again"} /\ Op("service") = "link" /\ ~Alive("service")
    /\ faults < MaxFaults /\ faults' = faults + 1
    /\ link' = IF Pc("service") = "call" THEN Connect("service", "link")
               ELSE At("service", "failed", "link")
    /\ UNCHANGED <<server, starts, installed, made, watchVars, main, mapVars, history>>

\* Start-up gives up, and so does binderDied.
Exit == Failed("service") /\ Restart

\* binderDied registers again, on a thread of binder.
BinderDied ==
    /\ main = "ready" /\ Pc("service") = "idle"
    /\ obituary
    /\ obituary' = FALSE
    /\ link' = Call("service", "register")
    /\ UNCHANGED <<serverVars, observed, changes, linked, main, mapVars, history>>

\* PackageVersionMap::Update, for the next change.
Update ==
    LET event == Head(changes)
    IN version_map' = IF has_map /\ event.version # NotInstalled
                      THEN [version_map EXCEPT ![event.package] = event.version]
                      ELSE version_map

\* Mutant: the mutex is not taken.
OnPackageChangedUnlocked ==
    /\ main = "ready"
    /\ changes # <<>>
    /\ Update
    /\ changes' = Tail(changes)
    /\ UNCHANGED <<serverVars, observed, linked, obituary, link, main, package_manager, has_map,
                   todo, fetched, history>>

\* A removal is left for the maintenance and takes no mutex.
OnPackageChanged ==
    /\ main = "ready"
    /\ changes # <<>>
    /\ Head(changes).version # NotInstalled => Free
    /\ Update
    /\ changes' = Tail(changes)
    /\ UNCHANGED <<serverVars, observed, linked, obituary, link, main, package_manager, has_map,
                   todo, fetched, history>>

-----------------------------------------------------------------------------
(* system_server.                                                          *)

Boot ==
    /\ server = 0 /\ starts < MaxStarts
    /\ server' = starts + 1 /\ starts' = starts + 1
    /\ UNCHANGED <<installed, made, faults, watchVars, link, main, mapVars, history>>

\* The calls that it sent before still arrive.
Die ==
    /\ server # 0
    /\ server' = 0
    /\ observed' = FALSE /\ linked' = 0
    /\ obituary' = (obituary \/ linked = server)
    /\ UNCHANGED <<starts, installed, made, faults, changes, link, main, mapVars, history>>

\* A package is installed, updated or removed, and the observer is told.
ChangePackage(p, version) ==
    /\ server # 0 /\ made < MaxChanges
    /\ version # installed[p]
    /\ installed' = [installed EXCEPT ![p] = version]
    /\ made' = made + 1
    /\ IF observed
       THEN /\ changes' = Append(changes, [package |-> p, version |-> version])
            /\ missed' = missed \ {p} /\ UNCHANGED refreshed
       ELSE missed' = missed \cup {p} /\ refreshed' = refreshed \ {p} /\ UNCHANGED changes
    /\ UNCHANGED <<server, starts, faults, observed, linked, obituary, link, main, mapVars>>

-----------------------------------------------------------------------------
MapStep ==
    \/ InvokeFails("map") \/ GetPackageService("map") \/ WakeUp("map") \/ NullService("map")
    \/ MapConnected \/ GetAllPackages \/ StoreMap \/ MapCallFails \/ QueryAnswered
    \/ \E p \in Packages : GetPackageVersion(p)
ServiceStep ==
    \/ InvokeFails("service") \/ GetPackageService("service") \/ WakeUp("service")
    \/ ServiceConnected \/ Register \/ LinkToDeath \/ Exit \/ BinderDied
Requests ==
    \/ UpdateAll \/ UpdateAllCrashes
    \/ \E p \in Packages : QueryVersion(p)
Environment ==
    \/ Boot \/ Die \/ LinkToDeathFails
    \/ \E p \in Packages, v \in Versions \cup {NotInstalled} : ChangePackage(p, v)

Next == MapStep \/ ServiceStep \/ Requests \/ OnPackageChanged \/ Environment

\* A call of either connection goes on, and a death is reported.
Fairness == WF_vars(MapStep) /\ WF_vars(ServiceStep)
Spec == Init /\ [][Next]_vars /\ Fairness

-----------------------------------------------------------------------------
(* Properties                                                              *)

Values == Versions \cup {Unversioned, Absent}
TypeOK ==
    /\ server \in Nat /\ starts \in Nat /\ server \in {0, starts}
    /\ installed \in [Packages -> Versions \cup {NotInstalled}]
    /\ made \in Nat /\ faults \in Nat
    /\ observed \in BOOLEAN /\ obituary \in BOOLEAN /\ linked \in {0, server}
    /\ changes \in Seq([package : Packages, version : Versions \cup {NotInstalled}])
    /\ link \in [Links -> [pc : {"idle", "call", "connect", "asleep", "again", "failed", "done"},
                           op : {"none", "create", "all", "package", "query", "register", "link"},
                           count : Nat, service : Nat]]
    /\ main \in {"map", "service", "ready"}
    /\ package_manager \in BOOLEAN /\ has_map \in BOOLEAN
    /\ version_map \in [Packages -> Values] /\ fetched \in [Packages -> Values]
    /\ todo \subseteq Packages /\ missed \subseteq Packages /\ refreshed \subseteq Packages

\* "Post-condition: Find(package_name) == version": once the changes that are on their
\* way have arrived, the version that the map has of an installed package is the
\* version that is installed, unless the package changed while nobody observed it and no
\* map was made since.
MapIsCurrent ==
    \A p \in Packages \ missed :
       has_map /\ installed[p] # NotInstalled /\ ~Pending(p)
          => version_map[p] \in {Absent, installed[p]}

\* The inductive invariant: the last call on its way for a package that nobody missed
\* says what is installed; the answers of the map under way are current in the same
\* sense, for what was missed before they came too; and the mutex keeps both so.
LastChange(p, k) ==
    changes[k].package = p /\ \A j \in DOMAIN changes : j > k => changes[j].package # p
MapInv ==
    /\ \A p \in Packages \ missed, k \in DOMAIN changes :
          LastChange(p, k) => changes[k].version = installed[p]
    /\ \A p \in (Packages \ missed) \cup refreshed :
          installed[p] # NotInstalled /\ ~Pending(p) => fetched[p] \in {Absent, installed[p]}
    /\ \A p \in refreshed \cap missed : ~Pending(p)
    /\ Op("map") # "package" => fetched = EmptyMap /\ refreshed = {}
    /\ Free => Op("map") = "none"
IInv == TypeOK /\ MapInv /\ MapIsCurrent

\* "Retry until timeout": a launch that waits for the mutex gets it, also when
\* system_server never comes back.
MutexReleased == []<>Free

\* "binderDied try to re-register": when system_server stays up, the observer ends up
\* registered with it and its death would be noticed, however often it died before
\* and iorapd exited.  Only a linkToDeath that fails may leave a gap.
ObserverReturns ==
    <>[](server # 0) /\ [](faults = 0) => <>[](observed /\ linked = server)
=============================================================================
