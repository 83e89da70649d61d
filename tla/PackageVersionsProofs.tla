----------------------- MODULE PackageVersionsProofs -----------------------
(* Proofs about PackageVersions, for any packages, versions and bounds. *)
EXTENDS PackageVersions, TLAPS

Pcs == {"idle", "call", "connect", "asleep", "again", "failed", "done"}
Ops == {"none", "create", "all", "package", "query", "register", "link"}
Connections == [pc : Pcs, op : Ops, count : Nat, service : Nat]
Installations == [Packages -> Versions \cup {NotInstalled}]
Change == [package : Packages, version : Versions \cup {NotInstalled}]

\* TypeOK in parts.
LinkOK == link \in [Links -> Connections]
ServerOK ==
    /\ server \in Nat /\ starts \in Nat /\ server \in {0, starts}
    /\ installed \in Installations /\ made \in Nat /\ faults \in Nat
WatchOK ==
    /\ observed \in BOOLEAN /\ obituary \in BOOLEAN /\ linked \in {0, server}
    /\ changes \in Seq(Change)
MapOK ==
    /\ package_manager \in BOOLEAN /\ has_map \in BOOLEAN
    /\ version_map \in [Packages -> Values] /\ fetched \in [Packages -> Values]
    /\ todo \subseteq Packages /\ missed \subseteq Packages /\ refreshed \subseteq Packages

MainOK == main \in {"map", "service", "ready"}

LEMMA TypeParts ==
    /\ TypeOK <=> LinkOK /\ ServerOK /\ WatchOK /\ MapOK /\ MainOK
    /\ TypeOK' <=> LinkOK' /\ ServerOK' /\ WatchOK' /\ MapOK' /\ MainOK'
  BY DEF TypeOK, LinkOK, ServerOK, WatchOK, MapOK, MainOK, Connections, Pcs, Ops,
         Installations, Change

-----------------------------------------------------------------------------
(* The connections *)

LEMMA AtTyped ==
    ASSUME LinkOK, NEW l \in Links, NEW pc \in Pcs, NEW op \in Ops
    PROVE  /\ At(l, pc, op) \in [Links -> Connections]
           /\ At(l, pc, op)[l].pc = pc /\ At(l, pc, op)[l].op = op
           /\ \A k \in Links \ {l} : At(l, pc, op)[k] = link[k]
  BY DEF LinkOK, At, Connections

LEMMA ConnectTyped ==
    ASSUME LinkOK, NEW l \in Links, NEW op \in Ops
    PROVE  /\ Connect(l, op) \in [Links -> Connections]
           /\ Connect(l, op)[l].pc = "connect" /\ Connect(l, op)[l].op = op
           /\ \A k \in Links \ {l} : Connect(l, op)[k] = link[k]
  BY DEF LinkOK, Connect, NewConnection, Connections, Pcs, Ops

LEMMA AtStartTyped ==
    /\ AtStart \in [Links -> Connections]
    /\ AtStart["map"].pc = "connect" /\ AtStart["map"].op = "create"
  BY DEF AtStart, NewConnection, Connections, Links, Pcs, Ops

LEMMA MapReturnsTyped ==
    ASSUME LinkOK, MainOK, MapReturns
    PROVE  /\ LinkOK' /\ MainOK'
           /\ Pc("map")' = "idle" /\ Op("map")' = "none"
  <1>1. /\ Return("map") \in [Links -> Connections]
        /\ Return("map")["map"].pc = "idle" /\ Return("map")["map"].op = "none"
    BY AtTyped DEF Return, Links, Pcs, Ops
  <1>2. CASE main = "map"
    BY <1>1, <1>2 DEF MapReturns, LinkOK, MainOK, Links, Connections, Pcs, Ops, Pc, Op
  <1>3. CASE main # "map"
    BY <1>1, <1>3 DEF MapReturns, LinkOK, MainOK, Pc, Op
  <1> QED BY <1>2, <1>3

-----------------------------------------------------------------------------
(* Frames *)

mapState == <<installed, changes, missed, refreshed, fetched, has_map, version_map>>

\* A step that leaves the map and the changes alone keeps the invariant, if it keeps
\* what the call of the map says.
LEMMA SameMap ==
    ASSUME MapInv, MapIsCurrent, UNCHANGED mapState,
           Op("map")' # "package" => fetched = EmptyMap /\ refreshed = {},
           Free' => Op("map")' = "none"
    PROVE  MapInv' /\ MapIsCurrent'
  BY DEF MapInv, MapIsCurrent, mapState, LastChange, Pending, EmptyMap

\* A step of the binder service.
LEMMA SameMapCall ==
    ASSUME MapInv, MapIsCurrent, UNCHANGED mapState, link'["map"] = link["map"]
    PROVE  MapInv' /\ MapIsCurrent'
  <1>1. /\ Op("map")' # "package" => fetched = EmptyMap /\ refreshed = {}
        /\ Free' => Op("map")' = "none"
    BY DEF MapInv, Free, Pc, Op
  <1> QED BY <1>1, SameMap

\* iorapd starts again.
LEMMA RestartKeeps ==
    ASSUME TypeOK, Restart
    PROVE  IInv'
  <1>1. EmptyMap \in [Packages -> Values]
    BY DEF EmptyMap, Values
  <1>2. TypeOK'
    <2>1. LinkOK'
      BY AtStartTyped DEF Restart, LinkOK
    <2>2. ServerOK'
      BY TypeParts DEF Restart, ServerOK, serverVars
    <2>3. WatchOK'
      <3>1. <<>> \in Seq(Change)
        OBVIOUS
      <3> QED BY <3>1 DEF Restart, WatchOK
    <2>4. MapOK' /\ MainOK'
      BY <1>1 DEF Restart, MapOK, MainOK
    <2> QED BY <2>1, <2>2, <2>3, <2>4, TypeParts
  <1>3. MapInv'
    BY AtStartTyped DEF Restart, MapInv, LastChange, Pending, EmptyMap, Free, Pc, Op
  <1>4. MapIsCurrent'
    BY DEF Restart, MapIsCurrent
  <1> QED BY <1>2, <1>3, <1>4 DEF IInv

-----------------------------------------------------------------------------
(* Steps of a connection *)

\* A step that moves one connection, and no more than flags of the others.
LEMMA OnlyLink ==
    ASSUME IInv, LinkOK', UNCHANGED <<serverVars, watchVars, main, mapVars, history>>,
           Op("map")' # "package" => fetched = EmptyMap /\ refreshed = {},
           Free' => Op("map")' = "none"
    PROVE  IInv'
  <1>1. TypeOK'
    BY TypeParts DEF IInv, serverVars, watchVars, mapVars, history, ServerOK, WatchOK, MapOK, MainOK
  <1>2. MapInv' /\ MapIsCurrent'
    BY SameMap DEF IInv, mapState, serverVars, watchVars, mapVars, history
  <1> QED BY <1>1, <1>2 DEF IInv

LEMMA InvokeFailsKeeps ==
    ASSUME IInv, NEW l \in Links, InvokeFails(l)
    PROVE  IInv'
  <1>1. LinkOK /\ Op(l) \in Ops
    BY TypeParts DEF IInv, LinkOK, Op, Connections
  <1>2. LinkOK' /\ Pc(l)' = "connect" /\ Op(l)' = Op(l)
        /\ \A k \in Links \ {l} : link'[k] = link[k]
    BY <1>1, ConnectTyped DEF InvokeFails, LinkOK, Pc, Op
  <1>3. /\ Op("map")' = Op("map")
        /\ Free' => Free
    BY <1>2 DEF Op, Pc, Free, Links
  <1> QED BY <1>2, <1>3, OnlyLink DEF InvokeFails, IInv, MapInv

LEMMA GetPackageServiceKeeps ==
    ASSUME IInv, NEW l \in Links, GetPackageService(l)
    PROVE  IInv'
  <1>1. LinkOK /\ server \in Nat /\ Timeout \in Nat
    BY TypeParts, PackagesAssumption DEF IInv, ServerOK
  <1>2. /\ LinkOK' /\ Pc(l)' = "asleep" /\ Op(l)' = Op(l)
        /\ \A k \in Links \ {l} : link'[k] = link[k]
    BY <1>1 DEF GetPackageService, LinkOK, Connections, Pcs, Pc, Op
  <1>3. /\ Op("map")' = Op("map")
        /\ Free' => Free
    BY <1>2 DEF Op, Pc, Free, Links
  <1> QED BY <1>2, <1>3, OnlyLink DEF GetPackageService, IInv, MapInv

LEMMA WakeUpKeeps ==
    ASSUME IInv, NEW l \in Links, WakeUp(l)
    PROVE  IInv'
  <1>1. LinkOK /\ AfterSleep(l) \in {"failed", "again", "connect"}
    BY TypeParts DEF IInv, AfterSleep
  <1>2. /\ LinkOK' /\ Pc(l)' # "idle" /\ Op(l)' = Op(l)
        /\ \A k \in Links \ {l} : link'[k] = link[k]
    BY <1>1 DEF WakeUp, LinkOK, Connections, Pcs, Pc, Op
  <1>3. /\ Op("map")' = Op("map")
        /\ Free' => Free
    BY <1>2 DEF Op, Pc, Free, Links
  <1> QED BY <1>2, <1>3, OnlyLink DEF WakeUp, IInv, MapInv

-----------------------------------------------------------------------------
(* Calls of the map *)

LEMMA MapConnectedKeeps == IInv /\ MapConnected => IInv'
  <1> SUFFICES ASSUME IInv, MapConnected
               PROVE  IInv'
    OBVIOUS
  <1>1. /\ LinkOK' /\ Pc("map")' = "call" /\ Op("map")' = "all"
    BY TypeParts, AtTyped DEF IInv, MapConnected, LinkOK, Call, Links, Pcs, Ops, Pc, Op
  <1>2. TypeOK'
    BY <1>1, TypeParts DEF IInv, MapConnected, serverVars, watchVars, history, ServerOK, WatchOK,
           MapOK, MainOK
  <1>3. fetched = EmptyMap /\ refreshed = {}
    BY DEF IInv, MapInv, MapConnected
  <1>4. MapInv' /\ MapIsCurrent'
    BY <1>1, <1>3, SameMap DEF IInv, MapConnected, mapState, serverVars, watchVars, history, Free
  <1> QED BY <1>2, <1>4 DEF IInv

LEMMA UpdateAllKeeps == IInv /\ UpdateAll => IInv'
  <1> SUFFICES ASSUME IInv, UpdateAll
               PROVE  IInv'
    OBVIOUS
  <1>1. /\ LinkOK' /\ Pc("map")' = "call" /\ Op("map")' = "all"
    BY TypeParts, AtTyped DEF IInv, UpdateAll, LinkOK, Call, Links, Pcs, Ops, Pc, Op
  <1>2. fetched = EmptyMap /\ refreshed = {}
    BY DEF IInv, MapInv, UpdateAll
  <1> QED BY <1>1, <1>2, OnlyLink DEF UpdateAll, Free

LEMMA GetAllPackagesKeeps == IInv /\ GetAllPackages => IInv'
  <1> SUFFICES ASSUME IInv, GetAllPackages
               PROVE  IInv'
    OBVIOUS
  <1>1. /\ LinkOK' /\ Pc("map")' \in {"call", "done"} /\ Op("map")' = "package"
    BY TypeParts, AtTyped DEF IInv, GetAllPackages, LinkOK, Call, Links, Pcs, Ops, Pc, Op
  <1>2. EmptyMap \in [Packages -> Values] /\ fetched = EmptyMap /\ refreshed = {}
    BY DEF EmptyMap, Values, IInv, MapInv, GetAllPackages, Answered
  <1>3. TypeOK'
    BY <1>1, <1>2, TypeParts DEF IInv, GetAllPackages, serverVars, watchVars, ServerOK, WatchOK,
           MapOK, MainOK
  <1>4. MapInv' /\ MapIsCurrent'
    BY <1>1, <1>2, SameMap DEF IInv, GetAllPackages, mapState, serverVars, watchVars, Free
  <1> QED BY <1>3, <1>4 DEF IInv

\* What was fetched is what is installed.
LEMMA GetPackageVersionKeeps ==
    ASSUME IInv, NEW p \in Packages, GetPackageVersion(p)
    PROVE  IInv'
  <1>1. /\ LinkOK' /\ Pc("map")' \in {"call", "done"} /\ Op("map")' = "package"
    BY TypeParts, AtTyped DEF IInv, GetPackageVersion, LinkOK, Call, Links, Pcs, Ops, Pc, Op
  <1>2. VersionCode(p) \in Values
    BY TypeParts DEF IInv, ServerOK, Installations, VersionCode, Values
  <1>3. fetched \in [Packages -> Values] /\ refreshed \subseteq Packages
    BY TypeParts DEF IInv, MapOK
  <1>4. TypeOK'
    BY <1>1, <1>2, <1>3, TypeParts DEF IInv, GetPackageVersion, serverVars, watchVars, ServerOK,
           WatchOK, MapOK, MainOK
  <1>5. UNCHANGED <<installed, changes, missed, has_map, version_map>>
    BY DEF GetPackageVersion, serverVars, watchVars
  <1>6. \A q \in Packages : Pending(q)' <=> Pending(q)
    BY <1>5 DEF Pending
  <1>7. \A q \in Packages \ missed', k \in DOMAIN changes' :
           LastChange(q, k)' => changes'[k].version = installed'[q]
    BY <1>5 DEF IInv, MapInv, LastChange
  <1>8. \A q \in (Packages \ missed') \cup refreshed' :
           installed'[q] # NotInstalled /\ ~Pending(q)' => fetched'[q] \in {Absent, installed'[q]}
    <2> TAKE q \in (Packages \ missed') \cup refreshed'
    <2>1. q \in Packages
      BY <1>3 DEF GetPackageVersion
    <2>2. CASE q = p
      BY <1>3, <1>5, <2>2 DEF GetPackageVersion, VersionCode
    <2>3. CASE q # p
      <3>1. fetched'[q] = fetched[q] /\ q \in (Packages \ missed) \cup refreshed
        BY <1>3, <1>5, <2>1, <2>3 DEF GetPackageVersion
      <3> QED BY <1>5, <1>6, <2>1, <3>1 DEF IInv, MapInv
    <2> QED BY <2>2, <2>3
  <1>9. \A q \in refreshed' \cap missed' : ~Pending(q)'
    BY <1>3, <1>5, <1>6 DEF GetPackageVersion, IInv, MapInv
  <1>10. MapInv'
    BY <1>1, <1>7, <1>8, <1>9 DEF MapInv, Free
  <1>11. MapIsCurrent'
    BY <1>5, <1>6 DEF IInv, MapIsCurrent
  <1> QED BY <1>4, <1>10, <1>11 DEF IInv

\* What was missed before the answers came is missed no more.
LEMMA StoreMapKeeps == IInv /\ StoreMap => IInv'
  <1> SUFFICES ASSUME IInv, StoreMap
               PROVE  IInv'
    OBVIOUS
  <1>1. LinkOK' /\ MainOK' /\ Pc("map")' = "idle" /\ Op("map")' = "none"
    BY MapReturnsTyped, TypeParts DEF IInv, StoreMap
  <1>2. EmptyMap \in [Packages -> Values]
    BY DEF EmptyMap, Values
  <1>3. TypeOK'
    BY <1>1, <1>2, TypeParts DEF IInv, StoreMap, serverVars, watchVars, ServerOK, WatchOK, MapOK
  <1>4. UNCHANGED <<installed, changes>>
    BY DEF StoreMap, serverVars, watchVars
  <1>5. \A q \in Packages : Pending(q)' <=> Pending(q)
    BY <1>4 DEF Pending
  <1>6. \A q \in Packages \ missed', k \in DOMAIN changes' :
           LastChange(q, k)' => changes'[k].version = installed'[q]
    <2> SUFFICES ASSUME NEW q \in Packages \ missed', NEW k \in DOMAIN changes', LastChange(q, k)'
                 PROVE  changes'[k].version = installed'[q]
      OBVIOUS
    <2>1. Pending(q) /\ LastChange(q, k)
      BY <1>4 DEF LastChange, Pending
    <2>2. q \notin missed
      BY <2>1 DEF StoreMap, IInv, MapInv
    <2> QED BY <1>4, <2>1, <2>2 DEF IInv, MapInv
  <1>7. MapInv'
    BY <1>1, <1>6 DEF StoreMap, MapInv, EmptyMap
  <1>8. MapIsCurrent'
    <2> SUFFICES ASSUME NEW q \in Packages \ missed', installed'[q] # NotInstalled, ~Pending(q)'
                 PROVE  version_map'[q] \in {Absent, installed'[q]}
      BY DEF MapIsCurrent
    <2>1. q \in (Packages \ missed) \cup refreshed
      BY DEF StoreMap
    <2> QED BY <1>4, <1>5, <2>1 DEF StoreMap, IInv, MapInv
  <1> QED BY <1>3, <1>7, <1>8 DEF IInv

LEMMA MapCallFailsKeeps == IInv /\ MapCallFails => IInv'
  <1> SUFFICES ASSUME IInv, MapCallFails
               PROVE  IInv'
    OBVIOUS
  <1>1. LinkOK' /\ MainOK' /\ Pc("map")' = "idle" /\ Op("map")' = "none"
    BY MapReturnsTyped, TypeParts DEF IInv, MapCallFails
  <1>2. EmptyMap \in [Packages -> Values]
    BY DEF EmptyMap, Values
  <1>3. TypeOK'
    BY <1>1, <1>2, TypeParts DEF IInv, MapCallFails, serverVars, watchVars, ServerOK, WatchOK, MapOK
  <1>4. UNCHANGED <<installed, changes, missed, has_map, version_map>>
    BY DEF MapCallFails, serverVars, watchVars
  <1>5. MapInv'
    BY <1>1, <1>4 DEF MapCallFails, IInv, MapInv, LastChange, EmptyMap
  <1>6. MapIsCurrent'
    BY <1>4 DEF IInv, MapIsCurrent, Pending
  <1> QED BY <1>3, <1>5, <1>6 DEF IInv

LEMMA QueryVersionKeeps ==
    ASSUME IInv, NEW p \in Packages, QueryVersion(p)
    PROVE  IInv'
  <1>1. /\ LinkOK' /\ Pc("map")' = "call" /\ Op("map")' = "query"
    BY TypeParts, AtTyped DEF IInv, QueryVersion, LinkOK, Call, Links, Pcs, Ops, Pc, Op
  <1>2. fetched = EmptyMap /\ refreshed = {}
    BY DEF IInv, MapInv, QueryVersion
  <1>3. TypeOK'
    BY <1>1, TypeParts DEF IInv, QueryVersion, serverVars, watchVars, history, ServerOK, WatchOK,
           MapOK, MainOK
  <1>4. MapInv' /\ MapIsCurrent'
    BY <1>1, <1>2, SameMap DEF IInv, QueryVersion, mapState, serverVars, watchVars, history, Free
  <1> QED BY <1>3, <1>4 DEF IInv

LEMMA QueryAnsweredKeeps == IInv /\ QueryAnswered => IInv'
  <1> SUFFICES ASSUME IInv, QueryAnswered
               PROVE  IInv'
    OBVIOUS
  <1> PICK p \in todo : version_map' = [version_map EXCEPT ![p] = VersionCode(p)]
    BY DEF QueryAnswered
  <1>1. LinkOK' /\ MainOK' /\ Pc("map")' = "idle" /\ Op("map")' = "none"
    BY MapReturnsTyped, TypeParts DEF IInv, QueryAnswered
  <1>2. /\ p \in Packages /\ VersionCode(p) \in Values
        /\ version_map \in [Packages -> Values]
    BY TypeParts DEF IInv, MapOK, ServerOK, Installations, VersionCode, Values
  <1>3. TypeOK'
    BY <1>1, <1>2, TypeParts DEF IInv, QueryAnswered, serverVars, watchVars, history, ServerOK,
           WatchOK, MapOK
  <1>4. UNCHANGED <<installed, changes, missed, refreshed, fetched, has_map>>
    BY DEF QueryAnswered, serverVars, watchVars, history
  <1>5. fetched = EmptyMap /\ refreshed = {}
    BY DEF QueryAnswered, Answered, IInv, MapInv
  <1>6. MapInv'
    BY <1>1, <1>4, <1>5 DEF IInv, MapInv, LastChange, Pending, EmptyMap
  <1>7. MapIsCurrent'
    <2> SUFFICES ASSUME NEW q \in Packages \ missed', has_map', installed'[q] # NotInstalled,
                        ~Pending(q)'
                 PROVE  version_map'[q] \in {Absent, installed'[q]}
      BY DEF MapIsCurrent
    <2>1. ~Pending(q)
      BY <1>4 DEF Pending
    <2>2. CASE q = p
      BY <1>2, <1>4, <2>2 DEF VersionCode
    <2>3. CASE q # p
      BY <1>2, <1>4, <2>1, <2>3 DEF IInv, MapIsCurrent
    <2> QED BY <2>2, <2>3
  <1> QED BY <1>3, <1>6, <1>7 DEF IInv

-----------------------------------------------------------------------------
(* The binder service *)

LEMMA ServiceConnectedKeeps == IInv /\ ServiceConnected => IInv'
  <1> SUFFICES ASSUME IInv, ServiceConnected
               PROVE  IInv'
    OBVIOUS
  <1>1. LinkOK' /\ link'["map"] = link["map"]
    BY TypeParts, AtTyped DEF IInv, ServiceConnected, LinkOK, Call, Links, Pcs, Ops
  <1>2. /\ Op("map")' # "package" => fetched = EmptyMap /\ refreshed = {}
        /\ Free' => Op("map")' = "none"
    BY <1>1 DEF IInv, MapInv, Free, Pc, Op
  <1> QED BY <1>1, <1>2, OnlyLink DEF ServiceConnected

\* The observer, the recipient and the main thread are not the map's.
LEMMA WatchKeeps ==
    ASSUME IInv, LinkOK', MainOK', link'["map"] = link["map"],
           UNCHANGED <<installed, changes, mapVars, history>>,
           ServerOK', WatchOK'
    PROVE  IInv'
  <1>1. TypeOK'
    BY TypeParts DEF IInv, mapVars, history, MapOK
  <1>2. MapInv' /\ MapIsCurrent'
    BY SameMapCall DEF IInv, mapState, mapVars, history
  <1> QED BY <1>1, <1>2 DEF IInv

LEMMA RegisterKeeps == IInv /\ Register => IInv'
  <1> SUFFICES ASSUME IInv, Register
               PROVE  IInv'
    OBVIOUS
  <1>1. LinkOK' /\ link'["map"] = link["map"]
    BY TypeParts, AtTyped DEF IInv, Register, LinkOK, Call, Links, Pcs, Ops
  <1>2. ServerOK' /\ WatchOK' /\ MainOK'
    BY TypeParts DEF IInv, Register, serverVars, ServerOK, WatchOK, MainOK
  <1> QED BY <1>1, <1>2, WatchKeeps DEF Register, serverVars

LEMMA LinkToDeathKeeps == IInv /\ LinkToDeath => IInv'
  <1> SUFFICES ASSUME IInv, LinkToDeath
               PROVE  IInv'
    OBVIOUS
  <1>1. LinkOK' /\ link'["map"] = link["map"]
    BY TypeParts, AtTyped DEF IInv, LinkToDeath, LinkOK, Return, Links, Pcs, Ops
  <1>2. ServerOK' /\ WatchOK' /\ MainOK'
    BY TypeParts DEF IInv, LinkToDeath, serverVars, ServerOK, WatchOK, MainOK
  <1> QED BY <1>1, <1>2, WatchKeeps DEF LinkToDeath, serverVars

LEMMA LinkToDeathFailsKeeps == IInv /\ LinkToDeathFails => IInv'
  <1> SUFFICES ASSUME IInv, LinkToDeathFails
               PROVE  IInv'
    OBVIOUS
  <1>1. LinkOK' /\ link'["map"] = link["map"]
    BY TypeParts, AtTyped, ConnectTyped DEF IInv, LinkToDeathFails, LinkOK, Links, Pcs, Ops
  <1>2. ServerOK' /\ WatchOK' /\ MainOK'
    BY TypeParts DEF IInv, LinkToDeathFails, watchVars, ServerOK, WatchOK, MainOK
  <1> QED BY <1>1, <1>2, WatchKeeps DEF LinkToDeathFails, watchVars

LEMMA BinderDiedKeeps == IInv /\ BinderDied => IInv'
  <1> SUFFICES ASSUME IInv, BinderDied
               PROVE  IInv'
    OBVIOUS
  <1>1. LinkOK' /\ link'["map"] = link["map"]
    BY TypeParts, AtTyped DEF IInv, BinderDied, LinkOK, Call, Links, Pcs, Ops
  <1>2. ServerOK' /\ WatchOK' /\ MainOK'
    BY TypeParts DEF IInv, BinderDied, serverVars, ServerOK, WatchOK, MainOK
  <1> QED BY <1>1, <1>2, WatchKeeps DEF BinderDied, serverVars

-----------------------------------------------------------------------------
(* system_server *)

LEMMA BootKeeps == IInv /\ Boot => IInv'
  <1> SUFFICES ASSUME IInv, Boot
               PROVE  IInv'
    OBVIOUS
  <1>1. LinkOK' /\ MainOK' /\ link' = link /\ ServerOK'
    BY TypeParts DEF IInv, Boot, LinkOK, MainOK, ServerOK
  <1>2. WatchOK'
    BY TypeParts DEF IInv, Boot, watchVars, WatchOK
  <1> QED BY <1>1, <1>2, WatchKeeps DEF Boot, watchVars

LEMMA DieKeeps == IInv /\ Die => IInv'
  <1> SUFFICES ASSUME IInv, Die
               PROVE  IInv'
    OBVIOUS
  <1>1. LinkOK' /\ MainOK' /\ link' = link /\ ServerOK'
    BY TypeParts DEF IInv, Die, LinkOK, MainOK, ServerOK
  <1>2. WatchOK'
    BY TypeParts DEF IInv, Die, WatchOK
  <1> QED BY <1>1, <1>2, WatchKeeps DEF Die

LEMMA ChangesOK ==
    ASSUME TypeOK
    PROVE  changes \in Seq(Change)
  BY TypeParts DEF WatchOK

LEMMA ChangePackageKeeps ==
    ASSUME IInv, NEW p \in Packages, NEW v \in Versions \cup {NotInstalled}, ChangePackage(p, v)
    PROVE  IInv'
  <1> DEFINE change == [package |-> p, version |-> v]
  <1>1. change \in Change /\ changes \in Seq(Change) /\ installed \in Installations
    BY ChangesOK, TypeParts DEF IInv, Change, ServerOK
  <1>2. /\ installed' = [installed EXCEPT ![p] = v]
        /\ installed' \in Installations
        /\ installed'[p] = v /\ \A q \in Packages \ {p} : installed'[q] = installed[q]
    BY <1>1 DEF ChangePackage, Installations
  <1>3. UNCHANGED <<link, fetched, has_map, version_map>>
    BY DEF ChangePackage, mapVars
  <1>4. /\ Op("map")' # "package" => fetched' = EmptyMap /\ refreshed' = {}
        /\ Free' => Op("map")' = "none"
    BY <1>3 DEF IInv, MapInv, Free, Pc, Op, ChangePackage
  <1>5. LinkOK' /\ MainOK' /\ ServerOK'
    BY <1>2, TypeParts DEF IInv, ChangePackage, LinkOK, MainOK, ServerOK
  <1>6. MapOK'
    BY TypeParts DEF IInv, ChangePackage, MapOK, mapVars
  <1>7. CASE observed
    <2> HIDE DEF change
    <2>1. /\ changes' = Append(changes, change)
          /\ missed' = missed \ {p} /\ refreshed' = refreshed
      BY <1>7 DEF ChangePackage, change
    <2>2. /\ changes' \in Seq(Change)
          /\ DOMAIN changes' = DOMAIN changes \cup {Len(changes) + 1}
          /\ changes'[Len(changes) + 1] = change
          /\ \A k \in DOMAIN changes : changes'[k] = changes[k] /\ k < Len(changes) + 1
          /\ Len(changes) + 1 \in Nat
      BY <1>1, <2>1
    <2>3. change.package = p /\ change.version = v
      BY DEF change
    <2>4. WatchOK'
      BY <2>2, TypeParts DEF IInv, ChangePackage, WatchOK
    <2>5. Pending(p)' /\ \A q \in Packages \ {p} : Pending(q)' <=> Pending(q)
      BY <2>2, <2>3 DEF Pending
    <2>6. ASSUME NEW q \in Packages \ missed', NEW k \in DOMAIN changes', LastChange(q, k)'
          PROVE  changes'[k].version = installed'[q]
      <3>1. CASE k = Len(changes) + 1
        BY <2>2, <2>3, <2>6, <3>1, <1>2 DEF LastChange
      <3>2. CASE k \in DOMAIN changes
        <4>1. q # p
          BY <2>2, <2>3, <2>6, <3>2 DEF LastChange
        <4>2. LastChange(q, k)
          BY <2>2, <2>6, <3>2 DEF LastChange
        <4>3. changes[k].version = installed[q]
          BY <2>1, <3>2, <4>1, <4>2 DEF IInv, MapInv
        <4> QED BY <1>2, <2>2, <3>2, <4>1, <4>3
      <3> QED BY <2>2, <3>1, <3>2
    <2>7. ASSUME NEW q \in (Packages \ missed') \cup refreshed', installed'[q] # NotInstalled,
                 ~Pending(q)'
          PROVE  fetched'[q] \in {Absent, installed'[q]}
      <3>1. q \in Packages
        BY <1>6 DEF MapOK
      <3>2. q # p /\ ~Pending(q)
        BY <2>5, <2>7, <3>1
      <3> QED BY <1>2, <1>3, <2>1, <2>7, <3>1, <3>2 DEF IInv, MapInv
    <2>8. \A q \in refreshed' \cap missed' : ~Pending(q)'
      BY <1>6, <2>1, <2>5 DEF IInv, MapInv, MapOK
    <2>9. MapInv'
      BY <1>4, <2>6, <2>7, <2>8 DEF MapInv
    <2>10. MapIsCurrent'
      BY <1>2, <1>3, <2>1, <2>5 DEF IInv, MapIsCurrent
    <2> QED BY <1>5, <1>6, <2>4, <2>9, <2>10, TypeParts DEF IInv
  <1>8. CASE ~observed
    <2>1. /\ changes' = changes
          /\ missed' = missed \cup {p} /\ refreshed' = refreshed \ {p}
      BY <1>8 DEF ChangePackage
    <2>2. WatchOK'
      BY <2>1, TypeParts DEF IInv, ChangePackage, WatchOK
    <2>3. \A q : Pending(q)' <=> Pending(q)
      BY <2>1 DEF Pending
    <2>4. \A q, k : LastChange(q, k)' <=> LastChange(q, k)
      BY <2>1 DEF LastChange
    <2>5. refreshed \subseteq Packages
      BY TypeParts DEF IInv, MapOK
    <2>6. \A q \in Packages \ missed', k \in DOMAIN changes' :
             LastChange(q, k)' => changes'[k].version = installed'[q]
      BY <1>2, <2>1, <2>4 DEF IInv, MapInv
    <2>7. \A q \in (Packages \ missed') \cup refreshed' :
             installed'[q] # NotInstalled /\ ~Pending(q)' => fetched'[q] \in {Absent, installed'[q]}
      BY <1>2, <1>3, <2>1, <2>3, <2>5 DEF IInv, MapInv
    <2>8. \A q \in refreshed' \cap missed' : ~Pending(q)'
      BY <2>1, <2>3 DEF IInv, MapInv
    <2>9. MapInv'
      BY <1>4, <2>6, <2>7, <2>8 DEF MapInv
    <2>10. MapIsCurrent'
      BY <1>2, <1>3, <2>1, <2>3 DEF IInv, MapIsCurrent
    <2> QED BY <1>5, <1>6, <2>2, <2>9, <2>10, TypeParts DEF IInv
  <1> QED BY <1>7, <1>8

\* The last change of a package that arrives is what is installed; and while answers
\* are collected the mutex keeps all but removals out.
LEMMA OnPackageChangedKeeps == IInv /\ OnPackageChanged => IInv'
  <1> SUFFICES ASSUME IInv, OnPackageChanged
               PROVE  IInv'
    OBVIOUS
  <1> DEFINE event == Head(changes)
  <1>1. /\ changes \in Seq(Change) /\ changes # <<>>
        /\ event = changes[1] /\ event \in Change
        /\ changes' = Tail(changes) /\ changes' \in Seq(Change)
        /\ \A k \in DOMAIN changes' : k \in Nat /\ k + 1 \in DOMAIN changes /\ k + 1 > 1
                                      /\ changes'[k] = changes[k + 1]
        /\ \A k \in DOMAIN changes : k = 1 \/ (k - 1 \in DOMAIN changes' /\ changes'[k - 1] = changes[k])
        /\ 1 \in DOMAIN changes
    <2>1. changes \in Seq(Change) /\ changes # <<>> /\ changes' = Tail(changes)
      BY ChangesOK DEF IInv, OnPackageChanged
    <2>2. Len(changes) \in Nat /\ Len(changes) >= 1 /\ DOMAIN changes = 1 .. Len(changes)
      BY <2>1
    <2>3. event = changes[1] /\ event \in Change /\ 1 \in DOMAIN changes
      BY <2>1, <2>2
    <2>4. changes' \in Seq(Change) /\ DOMAIN changes' = 1 .. Len(changes) - 1
      BY <2>1, <2>2
    <2>5. \A k \in 1 .. Len(changes) - 1 : changes'[k] = changes[k + 1]
      BY <2>1, <2>2
    <2> QED BY <2>1, <2>2, <2>3, <2>4, <2>5
  <1>2. UNCHANGED <<installed, link, missed, refreshed, fetched, has_map>>
    BY DEF OnPackageChanged, serverVars, history
  <1>3. event.package \in Packages /\ event.version \in Versions \cup {NotInstalled}
    BY <1>1 DEF Change
  <1>4. version_map' = IF has_map /\ event.version # NotInstalled
                       THEN [version_map EXCEPT ![event.package] = event.version]
                       ELSE version_map
    BY DEF OnPackageChanged, Update
  <1> HIDE DEF event
  <1>5. TypeOK'
    <2>1. /\ version_map \in [Packages -> Values]
          /\ event.version # NotInstalled => event.version \in Values
      BY <1>3, TypeParts DEF IInv, MapOK, Values
    <2>2. version_map' \in [Packages -> Values]
      BY <1>3, <1>4, <2>1
    <2>3. MapOK'
      BY <2>2, TypeParts DEF IInv, MapOK, OnPackageChanged, history
    <2>4. LinkOK' /\ MainOK' /\ ServerOK'
      BY TypeParts DEF IInv, LinkOK, MainOK, ServerOK, OnPackageChanged, serverVars
    <2>5. WatchOK'
      BY <1>1, TypeParts DEF IInv, WatchOK, OnPackageChanged, serverVars
    <2> QED BY <2>3, <2>4, <2>5, TypeParts
  <1>6. ASSUME NEW q, Pending(q), ~Pending(q)'
        PROVE  q = event.package /\ LastChange(q, 1)
    <2>1. PICK k \in DOMAIN changes : changes[k].package = q
      BY <1>6 DEF Pending
    <2>2. \A j \in DOMAIN changes : j > 1 => changes[j].package # q
      <3>1. ASSUME NEW j \in DOMAIN changes, j > 1
            PROVE  changes[j].package # q
        <4>1. j - 1 \in DOMAIN changes' /\ changes'[j - 1] = changes[j]
          BY <1>1, <3>1
        <4> QED BY <1>6, <4>1 DEF Pending
      <3> QED BY <3>1
    <2>3. k = 1
      BY <1>1, <2>1, <1>6 DEF Pending
    <2> QED BY <1>1, <2>1, <2>2, <2>3 DEF LastChange
  <1>7. ASSUME NEW q, ~Pending(q)
        PROVE  ~Pending(q)' /\ q # event.package
    BY <1>1, <1>7 DEF Pending
  <1>8. ASSUME NEW q, NEW k \in DOMAIN changes', LastChange(q, k)'
        PROVE  LastChange(q, k + 1)
    <2> SUFFICES ASSUME NEW j \in DOMAIN changes, j > k + 1
                 PROVE  changes[j].package # q
      BY <1>1, <1>8 DEF LastChange
    <2>1. j - 1 \in DOMAIN changes' /\ changes'[j - 1] = changes[j] /\ j - 1 > k
      BY <1>1
    <2> QED BY <1>8, <2>1 DEF LastChange
  <1>9. MapInv'
    <2>1. ASSUME NEW q \in Packages \ missed', NEW k \in DOMAIN changes', LastChange(q, k)'
          PROVE  changes'[k].version = installed'[q]
      <3>1. LastChange(q, k + 1) /\ k + 1 \in DOMAIN changes /\ changes'[k] = changes[k + 1]
        BY <1>1, <1>8, <2>1
      <3> QED BY <1>2, <3>1 DEF IInv, MapInv
    <2>2. ASSUME NEW q \in (Packages \ missed') \cup refreshed', installed'[q] # NotInstalled,
                 ~Pending(q)'
          PROVE  fetched'[q] \in {Absent, installed'[q]}
      <3>1. CASE ~Pending(q)
        BY <1>2, <2>2, <3>1 DEF IInv, MapInv
      <3>2. CASE Pending(q)
        <4>1. q = event.package /\ LastChange(q, 1) /\ q \in Packages
          BY <1>3, <1>6, <2>2, <3>2
        <4>2. q \in Packages \ missed
          BY <1>2, <2>2, <3>2, <4>1 DEF IInv, MapInv
        <4>3. event.version = installed[q]
          BY <1>1, <4>1, <4>2 DEF IInv, MapInv
        <4>4. Free
          BY <1>2, <2>2, <4>3 DEF OnPackageChanged, event
        <4>5. fetched = EmptyMap
          BY <4>4 DEF IInv, MapInv
        <4> QED BY <1>2, <4>1, <4>5 DEF EmptyMap
      <3> QED BY <3>1, <3>2
    <2>3. \A q \in refreshed' \cap missed' : ~Pending(q)'
      BY <1>2, <1>7 DEF IInv, MapInv
    <2>4. /\ Op("map")' # "package" => fetched' = EmptyMap /\ refreshed' = {}
          /\ Free' => Op("map")' = "none"
      BY <1>2 DEF IInv, MapInv, Free, Pc, Op
    <2> QED BY <2>1, <2>2, <2>3, <2>4 DEF MapInv
  <1>10. MapIsCurrent'
    <2> SUFFICES ASSUME NEW q \in Packages \ missed', has_map', installed'[q] # NotInstalled,
                        ~Pending(q)'
                 PROVE  version_map'[q] \in {Absent, installed'[q]}
      BY DEF MapIsCurrent
    <2>1. version_map \in [Packages -> Values]
      BY TypeParts DEF IInv, MapOK
    <2>2. CASE ~Pending(q)
      <3>1. version_map'[q] = version_map[q]
        BY <1>3, <1>4, <1>7, <2>1, <2>2
      <3> QED BY <1>2, <2>2, <3>1 DEF IInv, MapIsCurrent
    <2>3. CASE Pending(q)
      <3>1. q = event.package /\ LastChange(q, 1)
        BY <1>6, <2>3
      <3>2. event.version = installed[q]
        BY <1>1, <1>2, <3>1 DEF IInv, MapInv
      <3> QED BY <1>2, <1>4, <2>1, <3>1, <3>2
    <2> QED BY <2>2, <2>3
  <1> QED BY <1>5, <1>9, <1>10 DEF IInv

-----------------------------------------------------------------------------
(* The theorems *)

LEMMA InitInv == Init => IInv
  <1> SUFFICES ASSUME Init
               PROVE  IInv
    OBVIOUS
  <1>1. EmptyMap \in [Packages -> Values]
    BY DEF EmptyMap, Values
  <1>2. installed \in Installations
    BY PackagesAssumption DEF Init, Installations
  <1>3. <<>> \in Seq(Change)
    OBVIOUS
  <1>4. TypeOK
    BY <1>1, <1>2, <1>3, AtStartTyped, TypeParts
       DEF Init, LinkOK, ServerOK, WatchOK, MapOK, MainOK
  <1>5. MapInv
    BY AtStartTyped DEF Init, MapInv, LastChange, Pending, EmptyMap, Free, Pc, Op
  <1>6. MapIsCurrent
    BY DEF Init, MapIsCurrent
  <1> QED BY <1>4, <1>5, <1>6 DEF IInv

LEMMA NextInv == IInv /\ [Next]_vars => IInv'
  <1> SUFFICES ASSUME IInv, [Next]_vars
               PROVE  IInv'
    OBVIOUS
  <1>1. "map" \in Links /\ "service" \in Links
    BY DEF Links
  <1>2. ASSUME Restart
        PROVE  IInv'
    BY <1>2, RestartKeeps DEF IInv
  <1>3. CASE MapStep
    BY <1>1, <1>2, <1>3, InvokeFailsKeeps, GetPackageServiceKeeps, WakeUpKeeps, MapConnectedKeeps,
       GetAllPackagesKeeps, StoreMapKeeps, MapCallFailsKeeps, QueryAnsweredKeeps,
       GetPackageVersionKeeps
       DEF MapStep, NullService
  <1>4. CASE ServiceStep
    BY <1>1, <1>2, <1>4, InvokeFailsKeeps, GetPackageServiceKeeps, WakeUpKeeps,
       ServiceConnectedKeeps, RegisterKeeps, LinkToDeathKeeps, BinderDiedKeeps
       DEF ServiceStep, Exit
  <1>5. CASE Requests
    BY <1>2, <1>5, UpdateAllKeeps, QueryVersionKeeps DEF Requests, UpdateAllCrashes
  <1>6. CASE OnPackageChanged
    BY <1>6, OnPackageChangedKeeps
  <1>7. CASE Environment
    BY <1>7, BootKeeps, DieKeeps, LinkToDeathFailsKeeps, ChangePackageKeeps DEF Environment
  <1>8. CASE UNCHANGED vars
    <2>1. TypeOK'
      BY <1>8 DEF IInv, TypeOK, vars, serverVars, watchVars, mapVars, history
    <2>2. MapInv' /\ MapIsCurrent'
      BY <1>8, SameMapCall
         DEF IInv, mapState, vars, serverVars, watchVars, mapVars, history
    <2> QED BY <2>1, <2>2 DEF IInv
  <1> QED BY <1>3, <1>4, <1>5, <1>6, <1>7, <1>8 DEF Next

\* The inductive invariant: the calls on their way, the answers under way and the map
\* agree with the packages that are installed, whoever dies and comes back meanwhile.
THEOREM Invariant == Spec => []IInv
  <1>1. Init => IInv
    BY InitInv
  <1>2. IInv /\ [Next]_vars => IInv'
    BY NextInv
  <1> QED BY <1>1, <1>2, PTL DEF Spec

\* Type correctness of the connections, the map and the messages on their way.
THEOREM TypeCorrect == Spec => []TypeOK
  <1>1. IInv => TypeOK
    BY DEF IInv
  <1> QED BY <1>1, Invariant, PTL

\* Post-condition of PackageVersionMap::Update and of the map as a whole: a package that
\* is installed and has no call on its way has its own version in the map, or none,
\* unless it changed while nobody observed it and no map was made since.
THEOREM Current == Spec => []MapIsCurrent
  <1>1. IInv => MapIsCurrent
    BY DEF IInv
  <1> QED BY <1>1, Invariant, PTL
=============================================================================
