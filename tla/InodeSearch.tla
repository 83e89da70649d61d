---------------------------- MODULE InodeSearch ----------------------------
(***************************************************************************)
(* The in-process inode resolver (InodeResolver, inode_resolver.cc): it    *)
(* pulls entries from a data source, a scan of the disk with readdir or a  *)
(* text cache (data_source.cc), matches them with the inodes it was asked  *)
(* for, asks stat again if it has to verify, and reports the inodes that   *)
(* it never met (search_directories.cc).  Meanwhile other processes change *)
(* the disk.  iorap.inode2filename prints what is emitted here.            *)
(***************************************************************************)
EXTENDS Integers, FiniteSets, SequencesExt

CONSTANTS
    Inodes,       \* inodes: [dev, ino]
    FileNames,    \* names that an answer may have
    Names,        \* the paths that something may be found at
    RootDirs,     \* --root: a sequence of names
    Parent,       \* the directory each name is in (a root is in none)
    Disks,        \* what the disk may hold at first: [Names -> nodes]
    Changing,     \* the names that other processes change
    NewNodes,     \* what they may put there
    Caches,       \* text caches: sequences of lines
    Requests,     \* what is asked for: [request, list]
    Options,      \* how: [source, verify]
    MaxChanges,   \* bound on changes of the disk
    MaxFaults     \* bound on calls that fail, and on kills

Types == {"dir", "reg", "lnk", "other", "unknown"}
Nodes == [inode : Inodes, type : Types, target : STRING]
CacheLines == [kind : {"row", "nameless", "garbage"}, inode : Inodes, name : FileNames]

ASSUME SearchAssumption ==
    /\ IsFiniteSet(Names) /\ Names \subseteq FileNames /\ "" \notin Names
    /\ FileNames \subseteq STRING
    /\ Inodes \subseteq [dev : Nat, ino : Nat]
    /\ RootDirs \in Seq(Names) /\ Changing \subseteq Names
    /\ Disks \subseteq [Names -> Nodes] /\ NewNodes \subseteq Nodes
    /\ Caches \subseteq Seq(CacheLines)
    /\ Requests \subseteq [request : {"find", "all"}, list : SUBSET Inodes]
    /\ \A r \in Requests : IsFiniteSet(r.list)
    /\ Options \subseteq [source : {"diskscan", "textcache"}, verify : {"none", "stat"}]
    /\ MaxChanges \in Nat /\ MaxFaults \in Nat

VARIABLES
    disk,       \* what is at each name
    touched,    \* names that were changed since the start
    faults,     \* calls that failed so far
    request,    \* "find" or "all"
    list,       \* inode_list
    option,     \* data_source and verify
    cache,      \* the lines of the text cache
    stage,      \* where the search is
    pending,    \* the entry that is being looked at, and those still to come
    candidate,  \* the match that stat has still to verify
    remaining,  \* inode_set
    scanned,    \* something was emitted into the scan
    stream,     \* the results so far
    held,       \* history: which inode each name has led to since the start
    late_reads  \* history: directories read with nothing left to find

diskVars == <<disk, touched>>
askVars == <<request, list, option, cache>>
pullVars == <<stage, pending, candidate, late_reads>>
searchVars == <<pullVars, remaining, scanned, stream>>
sVars == <<diskVars, faults, askVars, searchVars, held>>

-----------------------------------------------------------------------------
(* The disk, and the entries of the sources.                               *)

NoInode == [dev |-> -1, ino |-> -1]
Absent == [inode |-> NoInode, type |-> "absent", target |-> ""]
NodeAt(name) == IF name \in Names THEN disk[name] ELSE Absent

\* stat(2) follows links, readdir(3) does not.
Stat(name) == IF NodeAt(name).type = "lnk" THEN NodeAt(NodeAt(name).target) ELSE NodeAt(name)
Holdings == {<<Stat(n).inode, n>> : n \in {m \in Names : Stat(m).type # "absent"}}

\* readdir returns the file's number and not its device: -1 stands in.
ScanEntry(name, ino, type) == [name |-> name, inode |-> [dev |-> -1, ino |-> ino], type |-> type]
DirectoryEntryError == ScanEntry("", -1, "error")
Sentinel == ScanEntry("", -1, "dir")
RootEntries == [k \in DOMAIN RootDirs |-> ScanEntry(RootDirs[k], -1, "dir")]

\* Devices and sockets are left out; an unknown type is an error.
Children(dir) == {n \in Names : Parent[n] = dir /\ disk[n].type \notin {"absent", "other"}}
ReadEntry(name) ==
    IF disk[name].type = "unknown" THEN DirectoryEntryError
    ELSE ScanEntry(name, disk[name].inode.ino, disk[name].type)
ReadDirectoryEntries(dir) ==
    IF Stat(dir).type # "dir" THEN {<<DirectoryEntryError>>}
    ELSE {[k \in DOMAIN order |-> ReadEntry(order[k])] : order \in SetToSeqs(Children(dir))}

\* A line that is no number ends the cache for good, as if the file ended; a line
\* without a name is ignored.
CacheEntries(lines) ==
    LET Named(k) == lines[k].kind = "row" /\ \A j \in 1 .. k : lines[j].kind # "garbage"
    IN [k \in 1 .. Len(lines) |->
          IF Named(k) THEN [name |-> lines[k].name, inode |-> lines[k].inode, type |-> "row"]
          ELSE DirectoryEntryError]

NoResult == [inode |-> NoInode, name |-> "", error |-> ""]
MakeSuccess(i, name) == [inode |-> i, name |-> name, error |-> ""]
MakeFailure(i, code) == [inode |-> i, name |-> "", error |-> code]
IsSuccess(result) == result.error = ""

DiskScan == option.source = "diskscan"
Faulty == faults < MaxFaults /\ faults' = faults + 1
NoFault == UNCHANGED faults

-----------------------------------------------------------------------------
Init ==
    /\ disk \in Disks /\ option \in Options
    /\ cache \in IF DiskScan THEN {<<>>} ELSE Caches
    /\ \E r \in Requests : request = r.request /\ list = r.list
    /\ touched = {} /\ faults = 0 /\ held = {} /\ late_reads = 0
    /\ stage = "off" /\ pending = <<>> /\ candidate = NoResult
    /\ remaining = {} /\ scanned = FALSE /\ stream = <<>>

\* EmitInodes, subscribed to.
Begin ==
    /\ stage = "off"
    /\ stage' = "pull"
    /\ pending' = IF DiskScan THEN <<Sentinel>> ELSE CacheEntries(cache)
    /\ remaining' = list
    /\ held' = Holdings
    /\ UNCHANGED <<diskVars, faults, askVars, candidate, late_reads, scanned, stream>>

\* The text cache does not open: on_error.
BeginWithoutCache ==
    /\ stage = "off" /\ ~DiskScan
    /\ Faulty
    /\ stage' = "error"
    /\ UNCHANGED <<diskVars, askVars, pending, candidate, late_reads, remaining, scanned,
                   stream, held>>

-----------------------------------------------------------------------------
(* The pipeline looks at one entry.                                        *)

Pulled == stage = "pull" /\ pending # <<>>
Pending == Head(pending)

\* Nothing but a directory has children.
Continue ==
    IF Pending.type = "dir"
    THEN stage' = "expand" /\ UNCHANGED pending
    ELSE stage' = "pull" /\ pending' = Tail(pending)

Emit(result) ==
    IF option.verify = "stat"
    THEN stage' = "verify" /\ candidate' = result /\ UNCHANGED <<pending, stream>>
    ELSE stream' = Append(stream, result) /\ Continue /\ UNCHANGED candidate

\* Errors of a scan are logged and dropped.
DropError ==
    /\ Pulled /\ Pending.type = "error"
    /\ pending' = Tail(pending)
    /\ UNCHANGED <<diskVars, faults, askVars, stage, candidate, late_reads, remaining,
                   scanned, stream, held>>

\* Inodes with the entry's number, on whatever device.
FindInodeList == {i \in remaining : i.ino = Pending.inode.ino}

\* Mutant: the device is not compared.
FindInodeInListAnyDevice == FindInodeList

\* The one that is also on the device that stat, or the cache, says.
FindInodeInList ==
    LET found == IF DiskScan THEN Stat(Pending.name).inode ELSE Pending.inode
    IN {i \in FindInodeList : i = found}

Searching == Pulled /\ Pending.type # "error" /\ request = "find"

\* Mutant: "Erase the inode from the list. This is important."
MatchKeepsInode ==
    /\ Searching /\ NoFault
    /\ \E i \in FindInodeInList : Emit(MakeSuccess(i, Pending.name))
    /\ scanned' = TRUE
    /\ UNCHANGED <<diskVars, askVars, late_reads, remaining, held>>

Match ==
    /\ Searching /\ NoFault
    /\ \E i \in FindInodeInList :
         /\ remaining' = remaining \ {i}
         /\ Emit(MakeSuccess(i, Pending.name))
    /\ scanned' = TRUE
    /\ UNCHANGED <<diskVars, askVars, late_reads, held>>

\* Not what is searched for, or stat failed.
SkipAlways ==
    /\ Searching
    /\ \/ FindInodeInList = {} /\ NoFault
       \/ DiskScan /\ FindInodeList # {} /\ Faulty
    /\ Continue
    /\ scanned' = TRUE
    /\ UNCHANGED <<diskVars, askVars, candidate, late_reads, remaining, stream, held>>

Skip == remaining # {} /\ SkipAlways

\* take_while: the entry after the last match ends the search.
Stop ==
    /\ Searching /\ remaining = {}
    /\ stage' = "completed" /\ pending' = <<>>
    /\ UNCHANGED <<diskVars, faults, askVars, candidate, late_reads, remaining, scanned,
                   stream, held>>

\* EmitAllFilenames: every entry, with the inode that stat gives.
Listing == Pulled /\ Pending.type # "error" /\ request = "all"

ListEntry ==
    /\ Listing /\ NoFault
    /\ DiskScan => Stat(Pending.name).type # "absent"
    /\ LET i == IF DiskScan THEN Stat(Pending.name).inode ELSE Pending.inode
       IN Emit(MakeSuccess(i, Pending.name))
    /\ UNCHANGED <<diskVars, askVars, late_reads, remaining, scanned, held>>

ListNothing ==
    /\ Listing /\ DiskScan
    /\ \/ Stat(Pending.name).type = "absent" /\ NoFault
       \/ Faulty
    /\ Continue
    /\ UNCHANGED <<diskVars, askVars, candidate, late_reads, remaining, scanned, stream, held>>

\* A second stat: is the name still the inode's?
Verified == IF Stat(candidate.name).inode = candidate.inode THEN candidate
            ELSE MakeFailure(candidate.inode, "kVerificationFailed")

Verify ==
    /\ stage = "verify"
    /\ \/ stream' = Append(stream, Verified) /\ NoFault
       \/ stream' = Append(stream, MakeFailure(candidate.inode, "errno")) /\ Faulty
    /\ candidate' = NoResult
    /\ Continue
    /\ UNCHANGED <<diskVars, askVars, late_reads, remaining, scanned, held>>

\* The children come next, all of them read at once.
Expand ==
    /\ stage = "expand"
    /\ stage' = "pull"
    /\ \/ Pending = Sentinel /\ pending' = RootEntries \o Tail(pending) /\ NoFault
       \/ /\ Pending # Sentinel /\ NoFault
          /\ \E order \in ReadDirectoryEntries(Pending.name) :
               pending' = order \o Tail(pending)
       \/ /\ Pending # Sentinel /\ Faulty
          /\ \E order \in ReadDirectoryEntries(Pending.name) : \E n \in 0..Len(order) :
               pending' = SubSeq(order, 1, n) \o <<DirectoryEntryError>> \o Tail(pending)
    /\ late_reads' = IF Pending # Sentinel /\ request = "find" /\ remaining = {}
                     THEN late_reads + 1 ELSE late_reads
    /\ UNCHANGED <<diskVars, askVars, candidate, remaining, scanned, stream, held>>

-----------------------------------------------------------------------------
(* The source has no more.  What is left is unmatched, if the scan emitted *)
(* any state to take it from.                                              *)
SourceEnds ==
    /\ stage = "pull" /\ pending = <<>>
    /\ stage' = IF request = "find" /\ scanned THEN "unmatched" ELSE "completed"
    /\ UNCHANGED <<diskVars, faults, askVars, pending, candidate, late_reads, remaining,
                   scanned, stream, held>>

NotFound ==
    /\ stage = "unmatched"
    /\ \E i \in remaining :
         /\ remaining' = remaining \ {i}
         /\ stream' = Append(stream, MakeFailure(i, "kCouldNotFindFilename"))
    /\ UNCHANGED <<diskVars, faults, askVars, pullVars, scanned, held>>

Complete ==
    /\ stage = "unmatched" /\ remaining = {}
    /\ stage' = "completed"
    /\ UNCHANGED <<diskVars, faults, askVars, pending, candidate, late_reads, remaining,
                   scanned, stream, held>>

-----------------------------------------------------------------------------
(* Everything the search does, and what others do meanwhile.               *)
Pull == DropError \/ Match \/ Skip \/ Stop \/ ListEntry \/ ListNothing
Search ==
    \/ Begin \/ BeginWithoutCache
    \/ Pull \/ Verify \/ Expand
    \/ SourceEnds \/ NotFound \/ Complete

\* Another process replaces or removes a file.
Change ==
    /\ Cardinality(touched) < MaxChanges
    /\ stage \notin {"off", "completed", "error"}
    /\ \E n \in Changing, node \in NewNodes \cup {Absent} :
         disk' = [disk EXCEPT ![n] = node] /\ touched' = touched \cup {n}
    /\ held' = held \cup Holdings'
    /\ UNCHANGED <<faults, askVars, searchVars>>

Next == Search \/ Change
Spec == Init /\ [][Next]_sVars

-----------------------------------------------------------------------------
(* Properties                                                              *)

Stages == {"off", "pull", "verify", "expand", "unmatched", "completed", "error"}
ScanEntries == [name : Names \cup {""}, inode : [dev : {-1}, ino : Int],
                type : Types \cup {"error"}]
Rows == [name : FileNames, inode : Inodes, type : {"row"}]
Entries == IF DiskScan THEN ScanEntries ELSE Rows \cup {DirectoryEntryError}
Errors == {"", "kCouldNotFindFilename", "kVerificationFailed", "errno"}
Results == [inode : Inodes, name : FileNames \cup {""}, error : Errors]

\* The search's variables are of their types.
SearchTypeOK ==
    /\ disk \in [Names -> Nodes \cup {Absent}] /\ touched \subseteq Changing
    /\ faults \in Nat /\ late_reads \in Nat /\ scanned \in BOOLEAN
    /\ request \in {"find", "all"} /\ list \subseteq Inodes /\ IsFiniteSet(list)
    /\ option \in [source : {"diskscan", "textcache"}, verify : {"none", "stat"}]
    /\ cache \in Seq(CacheLines)
    /\ stage \in Stages /\ pending \in Seq(Entries)
    /\ stage \in {"verify", "expand"} => pending # <<>>
    /\ stage = "expand" => Pending.type = "dir"
    /\ candidate \in IF stage = "verify" THEN Results ELSE {NoResult}
    /\ remaining \subseteq list
    /\ stream \in Seq(Results)

Told == {stream[k].inode : k \in DOMAIN stream}
Verifying == IF stage = "verify" THEN {candidate.inode} ELSE {}

\* Every inode that is searched for is in one place: still in the set, with stat
\* for verification, or told, and then once.
Accounted ==
    request = "find" =>
       /\ \A j, k \in DOMAIN stream : stream[j].inode = stream[k].inode => j = k
       /\ Told \cap remaining = {}
       /\ Verifying \cap (remaining \cup Told) = {}
       /\ Verifying \cup Told \subseteq list
       /\ stage \notin {"off", "error"} => list = remaining \cup Verifying \cup Told

\* Nobody changed the name, nor what it links to.
Steady(n) == {n, disk[n].target} \cap touched = {}

\* readdir gives the name, with its type.
Shown(n) == Steady(n) /\ disk[n].type \notin {"absent", "other", "unknown"}

\* A scan reads what is in a directory; it follows links to the roots alone.
Roots == ToSet(RootDirs)
Read(d) == Steady(d) /\ "dir" = IF d \in Roots THEN Stat(d).type ELSE disk[d].type

\* The names a scan has to meet: the roots, and what is in directories that it met.
Meets(names) ==
    /\ Roots \subseteq names
    /\ \A n \in Names : Parent[n] \in names /\ Read(Parent[n]) /\ Shown(n) => n \in names
Met == {n \in Names : \A names \in SUBSET Names : Meets(names) => n \in names}

\* The inode is at a name below the roots, and a scan can see it there.
IsAt(i, n) ==
    /\ n \in Names \ Roots /\ Shown(n)
    /\ disk[n].inode.ino = i.ino /\ Stat(n).inode = i

\* A name that is answered led to its inode at some moment of the search.  A cache
\* that is not verified is believed.
NamesLedThere ==
    \A k \in DOMAIN stream :
       IsSuccess(stream[k]) /\ (DiskScan \/ option.verify = "stat")
          => <<stream[k].inode, stream[k].name>> \in held

\* An inode could not be found only if no file that stayed in its place has it,
\* unless a call failed.
MissesAreGone ==
    DiskScan /\ faults = 0 =>
       \A k \in DOMAIN stream, n \in Names :
          stream[k].error = "kCouldNotFindFilename" /\ IsAt(stream[k].inode, n) => n \notin Met

\* What is answered was so on the disk, however it changes under the scan.
AnswersAreTrue == NamesLedThere /\ MissesAreGone

\* "we essentially did one redundant pass of doing a readdir": with the last inode
\* found the scan reads one directory more at most.
HaltsAfterLastInode == late_reads <= 1
=============================================================================
