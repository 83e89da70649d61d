------------------------ MODULE InodeResolverProofs ------------------------
(***************************************************************************)
(* Proofs about the out-of-process resolver: IInv is inductive, a scan     *)
(* reads one directory too many at most, names that are answered led to    *)
(* their inodes and nothing that stayed is missed, and InodeResolver       *)
(* implements ResolverContract.                                            *)
(***************************************************************************)
EXTENDS InodeResolver, FiniteSetTheorems, SequenceTheorems, TLAPS

-----------------------------------------------------------------------------
(* The data: what stat and the sources give.                               *)

\* What the assumptions say of inodes and names.
LEMMA Names_Inodes ==
    /\ Inodes \subseteq [dev : Nat, ino : Nat]
    /\ IsFiniteSet(Names) /\ Names \subseteq FileNames
    /\ RootDirs \in Seq(Names) /\ Changing \subseteq Names
    /\ NewNodes \subseteq Nodes
  BY SearchAssumption

LEMMA NoInodeIsNone == NoInode \notin Inodes
<1>1. NoInode.dev = -1
      BY DEF NoInode
<1>2. \A i \in Inodes : i.dev \in Nat
      BY Names_Inodes
<1> QED BY <1>1, <1>2

\* A file that stat finds has an inode.
LEMMA StatFinds ==
    ASSUME SearchTypeOK, NEW name
    PROVE  /\ Stat(name) \in Nodes \cup {Absent}
           /\ Stat(name).type # "absent" => Stat(name).inode \in Inodes
           /\ Stat(name).inode \in Inodes => Stat(name).type # "absent"
           /\ Stat(name).type # "absent" => name \in Names
<1>1. \A n : NodeAt(n) \in Nodes \cup {Absent}
      BY DEF SearchTypeOK, NodeAt
<1>2. Stat(name) \in Nodes \cup {Absent}
      BY <1>1 DEF Stat
<1>4. Stat(name).type # "absent" => name \in Names
      BY DEF Stat, NodeAt, Absent
<1>5. Absent.type = "absent" /\ Absent.inode = NoInode
      BY DEF Absent
<1>6. \A node \in Nodes : node.type # "absent" /\ node.inode \in Inodes
      BY DEF Nodes, Types
<1> QED BY <1>2, <1>4, <1>5, <1>6, NoInodeIsNone

LEMMA MinusOne == -1 \in Int
  BY SMT

LEMMA ScanEntryType ==
    ASSUME NEW name \in Names \cup {""}, NEW ino \in Int, NEW type \in Types \cup {"error"}
    PROVE  ScanEntry(name, ino, type) \in ScanEntries
  BY DEF ScanEntry, ScanEntries

LEMMA ErrorIsEntry == DirectoryEntryError \in Entries
<1>1. DirectoryEntryError \in ScanEntries
      BY MinusOne, ScanEntryType DEF DirectoryEntryError
<1> QED BY <1>1 DEF Entries

LEMMA DirectoryIsEntry ==
    ASSUME DiskScan, NEW name \in Names \cup {""}
    PROVE  ScanEntry(name, -1, "dir") \in Entries
<1>1. ScanEntry(name, -1, "dir") \in ScanEntries
      BY MinusOne, ScanEntryType DEF Types
<1> QED BY <1>1 DEF Entries

\* The entries of a directory are a sequence of entries.
LEMMA ReadsEntries ==
    ASSUME SearchTypeOK, DiskScan, NEW dir, NEW order \in ReadDirectoryEntries(dir)
    PROVE  order \in Seq(Entries)
<1>1. DirectoryEntryError \in Entries
      BY ErrorIsEntry
<1>2. CASE Stat(dir).type # "dir"
  <2>1. order = <<DirectoryEntryError>>
        BY <1>2 DEF ReadDirectoryEntries
  <2> QED BY <1>1, <2>1
<1>3. CASE Stat(dir).type = "dir"
  <2>1. PICK names \in SetToSeqs(Children(dir)) : order = [k \in DOMAIN names |-> ReadEntry(names[k])]
        BY <1>3 DEF ReadDirectoryEntries
  <2>2. IsFiniteSet(Children(dir)) /\ Children(dir) \subseteq Names
        BY Names_Inodes, FS_Subset DEF Children
  <2>3. Cardinality(Children(dir)) \in Nat
        BY <2>2, FS_CardinalityType
  <2>4. names \in [1 .. Cardinality(Children(dir)) -> Children(dir)]
        BY <2>1 DEF SetToSeqs
  <2>5. \A n \in Children(dir) : ReadEntry(n) \in Entries
    <3>1. SUFFICES ASSUME NEW n \in Children(dir), disk[n].type # "unknown"
                   PROVE  ScanEntry(n, disk[n].inode.ino, disk[n].type) \in ScanEntries
          BY <1>1 DEF ReadEntry, Entries
    <3>2. n \in Names /\ disk[n].type # "absent"
          BY DEF Children
    <3>3. disk[n] \in Nodes
      <4>1. disk[n] \in Nodes \cup {Absent}
            BY <3>2 DEF SearchTypeOK
      <4>2. Absent.type = "absent"
            BY DEF Absent
      <4> QED BY <3>2, <4>1, <4>2
    <3>4. disk[n].inode.ino \in Int /\ disk[n].type \in Types
          BY <3>3, Names_Inodes DEF Nodes
    <3> QED BY <3>2, <3>4, ScanEntryType
  <2>6. order \in [1 .. Cardinality(Children(dir)) -> Entries]
        BY <2>1, <2>4, <2>5
  <2> QED BY <2>3, <2>6, SeqDef
<1> QED BY <1>2, <1>3

LEMMA RootsAreEntries ==
    ASSUME DiskScan
    PROVE  RootEntries \in Seq(Entries)
<1>1. \A n \in Names : ScanEntry(n, -1, "dir") \in Entries
      BY DirectoryIsEntry
<1>2. /\ Len(RootDirs) \in Nat /\ DOMAIN RootDirs = 1 .. Len(RootDirs)
      /\ \A k \in 1 .. Len(RootDirs) : RootDirs[k] \in Names
      BY Names_Inodes
<1>3. RootEntries = [k \in 1 .. Len(RootDirs) |-> ScanEntry(RootDirs[k], -1, "dir")]
      BY <1>2 DEF RootEntries
<1>4. \A k \in 1 .. Len(RootDirs) : ScanEntry(RootDirs[k], -1, "dir") \in Entries
      BY <1>1, <1>2
<1>5. RootEntries \in [1 .. Len(RootDirs) -> Entries]
      BY <1>3, <1>4
<1> QED BY <1>2, <1>5, SeqDef

LEMMA CacheHasEntries ==
    ASSUME SearchTypeOK, ~DiskScan
    PROVE  CacheEntries(cache) \in Seq(Entries)
<1>1. cache \in Seq(CacheLines)
      BY DEF SearchTypeOK
<1>2. Len(cache) \in Nat /\ \A k \in 1 .. Len(cache) : cache[k] \in CacheLines
      BY <1>1
<1>3. DirectoryEntryError \in Entries
      BY DEF Entries
<1>4. \A line \in CacheLines : [name |-> line.name, inode |-> line.inode, type |-> "row"] \in Entries
      BY DEF Entries, CacheLines, Rows
<1>5. CacheEntries(cache) \in [1 .. Len(cache) -> Entries]
      BY <1>2, <1>3, <1>4 DEF CacheEntries
<1> QED BY <1>2, <1>5, SeqDef

-----------------------------------------------------------------------------
(* The search's variables are of their types.                              *)

PullTypeOK ==
    /\ stage \in Stages /\ pending \in Seq(Entries)
    /\ stage \in {"verify", "expand"} => pending # <<>>
    /\ stage = "expand" => Pending.type = "dir"

CandidateTypeOK == candidate \in IF stage = "verify" THEN Results ELSE {NoResult}

OutTypeOK ==
    /\ faults \in Nat /\ late_reads \in Nat /\ scanned \in BOOLEAN
    /\ remaining \subseteq list /\ stream \in Seq(Results)

LEMMA TypeParts ==
    ASSUME SearchTypeOK, UNCHANGED <<diskVars, askVars>>,
           PullTypeOK', CandidateTypeOK', OutTypeOK'
    PROVE  SearchTypeOK'
  BY DEF SearchTypeOK, PullTypeOK, CandidateTypeOK, OutTypeOK, diskVars, askVars, Pending

LEMMA HeadIsEntry ==
    ASSUME SearchTypeOK, pending # <<>>
    PROVE  Pending \in Entries /\ Tail(pending) \in Seq(Entries)
  BY DEF SearchTypeOK, Pending

LEMMA ContinueType ==
    ASSUME SearchTypeOK, pending # <<>>, Continue, UNCHANGED option
    PROVE  PullTypeOK' /\ stage' \in {"pull", "expand"}
<1>1. Entries' = Entries
      BY DEF Entries, DiskScan
<1>2. pending \in Seq(Entries)
      BY DEF SearchTypeOK
<1>3. CASE Pending.type = "dir"
      BY <1>1, <1>2, <1>3 DEF Continue, PullTypeOK, Stages, Pending
<1>4. CASE Pending.type # "dir"
      BY <1>1, <1>4, HeadIsEntry DEF Continue, PullTypeOK, Stages
<1> QED BY <1>3, <1>4

LEMMA EmitType ==
    ASSUME SearchTypeOK, Pulled, UNCHANGED option,
           NEW result \in Results, Emit(result)
    PROVE  PullTypeOK' /\ CandidateTypeOK' /\ stream' \in Seq(Results)
<1>0. stream \in Seq(Results) /\ pending # <<>> /\ pending \in Seq(Entries)
      BY DEF SearchTypeOK, Pulled
<1>1. CASE option.verify = "stat"
  <2>1. stage' = "verify" /\ candidate' = result /\ pending' = pending /\ stream' = stream
        BY <1>1 DEF Emit
  <2>2. Entries' = Entries
        BY DEF Entries, DiskScan
  <2> QED BY <1>0, <2>1, <2>2 DEF PullTypeOK, CandidateTypeOK, Stages
<1>2. CASE option.verify # "stat"
  <2>1. stream' = Append(stream, result) /\ Continue /\ candidate' = candidate
        BY <1>2 DEF Emit
  <2>2. candidate = NoResult
        BY DEF SearchTypeOK, Pulled
  <2>3. PullTypeOK' /\ stage' \in {"pull", "expand"}
        BY <2>1, <1>0, ContinueType
  <2> QED BY <1>0, <2>1, <2>2, <2>3 DEF CandidateTypeOK
<1> QED BY <1>1, <1>2

LEMMA Named ==
    ASSUME SearchTypeOK, Pulled
    PROVE  /\ Pending.name \in FileNames \cup {""}
           /\ ~DiskScan /\ Pending.type # "error" => Pending.inode \in Inodes
<1>1. Pending \in Entries
      BY HeadIsEntry DEF Pulled
<1>2. Pending \in ScanEntries \/ Pending \in Rows \/ Pending = DirectoryEntryError
      BY <1>1 DEF Entries
<1>3. Names \subseteq FileNames
      BY Names_Inodes
<1>4. DirectoryEntryError.name = "" /\ DirectoryEntryError.type = "error"
      BY DEF DirectoryEntryError, ScanEntry
<1>5. ~DiskScan => Pending \in Rows \/ Pending = DirectoryEntryError
      BY <1>1 DEF Entries
<1> QED BY <1>2, <1>3, <1>4, <1>5 DEF ScanEntries, Rows

LEMMA SuccessIsResult ==
    ASSUME NEW i \in Inodes, NEW name \in FileNames \cup {""}
    PROVE  MakeSuccess(i, name) \in Results
  BY DEF MakeSuccess, Results, Errors

LEMMA FailureIsResult ==
    ASSUME NEW i \in Inodes, NEW code \in Errors
    PROVE  MakeFailure(i, code) \in Results
  BY DEF MakeFailure, Results

LEMMA SearchKeepsType ==
    ASSUME SearchTypeOK, Search
    PROVE  SearchTypeOK'
<1> USE DEF searchVars, pullVars, askVars, diskVars
<1>0. /\ faults \in Nat /\ late_reads \in Nat /\ scanned \in BOOLEAN
      /\ remaining \subseteq list /\ list \subseteq Inodes /\ stream \in Seq(Results)
      /\ stage \in Stages /\ pending \in Seq(Entries)
      /\ (stage # "verify" => candidate = NoResult)
      BY DEF SearchTypeOK
<1>1. UNCHANGED <<diskVars, askVars>>
      BY DEF Search, Begin, BeginWithoutCache, Pull, DropError, Match, Skip, SkipAlways, Stop,
             ListEntry, ListNothing, Verify, Expand, SourceEnds, NotFound, Complete
<1>2. Entries' = Entries /\ list' = list /\ option' = option /\ (DiskScan' <=> DiskScan)
      BY <1>1 DEF Entries, DiskScan
<1>3. (Faulty \/ NoFault) => faults' \in Nat
      BY <1>0 DEF Faulty, NoFault
<1>4. CASE Begin
  <2>1. DiskScan => <<Sentinel>> \in Seq(Entries)
    <3>1. DiskScan => Sentinel \in Entries
          BY DirectoryIsEntry DEF Sentinel
    <3> QED BY <3>1
  <2>2. pending' \in Seq(Entries)
        BY <1>4, <2>1, CacheHasEntries DEF Begin
  <2>3. PullTypeOK'
        BY <1>4, <1>2, <2>2 DEF Begin, PullTypeOK, Stages
  <2>4. CandidateTypeOK' /\ OutTypeOK'
        BY <1>4, <1>0, <1>2 DEF Begin, CandidateTypeOK, OutTypeOK
  <2> QED BY <1>1, <2>3, <2>4, TypeParts
<1>5. CASE BeginWithoutCache
  <2>1. PullTypeOK'
        BY <1>5, <1>0, <1>2 DEF BeginWithoutCache, PullTypeOK, Stages
  <2>2. CandidateTypeOK' /\ OutTypeOK'
        BY <1>5, <1>0, <1>2, <1>3 DEF BeginWithoutCache, CandidateTypeOK, OutTypeOK
  <2> QED BY <1>1, <2>1, <2>2, TypeParts
<1>6. CASE DropError
  <2>1. pending' \in Seq(Entries) /\ stage' = "pull"
        BY <1>6, HeadIsEntry DEF DropError, Pulled
  <2>2. PullTypeOK'
        BY <2>1, <1>2 DEF PullTypeOK, Stages
  <2>3. CandidateTypeOK' /\ OutTypeOK'
        BY <1>6, <1>0, <1>2, <2>1 DEF DropError, Pulled, CandidateTypeOK, OutTypeOK
  <2> QED BY <1>1, <2>2, <2>3, TypeParts
<1>7. CASE Match
  <2>1. PICK i \in FindInodeInList : /\ remaining' = remaining \ {i}
                                     /\ Emit(MakeSuccess(i, Pending.name))
        BY <1>7 DEF Match
  <2>2. i \in remaining
        BY <2>1 DEF FindInodeInList, FindInodeList
  <2>3. Pulled
        BY <1>7 DEF Match, Searching
  <2>4. MakeSuccess(i, Pending.name) \in Results
        BY <1>0, <2>2, <2>3, Named, SuccessIsResult
  <2>5. PullTypeOK' /\ CandidateTypeOK' /\ stream' \in Seq(Results)
        BY <1>2, <2>1, <2>3, <2>4, EmitType
  <2>6. OutTypeOK'
        BY <1>7, <1>0, <1>2, <1>3, <2>1, <2>5 DEF Match, OutTypeOK
  <2> QED BY <1>1, <2>5, <2>6, TypeParts
<1>8. CASE Skip
  <2>1. Pulled /\ Continue
        BY <1>8 DEF Skip, SkipAlways, Searching
  <2>2. PullTypeOK' /\ stage' \in {"pull", "expand"}
        BY <1>2, <2>1, ContinueType DEF Pulled
  <2>3. CandidateTypeOK' /\ OutTypeOK'
        BY <1>8, <1>0, <1>2, <1>3, <2>1, <2>2
        DEF Skip, SkipAlways, Pulled, CandidateTypeOK, OutTypeOK
  <2> QED BY <1>1, <2>2, <2>3, TypeParts
<1>9. CASE Stop
  <2>1. PullTypeOK'
        BY <1>9, <1>2 DEF Stop, PullTypeOK, Stages
  <2>2. CandidateTypeOK' /\ OutTypeOK'
        BY <1>9, <1>0, <1>2 DEF Stop, Searching, Pulled, CandidateTypeOK, OutTypeOK
  <2> QED BY <1>1, <2>1, <2>2, TypeParts
<1>10. CASE ListEntry
  <2>0. Pulled
        BY <1>10 DEF ListEntry, Listing
  <2>1. PICK i : /\ i = IF DiskScan THEN Stat(Pending.name).inode ELSE Pending.inode
                 /\ Emit(MakeSuccess(i, Pending.name))
        BY <1>10 DEF ListEntry
  <2>2. i \in Inodes
        BY <1>10, <2>0, <2>1, StatFinds, Named DEF ListEntry, Listing
  <2>3. MakeSuccess(i, Pending.name) \in Results
        BY <2>0, <2>2, Named, SuccessIsResult
  <2>4. PullTypeOK' /\ CandidateTypeOK' /\ stream' \in Seq(Results)
        BY <1>2, <2>0, <2>1, <2>3, EmitType
  <2>5. OutTypeOK'
        BY <1>10, <1>0, <1>2, <1>3, <2>4 DEF ListEntry, OutTypeOK
  <2> QED BY <1>1, <2>4, <2>5, TypeParts
<1>11. CASE ListNothing
  <2>1. Pulled /\ Continue
        BY <1>11 DEF ListNothing, Listing
  <2>2. PullTypeOK' /\ stage' \in {"pull", "expand"}
        BY <1>2, <2>1, ContinueType DEF Pulled
  <2>3. CandidateTypeOK' /\ OutTypeOK'
        BY <1>11, <1>0, <1>2, <1>3, <2>1, <2>2 DEF ListNothing, Pulled, CandidateTypeOK, OutTypeOK
  <2> QED BY <1>1, <2>2, <2>3, TypeParts
<1>12. CASE Verify
  <2>1. pending # <<>> /\ candidate \in Results
        BY <1>12 DEF Verify, SearchTypeOK
  <2>2. PullTypeOK' /\ stage' \in {"pull", "expand"}
        BY <1>12, <1>2, <2>1, ContinueType DEF Verify
  <2>3. candidate.inode \in Inodes
        BY <2>1 DEF Results
  <2>4. Verified \in Results /\ MakeFailure(candidate.inode, "errno") \in Results
        BY <2>1, <2>3, FailureIsResult DEF Verified, Errors
  <2>5. stream' \in Seq(Results) /\ faults' \in Nat
        BY <1>12, <1>0, <1>3, <2>4 DEF Verify
  <2>6. CandidateTypeOK' /\ OutTypeOK'
        BY <1>12, <1>0, <1>2, <2>2, <2>5 DEF Verify, CandidateTypeOK, OutTypeOK
  <2> QED BY <1>1, <2>2, <2>6, TypeParts
<1>13. CASE Expand
  <2>0. pending # <<>> /\ Pending.type = "dir" /\ Pending \in Entries /\ Tail(pending) \in Seq(Entries)
        BY <1>13, HeadIsEntry DEF Expand, SearchTypeOK
  <2>1. DiskScan
    <3>1. \A r \in Rows : r.type = "row"
          BY DEF Rows
    <3>2. DirectoryEntryError.type = "error"
          BY DEF DirectoryEntryError, ScanEntry
    <3> QED BY <2>0, <3>1, <3>2 DEF Entries
  <2>2. RootEntries \in Seq(Entries)
        BY <2>1, RootsAreEntries
  <2>3. <<DirectoryEntryError>> \in Seq(Entries)
        BY ErrorIsEntry
  <2>4. pending' \in Seq(Entries)
    <3>1. CASE pending' = RootEntries \o Tail(pending)
          BY <3>1, <2>0, <2>2
    <3>2. ASSUME NEW order \in ReadDirectoryEntries(Pending.name), pending' = order \o Tail(pending)
          PROVE  pending' \in Seq(Entries)
          BY <3>2, <2>0, <2>1, ReadsEntries
    <3>3. ASSUME NEW order \in ReadDirectoryEntries(Pending.name), NEW n \in 0 .. Len(order),
                 pending' = SubSeq(order, 1, n) \o <<DirectoryEntryError>> \o Tail(pending)
          PROVE  pending' \in Seq(Entries)
      <4>1. order \in Seq(Entries)
            BY <2>1, ReadsEntries
      <4>2. SubSeq(order, 1, n) \in Seq(Entries)
            BY <4>1
      <4> QED BY <3>3, <4>2, <2>0, <2>3
    <3> QED BY <1>13, <3>1, <3>2, <3>3 DEF Expand
  <2>5. PullTypeOK'
        BY <1>13, <1>2, <2>4 DEF Expand, PullTypeOK, Stages
  <2>6. faults' \in Nat
        BY <1>13, <1>3 DEF Expand
  <2>8. late_reads' \in Nat
    <3>1. late_reads' = late_reads + 1 \/ late_reads' = late_reads
          BY <1>13 DEF Expand
    <3> QED BY <3>1, <1>0
  <2>7. CandidateTypeOK' /\ OutTypeOK'
        BY <1>13, <1>0, <1>2, <2>6, <2>8 DEF Expand, CandidateTypeOK, OutTypeOK
  <2> QED BY <1>1, <2>5, <2>7, TypeParts
<1>14. CASE SourceEnds
  <2>1. PullTypeOK'
        BY <1>14, <1>0, <1>2 DEF SourceEnds, PullTypeOK, Stages
  <2>2. CandidateTypeOK' /\ OutTypeOK'
        BY <1>14, <1>0, <1>2 DEF SourceEnds, CandidateTypeOK, OutTypeOK
  <2> QED BY <1>1, <2>1, <2>2, TypeParts
<1>15. CASE NotFound
  <2>1. PICK i \in remaining : /\ remaining' = remaining \ {i}
                               /\ stream' = Append(stream, MakeFailure(i, "kCouldNotFindFilename"))
        BY <1>15 DEF NotFound
  <2>2. MakeFailure(i, "kCouldNotFindFilename") \in Results
        BY <1>0, FailureIsResult DEF Errors
  <2>3. PullTypeOK'
        BY <1>15, <1>0, <1>2 DEF NotFound, PullTypeOK
  <2>4. CandidateTypeOK' /\ OutTypeOK'
        BY <1>15, <1>0, <1>2, <2>1, <2>2 DEF NotFound, CandidateTypeOK, OutTypeOK
  <2> QED BY <1>1, <2>3, <2>4, TypeParts
<1>16. CASE Complete
  <2>1. PullTypeOK'
        BY <1>16, <1>0, <1>2 DEF Complete, PullTypeOK, Stages
  <2>2. CandidateTypeOK' /\ OutTypeOK'
        BY <1>16, <1>0, <1>2 DEF Complete, CandidateTypeOK, OutTypeOK
  <2> QED BY <1>1, <2>1, <2>2, TypeParts
<1> QED BY <1>4, <1>5, <1>6, <1>7, <1>8, <1>9, <1>10, <1>11, <1>12, <1>13, <1>14, <1>15, <1>16
        DEF Search, Pull

LEMMA ChangeKeepsType ==
    ASSUME SearchTypeOK, Change
    PROVE  SearchTypeOK'
<1>1. PICK n \in Changing, node \in NewNodes \cup {Absent} :
           disk' = [disk EXCEPT ![n] = node] /\ touched' = touched \cup {n}
      BY DEF Change
<1>2. disk' \in [Names -> Nodes \cup {Absent}] /\ touched' \subseteq Changing
      BY <1>1, Names_Inodes DEF SearchTypeOK
<1>3. UNCHANGED <<faults, askVars, searchVars>>
      BY DEF Change
<1> QED BY <1>2, <1>3 DEF SearchTypeOK, askVars, searchVars, pullVars, Pending, Entries, DiskScan

-----------------------------------------------------------------------------
(* Every inode is in one place.                                            *)

Once == \A j, k \in DOMAIN stream : stream[j].inode = stream[k].inode => j = k

Apart ==
    /\ Told \cap remaining = {}
    /\ Verifying \cap (remaining \cup Told) = {}
    /\ Verifying \cup Told \subseteq list
    /\ stage \notin {"off", "error"} => list = remaining \cup Verifying \cup Told

LEMMA AccountedParts == Accounted <=> (request = "find" => Once /\ Apart)
  BY DEF Accounted, Once, Apart

LEMMA AppendTells ==
    ASSUME stream \in Seq(Results), NEW result \in Results, stream' = Append(stream, result)
    PROVE  /\ Told' = Told \cup {result.inode}
           /\ Once /\ result.inode \notin Told => Once'
<1>1. Len(stream) \in Nat /\ DOMAIN stream = 1 .. Len(stream)
      BY LenProperties
<1>2. DOMAIN stream' = 1 .. Len(stream) + 1
      BY <1>1
<1>3. stream'[Len(stream) + 1] = result /\ \A k \in DOMAIN stream : stream'[k] = stream[k]
      BY <1>1
<1>4. Told' = Told \cup {result.inode}
  <2>1. Told' = {stream'[k].inode : k \in 1 .. Len(stream) + 1}
        BY <1>2 DEF Told
  <2>2. 1 .. Len(stream) + 1 = (1 .. Len(stream)) \cup {Len(stream) + 1}
        BY <1>1
  <2> QED BY <1>1, <1>3, <2>1, <2>2 DEF Told
<1>5. ASSUME Once, result.inode \notin Told
      PROVE  Once'
  <2>1. SUFFICES ASSUME NEW j \in 1 .. Len(stream) + 1, NEW k \in 1 .. Len(stream) + 1,
                        stream'[j].inode = stream'[k].inode
                 PROVE  j = k
        BY <1>2 DEF Once
  <2>2. \A m \in 1 .. Len(stream) : stream'[m].inode \in Told
        BY <1>1, <1>3 DEF Told
  <2>3. CASE j \in 1 .. Len(stream) /\ k \in 1 .. Len(stream)
        BY <2>1, <2>3, <1>1, <1>3, <1>5 DEF Once
  <2>4. CASE j = Len(stream) + 1 \/ k = Len(stream) + 1
        BY <2>1, <2>2, <2>4, <1>1, <1>3, <1>5
  <2> QED BY <2>3, <2>4, <1>1
<1> QED BY <1>4, <1>5

LEMMA ContinueVerifiesNothing ==
    ASSUME Continue
    PROVE  stage' \in {"pull", "expand"} /\ Verifying' = {}
  BY DEF Continue, Verifying

LEMMA MatchAccounts ==
    ASSUME SearchTypeOK, Once, Apart, Pulled, UNCHANGED list,
           NEW i \in remaining, remaining' = remaining \ {i},
           Emit(MakeSuccess(i, Pending.name))
    PROVE  Once' /\ Apart'
<1> DEFINE result == MakeSuccess(i, Pending.name)
<1>1. stream \in Seq(Results) /\ i \in Inodes /\ stage = "pull"
      BY DEF SearchTypeOK, Pulled
<1>2. result \in Results /\ result.inode = i
      BY <1>1, Named, SuccessIsResult DEF MakeSuccess
<1>3. Verifying = {}
      BY <1>1 DEF Verifying
<1>4. i \notin Told
      BY DEF Apart
<1>5. CASE option.verify = "stat"
  <2>1. stage' = "verify" /\ candidate' = result /\ stream' = stream
        BY <1>5 DEF Emit
  <2>2. Verifying' = {i} /\ Told' = Told
        BY <1>2, <2>1 DEF Verifying, Told
  <2> QED BY <1>1, <1>3, <1>4, <2>1, <2>2 DEF Once, Apart
<1>6. CASE option.verify # "stat"
  <2>1. stream' = Append(stream, result) /\ Continue
        BY <1>6 DEF Emit
  <2>2. Told' = Told \cup {i} /\ Once'
        BY <1>1, <1>2, <1>4, <2>1, AppendTells
  <2>3. stage' \in {"pull", "expand"} /\ Verifying' = {}
        BY <2>1, ContinueVerifiesNothing
  <2> QED BY <1>1, <1>3, <1>4, <2>2, <2>3 DEF Apart
<1> QED BY <1>5, <1>6

LEMMA SearchKeepsAccounted ==
    ASSUME SearchTypeOK, Accounted, stage = "off" => stream = <<>>, Search
    PROVE  Accounted'
<1> USE DEF searchVars, pullVars, askVars, diskVars
<1>0. UNCHANGED <<request, list, option>>
      BY DEF Search, Begin, BeginWithoutCache, Pull, DropError, Match, Skip, SkipAlways, Stop,
             ListEntry, ListNothing, Verify, Expand, SourceEnds, NotFound, Complete
<1>1. SUFFICES ASSUME request = "find" PROVE Once' /\ Apart'
      BY <1>0, AccountedParts DEF Accounted, Once, Apart
<1>2. Once /\ Apart
      BY <1>1, AccountedParts
<1>3. stream \in Seq(Results) /\ remaining \subseteq list /\ list \subseteq Inodes
      BY DEF SearchTypeOK
<1>4. ASSUME UNCHANGED <<stream, remaining>>, Verifying' = Verifying,
             stage \notin {"off", "error"}
      PROVE  Once' /\ Apart'
      BY <1>0, <1>2, <1>4 DEF Once, Apart, Told
<1>5. CASE Begin
  <2>1. Verifying' = {} /\ Verifying = {}
        BY <1>5 DEF Begin, Verifying
  <2>2. stream = <<>> /\ stream' = <<>> /\ remaining' = list
        BY <1>5 DEF Begin
  <2>3. Told = {} /\ Told' = {} /\ Once'
        BY <2>2 DEF Told, Once
  <2> QED BY <1>0, <1>2, <2>1, <2>2, <2>3 DEF Apart
<1>6. CASE BeginWithoutCache
  <2>1. Verifying' = {} /\ Verifying = {}
        BY <1>6 DEF BeginWithoutCache, Verifying
  <2>2. UNCHANGED <<stream, remaining>> /\ stage' = "error"
        BY <1>6 DEF BeginWithoutCache
  <2> QED BY <1>0, <1>2, <2>1, <2>2 DEF Once, Apart, Told
<1>7. CASE Match
  <2>1. PICK i \in FindInodeInList : /\ remaining' = remaining \ {i}
                                     /\ Emit(MakeSuccess(i, Pending.name))
        BY <1>7 DEF Match
  <2>2. i \in remaining /\ Pulled
        BY <1>7, <2>1 DEF FindInodeInList, FindInodeList, Match, Searching
  <2> QED BY <1>0, <1>2, <2>1, <2>2, MatchAccounts
<1>8. CASE Skip \/ ListNothing
  <2>1. Pulled /\ Continue /\ UNCHANGED <<stream, remaining>>
        BY <1>8 DEF Skip, SkipAlways, Searching, ListNothing, Listing
  <2>2. stage = "pull" /\ Verifying = {} /\ Verifying' = {}
        BY <2>1, ContinueVerifiesNothing DEF Pulled, Verifying
  <2> QED BY <1>4, <2>1, <2>2
<1>9. CASE DropError \/ Stop \/ SourceEnds \/ Complete
  <2>1. /\ stage \in {"pull", "unmatched"} /\ stage' \in {"pull", "unmatched", "completed"}
        /\ UNCHANGED <<stream, remaining>>
        BY <1>9 DEF DropError, Stop, SourceEnds, Complete, Searching, Pulled
  <2>2. Verifying = {} /\ Verifying' = {}
        BY <2>1 DEF Verifying
  <2> QED BY <1>4, <2>1, <2>2
<1>10. CASE ListEntry
      BY <1>1, <1>10 DEF ListEntry, Listing
<1>11. CASE Verify
  <2>1. PICK result \in {Verified, MakeFailure(candidate.inode, "errno")} :
             stream' = Append(stream, result)
        BY <1>11 DEF Verify
  <2>2. candidate \in Results /\ stage = "verify" /\ Continue /\ UNCHANGED remaining
        BY <1>11 DEF Verify, SearchTypeOK
  <2>3. candidate.inode \in Inodes
        BY <2>2 DEF Results
  <2>4. result \in Results
        BY <2>1, <2>2, <2>3, FailureIsResult DEF Verified, Errors
  <2>5. result.inode = candidate.inode
    <3>1. \A code : MakeFailure(candidate.inode, code).inode = candidate.inode
          BY DEF MakeFailure
    <3> QED BY <2>1, <3>1 DEF Verified
  <2>6. Verifying = {candidate.inode}
        BY <2>2 DEF Verifying
  <2>7. candidate.inode \notin Told
        BY <1>2, <2>6 DEF Apart
  <2>8. Told' = Told \cup {candidate.inode} /\ Once'
        BY <1>2, <1>3, <2>1, <2>4, <2>5, <2>7, AppendTells
  <2>9. stage' \in {"pull", "expand"} /\ Verifying' = {}
        BY <2>2, ContinueVerifiesNothing
  <2> QED BY <1>0, <1>2, <2>2, <2>6, <2>8, <2>9 DEF Apart
<1>12. CASE Expand
  <2>1. stage = "expand" /\ stage' = "pull" /\ UNCHANGED <<stream, remaining>>
        BY <1>12 DEF Expand
  <2>2. Verifying = {} /\ Verifying' = {}
        BY <2>1 DEF Verifying
  <2> QED BY <1>4, <2>1, <2>2
<1>13. CASE NotFound
  <2>1. PICK i \in remaining : /\ remaining' = remaining \ {i}
                               /\ stream' = Append(stream, MakeFailure(i, "kCouldNotFindFilename"))
        BY <1>13 DEF NotFound
  <2>2. stage = "unmatched" /\ stage' = "unmatched"
        BY <1>13 DEF NotFound
  <2>3. Verifying = {} /\ Verifying' = {}
        BY <2>2 DEF Verifying
  <2>4. MakeFailure(i, "kCouldNotFindFilename") \in Results
        BY <1>3, FailureIsResult DEF Errors
  <2>5. MakeFailure(i, "kCouldNotFindFilename").inode = i /\ i \notin Told
        BY <1>2 DEF MakeFailure, Apart
  <2>6. Told' = Told \cup {i} /\ Once'
        BY <1>2, <1>3, <2>1, <2>4, <2>5, AppendTells
  <2>7. i \in remaining /\ remaining' = remaining \ {i}
        BY <2>1
  <2>8. Apart'
        BY <1>0, <1>2, <2>2, <2>3, <2>5, <2>6, <2>7 DEF Apart
  <2> QED BY <2>6, <2>8
<1> QED BY <1>5, <1>6, <1>7, <1>8, <1>9, <1>10, <1>11, <1>12, <1>13 DEF Search, Pull

-----------------------------------------------------------------------------
(* What the search does to its results.                                    *)

Grows ==
    /\ Len(stream) <= Len(stream')
    /\ \A k \in 1 .. Len(stream) : stream'[k] = stream[k]

LEMMA AppendGrows ==
    ASSUME stream \in Seq(Results),
           stream' = stream \/ \E result : stream' = Append(stream, result)
    PROVE  Grows
<1>1. Len(stream) \in Nat
      BY LenProperties
<1>2. CASE stream' = stream
      BY <1>1, <1>2 DEF Grows
<1>3. ASSUME NEW result, stream' = Append(stream, result)
      PROVE  Grows
      BY <1>1, <1>3 DEF Grows
<1> QED BY <1>2, <1>3

LEMMA SearchOnlyAppends ==
    ASSUME SearchTypeOK, Search
    PROVE  Grows /\ stage' # "off" /\ UNCHANGED <<request, list>>
<1> USE DEF searchVars, pullVars, askVars, diskVars
<1>1. stream \in Seq(Results)
      BY DEF SearchTypeOK
<1>2. UNCHANGED <<request, list>>
      BY DEF Search, Begin, BeginWithoutCache, Pull, DropError, Match, Skip, SkipAlways, Stop,
             ListEntry, ListNothing, Verify, Expand, SourceEnds, NotFound, Complete
<1>3. ASSUME NEW result, Emit(result)
      PROVE  (stream' = stream \/ \E r : stream' = Append(stream, r)) /\ stage' # "off"
      BY <1>3 DEF Emit, Continue
<1>4. stream' = stream \/ \E r : stream' = Append(stream, r)
  <2>1. CASE Match \/ ListEntry
        BY <2>1, <1>3 DEF Match, ListEntry
  <2>2. CASE Verify \/ NotFound
        BY <2>2 DEF Verify, NotFound
  <2>3. CASE \/ Begin \/ BeginWithoutCache \/ DropError \/ Skip \/ Stop \/ ListNothing
             \/ Expand \/ SourceEnds \/ Complete
        BY <2>3 DEF Begin, BeginWithoutCache, DropError, Skip, SkipAlways, Stop, ListNothing,
                    Expand, SourceEnds, Complete
  <2> QED BY <2>1, <2>2, <2>3 DEF Search, Pull
<1>5. stage' # "off"
  <2>1. CASE Match \/ ListEntry
        BY <2>1, <1>3 DEF Match, ListEntry
  <2>2. CASE \/ Begin \/ BeginWithoutCache \/ DropError \/ Skip \/ Stop \/ ListNothing
             \/ Verify \/ Expand \/ SourceEnds \/ NotFound \/ Complete
        BY <2>2 DEF Begin, BeginWithoutCache, DropError, Skip, SkipAlways, Stop, ListNothing,
                    Verify, Continue, Expand, SourceEnds, NotFound, Complete,
                    Pulled, Searching, Listing
  <2> QED BY <2>1, <2>2 DEF Search, Pull
<1> QED BY <1>1, <1>2, <1>4, <1>5, AppendGrows

-----------------------------------------------------------------------------
(* IInv is inductive.                                                      *)

ParentTypeOK ==
    /\ reader \in {"idle", "reading", "done"}
    /\ child \in {"none", "running", "exited", "killed"}
    /\ flushed \in Nat /\ consumed \in Nat /\ actual_result_count \in Nat
    /\ answers \subseteq AnswerSpace
    /\ outcome \in {"none", "completed", "error"}

LEMMA InitHolds ==
    ASSUME ResolverInit
    PROVE  IInv
<1> USE DEF ResolverInit, Init
<1>1. list \subseteq Inodes /\ IsFiniteSet(list) /\ request \in {"find", "all"}
  <2>1. PICK r \in Requests : request = r.request /\ list = r.list
        OBVIOUS
  <2>2. /\ \A q \in Requests : q \in [request : {"find", "all"}, list : SUBSET Inodes]
        /\ \A q \in Requests : IsFiniteSet(q.list)
        BY SearchAssumption
  <2>3. r.request \in {"find", "all"} /\ r.list \in SUBSET Inodes /\ IsFiniteSet(r.list)
        BY <2>2
  <2> QED BY <2>1, <2>3
<1>2. option \in [source : {"diskscan", "textcache"}, verify : {"none", "stat"}]
      BY SearchAssumption
<1>3. cache \in Seq(CacheLines)
  <2>1. cache = <<>> \/ cache \in Caches
        OBVIOUS
  <2>2. Caches \subseteq Seq(CacheLines)
        BY SearchAssumption
  <2>3. <<>> \in Seq(CacheLines)
        BY EmptySeq
  <2> HIDE DEF ResolverInit, Init
  <2> QED BY <2>1, <2>2, <2>3, Zenon
<1>4. disk \in [Names -> Nodes \cup {Absent}]
  <2>1. disk \in [Names -> Nodes]
        BY SearchAssumption
  <2> QED BY <2>1
<1>5. SearchTypeOK
  <2>1. /\ touched = {} /\ faults = 0 /\ late_reads = 0 /\ scanned = FALSE /\ stage = "off"
        /\ pending = <<>> /\ candidate = NoResult /\ remaining = {} /\ stream = <<>>
        OBVIOUS
  <2>2. pending \in Seq(Entries) /\ stream \in Seq(Results)
        BY <2>1
  <2> HIDE DEF ResolverInit, Init
  <2> QED BY <1>1, <1>2, <1>3, <1>4, <2>1, <2>2 DEF SearchTypeOK, Stages
<1>6. TypeOK
      BY <1>5 DEF TypeOK
<1>7. Accounted
      BY DEF Accounted, Told, Verifying
<1>8. PipeInv
      BY DEF PipeInv, Parsed, Running
<1> QED BY <1>6, <1>7, <1>8 DEF IInv

LEMMA SearchIsStill ==
    ASSUME UNCHANGED <<diskVars, askVars, searchVars>>, faults' \in Nat
    PROVE  /\ SearchTypeOK => SearchTypeOK'
           /\ Accounted => Accounted'
<1> USE DEF diskVars, askVars, searchVars, pullVars
<1>1. SearchTypeOK => SearchTypeOK'
      BY DEF SearchTypeOK, Entries, DiskScan, Pending
<1>2. Accounted => Accounted'
      BY DEF Accounted, Told, Verifying
<1> QED BY <1>1, <1>2

\* What a step leaves alone: one of the two processes.
LEMMA OneSideMoves ==
    ASSUME IInv, ResolverNext
    PROVE  \/ Running /\ Search /\ UNCHANGED <<readerVars, pipeVars>>
           \/ Running /\ Change /\ UNCHANGED <<readerVars, pipeVars>>
           \/ UNCHANGED <<diskVars, askVars, searchVars, held>> /\ faults' \in Nat
<1>1. faults \in Nat
      BY DEF IInv, TypeOK, SearchTypeOK
<1>2. Faulty => faults' \in Nat
      BY <1>1 DEF Faulty
<1>3. CASE Reader \/ CannotFork \/ Kill \/ Flush \/ ChildReturns \/ BrokenPipe
      BY <1>1, <1>2, <1>3
      DEF Reader, CompleteEmpty, Fork, ReadOneLine, InvalidOutput, OutputEof, CannotFork, Kill,
          Flush, ChildReturns, BrokenPipe, sVars
<1> QED BY <1>3 DEF ResolverNext, Child, ChildSearches, DiskChanges

LEMMA StepKeepsSearch ==
    ASSUME IInv, ResolverNext
    PROVE  SearchTypeOK' /\ Accounted'
<1>1. SearchTypeOK /\ Accounted /\ (stage = "off" => stream = <<>>)
      BY DEF IInv, TypeOK, PipeInv
<1>2. CASE Search
      BY <1>1, <1>2, SearchKeepsType, SearchKeepsAccounted
<1>3. CASE Change
  <2>1. UNCHANGED <<faults, askVars, searchVars>>
        BY <1>3 DEF Change
  <2>2. Accounted'
        BY <1>1, <2>1 DEF Accounted, Told, Verifying, askVars, searchVars, pullVars
  <2> QED BY <1>1, <1>3, <2>2, ChangeKeepsType
<1>4. CASE UNCHANGED <<diskVars, askVars, searchVars, held>> /\ faults' \in Nat
      BY <1>1, <1>4, SearchIsStill
<1> QED BY <1>2, <1>3, <1>4, OneSideMoves

\* A line that is read is a result, and of an inode that was asked for.
LEMMA LineIsResult ==
    ASSUME IInv, Reading
    PROVE  /\ consumed + 1 \in 1 .. Len(stream) /\ consumed \in Nat
           /\ Line \in Results /\ ParseFromLine(Line) \in AnswerSpace
           /\ ParseFromLine(Line).inode = Line.inode
<1>1. /\ consumed \in Nat /\ flushed \in Nat /\ stream \in Seq(Results)
      /\ consumed < flushed /\ flushed <= Len(stream)
      BY DEF IInv, TypeOK, SearchTypeOK, PipeInv, Reading
<1>2. Len(stream) \in Nat
      BY <1>1
<1>3. consumed + 1 \in 1 .. Len(stream)
      BY <1>1, <1>2
<1>4. Line \in Results
      BY <1>1, <1>3, ElementOfSeq DEF Line
<1>5. \A r \in Results : ParseFromLine(r) \in AnswerSpace /\ ParseFromLine(r).inode = r.inode
      BY DEF ParseFromLine, Results, AnswerSpace
<1> QED BY <1>1, <1>3, <1>4, <1>5

LEMMA StepKeepsType ==
    ASSUME IInv, ResolverNext
    PROVE  TypeOK'
<1>1. ParentTypeOK
      BY DEF IInv, TypeOK, ParentTypeOK
<1>2. AnswerSpace' = AnswerSpace
      OBVIOUS
<1>3. ParentTypeOK'
  <2>1. CASE ChildSearches \/ DiskChanges
        BY <2>1, <1>1 DEF ChildSearches, DiskChanges, ParentTypeOK, readerVars, pipeVars
  <2>2. CASE CompleteEmpty \/ OutputEof
        BY <2>2, <1>1 DEF CompleteEmpty, OutputEof, End, ParentTypeOK, pipeVars
  <2>3. CASE Fork \/ CannotFork
        BY <2>3, <1>1 DEF Fork, CannotFork, Forked, End, ParentTypeOK
  <2>4. CASE ReadOneLine
    <3>1. /\ consumed' = consumed + 1 /\ actual_result_count' = actual_result_count + 1
          /\ answers' \subseteq answers \cup {ParseFromLine(Line)}
          /\ UNCHANGED <<reader, outcome, child, flushed>>
          BY <2>4 DEF ReadOneLine
    <3>2. ParseFromLine(Line) \in AnswerSpace
          BY <2>4, LineIsResult DEF ReadOneLine
    <3> QED BY <1>1, <3>1, <3>2 DEF ParentTypeOK
  <2>5. CASE InvalidOutput
        BY <2>5, <1>1 DEF InvalidOutput, End, ParentTypeOK
  <2>6. CASE Flush
        BY <2>6, <1>1 DEF Flush, ParentTypeOK, readerVars
  <2>7. CASE ChildReturns \/ BrokenPipe \/ Kill
        BY <2>7, <1>1 DEF ChildReturns, BrokenPipe, Kill, ParentTypeOK, readerVars
  <2> QED BY <2>1, <2>2, <2>3, <2>4, <2>5, <2>6, <2>7 DEF ResolverNext, Reader, Child
<1> QED BY <1>3, StepKeepsSearch DEF TypeOK, ParentTypeOK

LEMMA ParsedStays ==
    ASSUME IInv, Grows, UNCHANGED consumed
    PROVE  Parsed' = Parsed
<1>1. consumed \in Nat /\ flushed \in Nat /\ consumed <= flushed /\ flushed <= Len(stream)
      BY DEF IInv, TypeOK, PipeInv
<1>2. Len(stream) \in Nat
      BY DEF IInv, TypeOK, SearchTypeOK
<1>3. \A k \in 1 .. consumed : stream'[k] = stream[k]
      BY <1>1, <1>2 DEF Grows
<1> QED BY <1>3 DEF Parsed

LEMMA StepKeepsPipe ==
    ASSUME IInv, ResolverNext
    PROVE  PipeInv'
<1>0. PipeInv /\ flushed \in Nat /\ consumed \in Nat /\ Len(stream) \in Nat
      BY DEF IInv, TypeOK, SearchTypeOK
<1>1. CASE ChildSearches
  <2>1. Running /\ Search /\ UNCHANGED <<reader, answers, actual_result_count, outcome,
                                         child, flushed, consumed>>
        BY <1>1 DEF ChildSearches, readerVars, pipeVars
  <2>2. Grows /\ stage' # "off" /\ UNCHANGED <<request, list>>
        BY <2>1, SearchOnlyAppends DEF IInv, TypeOK
  <2>3. Parsed' = Parsed
        BY <2>1, <2>2, ParsedStays
  <2>4. Len(stream') \in Nat
        BY StepKeepsSearch DEF SearchTypeOK
  <2>5. flushed' <= Len(stream')
        BY <1>0, <2>1, <2>2, <2>4 DEF PipeInv, Grows
  <2> QED BY <1>0, <2>1, <2>2, <2>3, <2>5 DEF PipeInv, Running
<1>2. CASE DiskChanges
  <2>1. UNCHANGED <<readerVars, pipeVars, askVars, searchVars>>
        BY <1>2 DEF DiskChanges, Change
  <2> QED BY <1>0, <2>1 DEF PipeInv, Running, Parsed, readerVars, pipeVars, askVars,
                            searchVars, pullVars
<1>3. ASSUME UNCHANGED <<request, list, stage, stream>>, NEW how \in {"completed", "error"},
             End(how), UNCHANGED pipeVars,
             reader' = "done" \/ (reader' = reader /\ request = "find" /\ list = {})
      PROVE  PipeInv'
      BY <1>0, <1>3 DEF PipeInv, End, pipeVars, Running
<1>4. CASE CompleteEmpty \/ OutputEof
  <2>1. UNCHANGED <<request, list, stage, stream>> /\ UNCHANGED pipeVars
        BY <1>4 DEF CompleteEmpty, OutputEof, sVars, askVars, searchVars, pullVars
  <2> QED BY <1>3, <1>4, <2>1 DEF CompleteEmpty, OutputEof
<1>5. CASE InvalidOutput
  <2>1. /\ UNCHANGED <<request, list, stage, stream, child, flushed>>
        /\ consumed' = consumed + 1 /\ consumed < flushed /\ reader' = "done" /\ outcome' # "none"
        BY <1>5 DEF InvalidOutput, Reading, End, sVars, askVars, searchVars, pullVars
  <2> QED BY <1>0, <2>1 DEF PipeInv, Running
<1>6. CASE Fork \/ CannotFork
  <2>1. /\ UNCHANGED <<request, list, stage, stream, answers, actual_result_count, flushed,
                       consumed>>
        /\ reader = "idle" /\ child' \in {"none", Forked}
        /\ \/ reader' = "reading" /\ outcome' = outcome /\ child' = Forked
           \/ reader' = "done" /\ outcome' # "none"
    <3>1. CASE Fork
      <4>1. UNCHANGED sVars
            BY <3>1 DEF Fork
      <4>2. /\ UNCHANGED <<answers, actual_result_count, outcome, flushed, consumed>>
            /\ reader = "idle" /\ child' = Forked /\ reader' = "reading"
            BY <3>1 DEF Fork, Starting
      <4> QED BY <4>1, <4>2 DEF sVars, askVars, searchVars, pullVars
    <3>2. CASE CannotFork
      <4>1. UNCHANGED <<askVars, searchVars>>
            BY <3>2 DEF CannotFork
      <4>2. /\ UNCHANGED <<answers, actual_result_count, flushed, consumed>>
            /\ reader = "idle" /\ child' \in {"none", Forked} /\ reader' = "done" /\ End("error")
            BY <3>2 DEF CannotFork, Starting
      <4> QED BY <4>1, <4>2 DEF End, askVars, searchVars, pullVars
    <3> QED BY <1>6, <3>1, <3>2
  <2>2. Forked \in {"exited", "running"} /\ (request = "find" /\ list = {} => Forked # "running")
        BY DEF Forked
  <2>3. Parsed' = Parsed
        BY <2>1 DEF Parsed
  <2> QED BY <1>0, <2>1, <2>2, <2>3 DEF PipeInv, Running
<1>7. CASE Flush \/ ChildReturns \/ BrokenPipe \/ Kill
  <2>1. /\ UNCHANGED <<request, list, stage, stream, reader, answers, actual_result_count,
                       outcome, consumed>>
        /\ Running /\ child' # "none" /\ (~Running => ~Running')
        /\ \/ flushed' = flushed
           \/ flushed < Len(stream) /\ flushed' = flushed + 1
        BY <1>7 DEF Flush, ChildReturns, BrokenPipe, Kill, Running, readerVars, sVars, askVars,
                    searchVars, pullVars
  <2>2. Parsed' = Parsed /\ reader # "idle"
        BY <1>0, <2>1 DEF Parsed, PipeInv, Running
  <2> QED BY <1>0, <2>1, <2>2 DEF PipeInv, Running
<1>8. CASE ReadOneLine
  <2>1. /\ UNCHANGED <<request, list, stage, stream, reader, child, flushed, outcome>>
        /\ consumed < flushed /\ reader = "reading" /\ consumed' = consumed + 1
        /\ actual_result_count' = actual_result_count + 1
        /\ answers' = IF outcome = "none" THEN answers \cup {ParseFromLine(Line)} ELSE answers
        BY <1>8 DEF ReadOneLine, Reading, sVars, askVars, searchVars, pullVars
  <2>2. Parsed' = Parsed \cup {ParseFromLine(Line)}
    <3>1. Parsed' = {ParseFromLine(stream[k]) : k \in 1 .. consumed + 1}
          BY <2>1 DEF Parsed, ParseFromLine, Word
    <3>2. 1 .. consumed + 1 = (1 .. consumed) \cup {consumed + 1}
          BY <1>0
    <3> QED BY <3>1, <3>2 DEF Parsed, Line
  <2> QED BY <1>0, <2>1, <2>2 DEF PipeInv, Running
<1> QED BY <1>1, <1>2, <1>4, <1>5, <1>6, <1>7, <1>8 DEF ResolverNext, Reader, Child

\* The inductive invariant in every reachable state: what came through the pipe is
\* what the child told, and the child tells each inode once.
THEOREM PipeHolds == ResolverSpec => []IInv
<1>1. ResolverInit => IInv
      BY InitHolds
<1>2. IInv /\ [ResolverNext]_vars => IInv'
  <2>1. CASE ResolverNext
        BY <2>1, StepKeepsType, StepKeepsSearch, StepKeepsPipe DEF IInv
  <2>2. CASE UNCHANGED vars
    <3>1. IInv /\ faults' = faults /\ faults \in Nat => SearchTypeOK' /\ Accounted'
          BY <2>2, SearchIsStill DEF IInv, TypeOK, vars, sVars
    <3>2. IInv => faults' = faults /\ faults \in Nat
          BY <2>2 DEF IInv, TypeOK, SearchTypeOK, vars, sVars
    <3> QED BY <2>2, <3>1, <3>2
            DEF IInv, TypeOK, PipeInv, Parsed, Running, vars, sVars, readerVars, pipeVars,
                askVars, searchVars, pullVars
  <2> QED BY <2>1, <2>2
<1> QED BY <1>1, <1>2, PTL DEF ResolverSpec

-----------------------------------------------------------------------------
(* The scan stops after the last inode.                                    *)

\* A directory that is read for nothing leaves the search between two entries,
\* where only the end is left.
StopsNext ==
    \/ late_reads = 0
    \/ /\ late_reads = 1 /\ request = "find" /\ remaining = {}
       /\ stage \in {"pull", "unmatched", "completed"}

LEMMA SearchStopsNext ==
    ASSUME StopsNext, Search
    PROVE  StopsNext'
<1> USE DEF searchVars, pullVars, askVars, diskVars
<1>1. request' = request
      BY DEF Search, Begin, BeginWithoutCache, Pull, DropError, Match, Skip, SkipAlways, Stop,
             ListEntry, ListNothing, Verify, Expand, SourceEnds, NotFound, Complete
<1>2. CASE late_reads = 0
  <2>1. CASE Expand
        BY <1>1, <1>2, <2>1 DEF Expand, StopsNext
  <2>2. CASE ~Expand
        BY <1>2, <2>2
        DEF StopsNext, Search, Begin, BeginWithoutCache, Pull, DropError, Match, Skip, SkipAlways,
            Stop, ListEntry, ListNothing, Verify, SourceEnds, NotFound, Complete
  <2> QED BY <2>1, <2>2
<1>3. CASE /\ late_reads = 1 /\ request = "find" /\ remaining = {}
           /\ stage \in {"pull", "unmatched", "completed"}
  <2>1. FindInodeInList = {}
        BY <1>3 DEF FindInodeInList, FindInodeList
  <2>2. ~Match /\ ~Skip /\ ~NotFound /\ ~ListEntry /\ ~ListNothing
        BY <1>3, <2>1 DEF Match, Skip, NotFound, ListEntry, ListNothing, Listing
  <2>3. ~Begin /\ ~BeginWithoutCache /\ ~Verify /\ ~Expand
        BY <1>3 DEF Begin, BeginWithoutCache, Verify, Expand
  <2>4. DropError \/ Stop \/ SourceEnds \/ Complete
        BY <2>2, <2>3 DEF Search, Pull
  <2>5. UNCHANGED <<late_reads, remaining>> /\ stage' \in {"pull", "unmatched", "completed"}
        BY <1>3, <2>4 DEF DropError, Stop, SourceEnds, Complete
  <2> QED BY <1>1, <1>3, <2>5 DEF StopsNext
<1> QED BY <1>2, <1>3 DEF StopsNext

\* However the entries come and the calls fail, the scan reads one directory at
\* most with nothing left to find.
THEOREM ScanHalts == ResolverSpec => []HaltsAfterLastInode
<1>1. ResolverInit => StopsNext
      BY DEF ResolverInit, Init, StopsNext
<1>2. StopsNext /\ IInv /\ [ResolverNext]_vars => StopsNext'
  <2>1. ASSUME StopsNext, UNCHANGED <<askVars, searchVars>>
        PROVE  StopsNext'
        BY <2>1 DEF StopsNext, askVars, searchVars, pullVars
  <2>2. ASSUME StopsNext, IInv, ResolverNext
        PROVE  StopsNext'
    <3>1. Change => UNCHANGED <<askVars, searchVars>>
          BY DEF Change
    <3> QED BY <2>1, <2>2, <3>1, SearchStopsNext, OneSideMoves
  <2> QED BY <2>1, <2>2 DEF vars, sVars
<1>3. StopsNext => HaltsAfterLastInode
      BY DEF StopsNext, HaltsAfterLastInode
<1> QED BY <1>1, <1>2, <1>3, PipeHolds, PTL DEF ResolverSpec

-----------------------------------------------------------------------------
(* Names led to their inodes.                                              *)

LEMMA StatIsHolding ==
    ASSUME SearchTypeOK, NEW name, Stat(name).inode \in Inodes
    PROVE  <<Stat(name).inode, name>> \in Holdings
<1>1. Stat(name).type # "absent" /\ name \in Names
      BY StatFinds
<1> QED BY <1>1 DEF Holdings

HoldingsHeld == stage \notin {"off", "error"} => Holdings \subseteq held

Led(result) ==
    IsSuccess(result) /\ (DiskScan \/ option.verify = "stat") => <<result.inode, result.name>> \in held

LEMMA AppendLed ==
    ASSUME stream \in Seq(Results), NamesLedThere, UNCHANGED option, held \subseteq held',
           \/ stream' = stream
           \/ \E result : Led(result) /\ stream' = Append(stream, result)
    PROVE  NamesLedThere'
<1>1. Len(stream) \in Nat /\ DOMAIN stream = 1 .. Len(stream)
      BY LenProperties
<1>2. CASE stream' = stream
      BY <1>2 DEF NamesLedThere, DiskScan
<1>3. ASSUME NEW result, Led(result), stream' = Append(stream, result)
      PROVE  NamesLedThere'
  <2>0. stream \in Seq(Results \cup {result})
        BY SeqMonotonic
  <2>1. /\ DOMAIN stream' = 1 .. Len(stream) + 1
        /\ stream'[Len(stream) + 1] = result
        /\ \A k \in 1 .. Len(stream) : stream'[k] = stream[k]
    <3>1. result \in Results \cup {result}
          OBVIOUS
    <3>2. /\ stream' \in Seq(Results \cup {result}) /\ Len(stream') = Len(stream) + 1
          /\ stream'[Len(stream) + 1] = result
          /\ \A k \in 1 .. Len(stream) : stream'[k] = stream[k]
          BY <1>3, <2>0, <3>1, AppendProperties
    <3> QED BY <3>2, LenProperties
  <2>2. SUFFICES ASSUME NEW k \in 1 .. Len(stream) + 1,
                        IsSuccess(stream'[k]), DiskScan \/ option.verify = "stat"
                 PROVE  <<stream'[k].inode, stream'[k].name>> \in held'
        BY <2>1 DEF NamesLedThere, DiskScan, IsSuccess
  <2>3. CASE k = Len(stream) + 1
        BY <2>1, <1>3, <2>2, <2>3 DEF Led
  <2>4. CASE k \in 1 .. Len(stream)
        BY <1>1, <2>1, <2>2, <2>4 DEF NamesLedThere
  <2> QED BY <1>1, <2>3, <2>4
<1> QED BY <1>2, <1>3

LEMMA FailureIsLed == \A i, code : code # "" => Led(MakeFailure(i, code))
  BY DEF Led, MakeFailure, IsSuccess

LEMMA SearchKeepsNames ==
    ASSUME SearchTypeOK, stage = "off" => stream = <<>>, HoldingsHeld, NamesLedThere, Search
    PROVE  HoldingsHeld' /\ NamesLedThere'
<1> USE DEF searchVars, pullVars, askVars, diskVars
<1>1. UNCHANGED <<disk, option>>
      BY DEF Search, Begin, BeginWithoutCache, Pull, DropError, Match, Skip, SkipAlways, Stop,
             ListEntry, ListNothing, Verify, Expand, SourceEnds, NotFound, Complete
<1>2. Holdings' = Holdings
      BY <1>1 DEF Holdings, Stat, NodeAt
<1>3. stream \in Seq(Results) /\ remaining \subseteq Inodes
      BY DEF SearchTypeOK
<1>4. CASE Begin \/ BeginWithoutCache
  <2>1. stream' = <<>> /\ (held' = Holdings \/ stage' = "error")
        BY <1>4 DEF Begin, BeginWithoutCache
  <2> QED BY <1>2, <2>1 DEF HoldingsHeld, NamesLedThere
<1>5. ASSUME ~Begin, ~BeginWithoutCache
      PROVE  stage \notin {"off", "error"} /\ UNCHANGED held /\ Holdings \subseteq held
  <2>1. stage \notin {"off", "error"} /\ UNCHANGED held
        BY <1>5
        DEF Search, Pull, DropError, Match, Skip, SkipAlways, Stop, ListEntry, ListNothing, Verify,
            Expand, SourceEnds, NotFound, Complete, Pulled, Searching, Listing
  <2> QED BY <2>1 DEF HoldingsHeld
<1>6. CASE Match
  <2>1. PICK i \in FindInodeInList : Emit(MakeSuccess(i, Pending.name))
        BY <1>6 DEF Match
  <2>2. i \in Inodes /\ (DiskScan => i = Stat(Pending.name).inode)
        BY <1>3, <2>1 DEF FindInodeInList, FindInodeList
  <2>3. ~Begin /\ ~BeginWithoutCache
        BY <1>6 DEF Match, Searching, Pulled, Begin, BeginWithoutCache
  <2>4. option.verify # "stat" => Led(MakeSuccess(i, Pending.name))
        BY <1>5, <2>2, <2>3, StatIsHolding DEF Led, MakeSuccess
  <2>5. stream' = stream \/ (stream' = Append(stream, MakeSuccess(i, Pending.name))
                              /\ option.verify # "stat")
        BY <2>1 DEF Emit
  <2> QED BY <1>1, <1>2, <1>3, <1>5, <2>3, <2>4, <2>5, AppendLed DEF HoldingsHeld
<1>7. CASE ListEntry
  <2>1. PICK i : /\ i = IF DiskScan THEN Stat(Pending.name).inode ELSE Pending.inode
                 /\ Emit(MakeSuccess(i, Pending.name))
        BY <1>7 DEF ListEntry
  <2>2. DiskScan => i = Stat(Pending.name).inode /\ i \in Inodes
        BY <1>7, <2>1, StatFinds DEF ListEntry
  <2>3. ~Begin /\ ~BeginWithoutCache
        BY <1>7 DEF ListEntry, Listing, Pulled, Begin, BeginWithoutCache
  <2>4. option.verify # "stat" => Led(MakeSuccess(i, Pending.name))
        BY <1>5, <2>2, <2>3, StatIsHolding DEF Led, MakeSuccess
  <2>5. stream' = stream \/ (stream' = Append(stream, MakeSuccess(i, Pending.name))
                              /\ option.verify # "stat")
        BY <2>1 DEF Emit
  <2> QED BY <1>1, <1>2, <1>3, <1>5, <2>3, <2>4, <2>5, AppendLed DEF HoldingsHeld
<1>8. CASE Verify
  <2>1. candidate.inode \in Inodes
        BY <1>8 DEF Verify, SearchTypeOK, Results
  <2>2. ~Begin /\ ~BeginWithoutCache
        BY <1>8 DEF Verify, Begin, BeginWithoutCache
  <2>3. Led(Verified)
    <3>1. CASE Stat(candidate.name).inode = candidate.inode
          BY <1>5, <2>1, <2>2, <3>1, StatIsHolding DEF Led, Verified
    <3>2. CASE Stat(candidate.name).inode # candidate.inode
          BY <3>2, FailureIsLed DEF Verified
    <3> QED BY <3>1, <3>2
  <2>4. Led(MakeFailure(candidate.inode, "errno"))
        BY FailureIsLed
  <2>5. \/ stream' = Append(stream, Verified)
        \/ stream' = Append(stream, MakeFailure(candidate.inode, "errno"))
        BY <1>8 DEF Verify
  <2> QED BY <1>1, <1>2, <1>3, <1>5, <2>2, <2>3, <2>4, <2>5, AppendLed DEF HoldingsHeld
<1>9. CASE NotFound
  <2>1. PICK i \in remaining : stream' = Append(stream, MakeFailure(i, "kCouldNotFindFilename"))
        BY <1>9 DEF NotFound
  <2>2. Led(MakeFailure(i, "kCouldNotFindFilename"))
        BY FailureIsLed
  <2>3. ~Begin /\ ~BeginWithoutCache
        BY <1>9 DEF NotFound, Begin, BeginWithoutCache
  <2> QED BY <1>1, <1>2, <1>3, <1>5, <2>1, <2>2, <2>3, AppendLed DEF HoldingsHeld
<1>10. CASE DropError \/ Skip \/ Stop \/ ListNothing \/ Expand \/ SourceEnds \/ Complete
  <2>1. UNCHANGED stream
        BY <1>10 DEF DropError, Skip, SkipAlways, Stop, ListNothing, Expand, SourceEnds, Complete
  <2>2. ~Begin /\ ~BeginWithoutCache
        BY <1>10 DEF DropError, Skip, SkipAlways, Stop, ListNothing, Expand, SourceEnds, Complete,
                     Begin, BeginWithoutCache, Pulled, Searching, Listing
  <2> QED BY <1>1, <1>2, <1>3, <1>5, <2>1, <2>2, AppendLed DEF HoldingsHeld
<1> QED BY <1>4, <1>6, <1>7, <1>8, <1>9, <1>10 DEF Search, Pull

\* A name that is answered led to its inode at some moment of the search, however
\* many files change, and whatever fails.
THEOREM NamesLed == ResolverSpec => []NamesLedThere
<1> DEFINE Names_ == HoldingsHeld /\ NamesLedThere
<1>1. ResolverInit => Names_
      BY DEF ResolverInit, Init, HoldingsHeld, NamesLedThere
<1>2. Names_ /\ IInv /\ [ResolverNext]_vars => Names_'
  <2>1. ASSUME Names_, UNCHANGED <<diskVars, askVars, searchVars, held>>
        PROVE  Names_'
        BY <2>1 DEF HoldingsHeld, NamesLedThere, Holdings, Stat, NodeAt, DiskScan,
                    diskVars, askVars, searchVars, pullVars
  <2>2. ASSUME Names_, IInv, Change
        PROVE  Names_'
    <3>1. UNCHANGED <<askVars, searchVars>> /\ held' = held \cup Holdings'
          BY <2>2 DEF Change
    <3> QED BY <2>2, <3>1 DEF HoldingsHeld, NamesLedThere, DiskScan, askVars, searchVars, pullVars
  <2>3. ASSUME Names_, IInv, ResolverNext
        PROVE  Names_'
        BY <2>1, <2>2, <2>3, OneSideMoves, SearchKeepsNames DEF IInv, TypeOK, PipeInv
  <2> QED BY <2>1, <2>3 DEF vars, sVars
<1> QED BY <1>1, <1>2, PipeHolds, PTL DEF ResolverSpec

-----------------------------------------------------------------------------
(* Nothing is missed.                                                      *)

\* An entry of the name is still to come, for a root one that is a directory.
Awaited(n) == \E e \in ToSet(pending) : e.name = n /\ (n \in Roots => e.type = "dir")

FromRoot(e) == e.name \in Roots /\ e.inode.ino = -1 /\ e.type = "dir"
FromDirectory(e) == e.name \in Names /\ e.type # "error" /\ (Steady(e.name) => e = ReadEntry(e.name))
GoodEntries ==
    \A e \in ToSet(pending) :
       e \in {Sentinel, DirectoryEntryError} \/ FromRoot(e) \/ FromDirectory(e)

\* No inode that is still searched for is at the name.
Gone(n) == \A i \in remaining : ~IsAt(i, n)

\* The names that the scan has dealt with: what it has to meet next is among them or
\* still to come, and it has found what is there.
Dealt(names) ==
    /\ Sentinel \in ToSet(pending) \/ \A r \in Roots : r \in names \/ Awaited(r)
    /\ \A n \in Names \ Roots :
          Parent[n] \in names /\ Read(Parent[n]) /\ Shown(n) => n \in names \/ Awaited(n)
    /\ \A n \in names : Gone(n)

Scanning ==
    request = "find" /\ DiskScan /\ faults = 0 /\ stage \in {"pull", "verify", "expand", "unmatched"}

ScanInv ==
    Scanning =>
       /\ GoodEntries
       /\ stage = "unmatched" => pending = <<>>
       /\ stage \in {"verify", "expand"} => Gone(Pending.name)
       /\ \E names \in SUBSET Names : Dealt(names)

LEMMA TailSet ==
    ASSUME NEW S, NEW s \in Seq(S), s # <<>>
    PROVE  ToSet(s) = {Head(s)} \cup ToSet(Tail(s))
<1>1. /\ Len(s) \in Nat /\ Len(s) > 0 /\ DOMAIN s = 1 .. Len(s)
      /\ DOMAIN Tail(s) = 1 .. Len(s) - 1 /\ Head(s) = s[1]
      /\ \A k \in 1 .. Len(s) - 1 : Tail(s)[k] = s[k + 1]
  <2>1. Len(s) \in Nat /\ Len(s) > 0 /\ DOMAIN s = 1 .. Len(s)
        BY EmptySeq, LenProperties
  <2>2. /\ Tail(s) \in Seq(S) /\ Len(Tail(s)) = Len(s) - 1
        /\ \A k \in 1 .. Len(Tail(s)) : Tail(s)[k] = s[k + 1] /\ Head(s) = s[1]
        BY HeadTailProperties
  <2>3. Head(s) = s[1]
        OBVIOUS
  <2> QED BY <2>1, <2>2, <2>3, LenProperties
<1>2. \A k \in DOMAIN s : s[k] \in {Head(s)} \cup ToSet(Tail(s))
  <2>1. SUFFICES ASSUME NEW k \in DOMAIN s, k # 1 PROVE s[k] \in ToSet(Tail(s))
        BY <1>1
  <2>2. k - 1 \in DOMAIN Tail(s) /\ Tail(s)[k - 1] = s[k]
        BY <1>1, <2>1
  <2> QED BY <2>2 DEF ToSet
<1>3. Head(s) \in ToSet(s)
      BY <1>1 DEF ToSet
<1>4. \A k \in DOMAIN Tail(s) : Tail(s)[k] \in ToSet(s)
  <2>1. SUFFICES ASSUME NEW k \in DOMAIN Tail(s) PROVE Tail(s)[k] \in ToSet(s)
        OBVIOUS
  <2>2. k + 1 \in DOMAIN s /\ Tail(s)[k] = s[k + 1]
        BY <1>1
  <2> QED BY <2>2 DEF ToSet
<1> QED BY <1>2, <1>3, <1>4 DEF ToSet

LEMMA ConcatSet ==
    ASSUME NEW S, NEW s \in Seq(S), NEW t \in Seq(S)
    PROVE  ToSet(s \o t) = ToSet(s) \cup ToSet(t)
<1>1. /\ Len(s) \in Nat /\ Len(t) \in Nat /\ DOMAIN s = 1 .. Len(s) /\ DOMAIN t = 1 .. Len(t)
      /\ DOMAIN (s \o t) = 1 .. Len(s) + Len(t)
      /\ \A k \in 1 .. Len(s) + Len(t) : (s \o t)[k] = IF k <= Len(s) THEN s[k] ELSE t[k - Len(s)]
      BY ConcatProperties, LenProperties
<1>2. \A k \in DOMAIN (s \o t) : (s \o t)[k] \in ToSet(s) \cup ToSet(t)
  <2>1. SUFFICES ASSUME NEW k \in DOMAIN (s \o t)
                 PROVE  (s \o t)[k] \in ToSet(s) \cup ToSet(t)
        OBVIOUS
  <2>2. CASE k <= Len(s)
    <3>1. k \in DOMAIN s /\ (s \o t)[k] = s[k]
          BY <1>1, <2>2
    <3> QED BY <3>1 DEF ToSet
  <2>3. CASE ~(k <= Len(s))
    <3>1. k - Len(s) \in DOMAIN t /\ (s \o t)[k] = t[k - Len(s)]
          BY <1>1, <2>3
    <3> QED BY <3>1 DEF ToSet
  <2> QED BY <2>2, <2>3
<1>3. \A k \in DOMAIN s : s[k] \in ToSet(s \o t)
  <2>1. SUFFICES ASSUME NEW k \in DOMAIN s PROVE s[k] \in ToSet(s \o t)
        OBVIOUS
  <2>2. k \in DOMAIN (s \o t) /\ (s \o t)[k] = s[k]
        BY <1>1
  <2> QED BY <2>2 DEF ToSet
<1>4. \A k \in DOMAIN t : t[k] \in ToSet(s \o t)
  <2>1. SUFFICES ASSUME NEW k \in DOMAIN t PROVE t[k] \in ToSet(s \o t)
        OBVIOUS
  <2>2. k + Len(s) \in DOMAIN (s \o t) /\ (s \o t)[k + Len(s)] = t[k]
        BY <1>1
  <2> QED BY <2>2 DEF ToSet
<1> QED BY <1>2, <1>3, <1>4 DEF ToSet

\* What the entries are, whatever they are of.
LEMMA EntryNames ==
    /\ Sentinel.name = "" /\ Sentinel.type = "dir"
    /\ DirectoryEntryError.name = "" /\ DirectoryEntryError.type = "error"
    /\ "" \notin Names /\ Roots \subseteq Names
<1>1. Roots \subseteq Names
  <2>1. DOMAIN RootDirs = 1 .. Len(RootDirs) /\ \A k \in 1 .. Len(RootDirs) : RootDirs[k] \in Names
        BY Names_Inodes
  <2> QED BY <2>1 DEF Roots, ToSet
<1> QED BY <1>1, SearchAssumption DEF Sentinel, DirectoryEntryError, ScanEntry

\* A disk that is left alone stays what it is.
LEMMA DiskStays ==
    ASSUME UNCHANGED diskVars
    PROVE  /\ \A n : /\ Steady(n)' <=> Steady(n)
                     /\ Shown(n)' <=> Shown(n)
                     /\ Read(n)' <=> Read(n)
                     /\ Stat(n)' = Stat(n)
                     /\ ReadEntry(n)' = ReadEntry(n)
           /\ \A i, n : IsAt(i, n)' <=> IsAt(i, n)
           /\ Met' = Met
<1> USE DEF diskVars
<1>1. \A n : /\ Steady(n)' <=> Steady(n)
             /\ Stat(n)' = Stat(n)
             /\ ReadEntry(n)' = ReadEntry(n)
      BY DEF Steady, Stat, NodeAt, ReadEntry
<1>2. \A n : /\ Shown(n)' <=> Shown(n)
             /\ Read(n)' <=> Read(n)
      BY <1>1 DEF Shown, Read
<1>3. \A i, n : IsAt(i, n)' <=> IsAt(i, n)
      BY <1>1, <1>2 DEF IsAt
<1>4. \A names : Meets(names)' <=> Meets(names)
      BY <1>2 DEF Meets
<1> QED BY <1>1, <1>2, <1>3, <1>4 DEF Met

\* readdir gave the number that the inode still has, so that it is found if it is there.
LEMMA ThereIsFound ==
    ASSUME GoodEntries, SearchTypeOK, pending # <<>>, DiskScan,
           NEW i \in remaining, IsAt(i, Pending.name)
    PROVE  FindInodeInList = {i}
<1>1. Pending \in ToSet(pending)
      BY TailSet DEF SearchTypeOK, Pending
<1>2. Pending.name \in Names \ Roots /\ Shown(Pending.name)
      BY DEF IsAt
<1>3. FromDirectory(Pending)
      BY <1>1, <1>2, EntryNames DEF GoodEntries, FromRoot
<1>4. Pending = ScanEntry(Pending.name, disk[Pending.name].inode.ino, disk[Pending.name].type)
      BY <1>2, <1>3 DEF FromDirectory, Shown, ReadEntry
<1>5. Pending.inode.ino = i.ino
      BY <1>4 DEF ScanEntry, IsAt
<1> QED BY <1>5 DEF FindInodeInList, FindInodeList, IsAt

LEMMA GoneStays ==
    ASSUME UNCHANGED diskVars, remaining' \subseteq remaining, NEW n, Gone(n)
    PROVE  Gone(n)'
  BY DiskStays DEF Gone

\* The scan goes on to the next entry, or into the directory.
LEMMA ContinueScans ==
    ASSUME SearchTypeOK, ScanInv, Scanning, stage \in {"pull", "verify"}, pending # <<>>, Continue,
           UNCHANGED <<diskVars, request, option>>, remaining' \subseteq remaining,
           NEW n, n = Pending.name, Gone(n)'
    PROVE  ScanInv'
<1>1. PICK names \in SUBSET Names : Dealt(names)
      BY DEF ScanInv
<1>2. GoodEntries
      BY DEF ScanInv
<1>3. CASE Pending.type = "dir"
  <2>1. stage' = "expand" /\ pending' = pending
        BY <1>3 DEF Continue
  <2>2. GoodEntries'
        BY <1>2, <2>1, DiskStays DEF GoodEntries, FromRoot, FromDirectory
  <2>3. Dealt(names)'
        BY <1>1, <2>1, DiskStays, GoneStays DEF Dealt, Awaited
  <2>4. Pending' = Pending
        BY <2>1 DEF Pending
  <2>5. Gone(Pending.name)'
        BY <2>4
  <2> QED BY <2>1, <2>2, <2>3, <2>5 DEF ScanInv
<1>4. CASE Pending.type # "dir"
  <2> DEFINE more == IF n \in Names \ Roots THEN names \cup {n} ELSE names
  <2>1. stage' = "pull" /\ pending' = Tail(pending)
        BY <1>4 DEF Continue
  <2>2. ToSet(pending) = {Pending} \cup ToSet(pending')
        BY <2>1, TailSet DEF SearchTypeOK, Pending
  <2>3. GoodEntries'
        BY <1>2, <2>2, DiskStays DEF GoodEntries, FromRoot, FromDirectory
  <2>4. \A m \in Names : Awaited(m) => m \in more \/ Awaited(m)'
        BY <2>2, <1>4 DEF Awaited
  <2>5. Sentinel \in ToSet(pending) => Sentinel \in ToSet(pending')
        BY <2>2, <1>4, EntryNames
  <2>6. n \in Names \ Roots => ~Read(n)
    <3>1. SUFFICES ASSUME n \in Names \ Roots, Steady(n) PROVE disk[n].type # "dir"
          BY DEF Read
    <3>2. FromDirectory(Pending)
          BY <1>2, <2>2, <3>1, EntryNames DEF GoodEntries, FromRoot
    <3>3. Pending = ReadEntry(n)
          BY <3>1, <3>2 DEF FromDirectory
    <3>4. disk[n].type = "unknown" \/ Pending.type = disk[n].type
          BY <3>3 DEF ReadEntry, ScanEntry
    <3> QED BY <3>4, <1>4
  <2>7. \A m \in more : Gone(m)'
        BY <1>1, GoneStays DEF Dealt
  <2>8. Sentinel \in ToSet(pending') \/ \A r \in Roots : r \in more \/ Awaited(r)'
        BY <1>1, <2>4, <2>5, EntryNames DEF Dealt
  <2>9. \A m \in Names \ Roots :
           Parent[m] \in more /\ Read(Parent[m]) /\ Shown(m) => m \in more \/ Awaited(m)'
        BY <1>1, <2>4, <2>6 DEF Dealt
  <2>10. Dealt(more)'
        BY <2>7, <2>8, <2>9, DiskStays DEF Dealt
  <2>11. more \in SUBSET Names
        OBVIOUS
  <2> QED BY <2>1, <2>3, <2>10, <2>11 DEF ScanInv
<1> QED BY <1>3, <1>4

\* As many different names as a directory has are all of them.
LEMMA OrderIsOnto ==
    ASSUME NEW S, IsFiniteSet(S), NEW names \in SetToSeqs(S)
    PROVE  \A n \in S : \E k \in 1 .. Cardinality(S) : names[k] = n
<1>1. /\ names \in [1 .. Cardinality(S) -> S]
      /\ \A i, j \in 1 .. Cardinality(S) : i # j => names[i] # names[j]
      BY DEF SetToSeqs
<1>2. Cardinality(S) \in Nat
      BY FS_CardinalityType
<1>3. IsFiniteSet(1 .. Cardinality(S)) /\ Cardinality(1 .. Cardinality(S)) = Cardinality(S)
      BY <1>2, FS_Interval
<1>4. names \in Injection(1 .. Cardinality(S), S)
      BY <1>1 DEF Injection, IsInjective
<1>5. names \in Surjection(1 .. Cardinality(S), S)
      BY <1>3, <1>4, FS_Injection
<1> QED BY <1>5 DEF Surjection

LEMMA OrderOfChildren ==
    ASSUME SearchTypeOK, NEW dir, NEW order \in ReadDirectoryEntries(dir)
    PROVE  /\ \A e \in ToSet(order) : e = DirectoryEntryError \/ FromDirectory(e)
           /\ Stat(dir).type = "dir" => \A n \in Children(dir) : ReadEntry(n) \in ToSet(order)
<1>1. CASE Stat(dir).type # "dir"
  <2>1. order = <<DirectoryEntryError>>
        BY <1>1 DEF ReadDirectoryEntries
  <2> QED BY <1>1, <2>1 DEF ToSet
<1>2. CASE Stat(dir).type = "dir"
  <2>1. PICK names \in SetToSeqs(Children(dir)) : order = [k \in DOMAIN names |-> ReadEntry(names[k])]
        BY <1>2 DEF ReadDirectoryEntries
  <2>2. IsFiniteSet(Children(dir)) /\ Children(dir) \subseteq Names
        BY Names_Inodes, FS_Subset DEF Children
  <2>3. names \in [1 .. Cardinality(Children(dir)) -> Children(dir)]
        BY <2>1 DEF SetToSeqs
  <2>4. \A n \in Children(dir) : \E k \in DOMAIN order : order[k] = ReadEntry(n)
        BY <2>1, <2>2, <2>3, OrderIsOnto
  <2>5. ASSUME NEW n \in Children(dir)
        PROVE  ReadEntry(n) = DirectoryEntryError \/ FromDirectory(ReadEntry(n))
    <3>1. SUFFICES ASSUME disk[n].type # "unknown"
                   PROVE  FromDirectory(ScanEntry(n, disk[n].inode.ino, disk[n].type))
          BY DEF ReadEntry
    <3>2. disk[n].type # "error"
      <4>1. disk[n] \in Nodes \cup {Absent}
            BY <2>2, <2>5 DEF SearchTypeOK
      <4>2. \A node \in Nodes : node.type # "error"
            BY DEF Nodes, Types
      <4>3. Absent.type # "error"
            BY DEF Absent
      <4> QED BY <4>1, <4>2, <4>3
    <3> QED BY <2>2, <3>1, <3>2 DEF FromDirectory, ReadEntry, ScanEntry
  <2>6. \A e \in ToSet(order) : \E n \in Children(dir) : e = ReadEntry(n)
        BY <2>1, <2>3 DEF ToSet
  <2> QED BY <2>4, <2>5, <2>6 DEF ToSet
<1> QED BY <1>1, <1>2

\* A directory is read: what it shows comes next.
LEMMA ExpandScans ==
    ASSUME SearchTypeOK, ScanInv, Scanning, Expand, NoFault
    PROVE  ScanInv'
<1>1. PICK names \in SUBSET Names : Dealt(names)
      BY DEF ScanInv
<1>2. GoodEntries /\ Gone(Pending.name)
      BY DEF ScanInv, Expand
<1>3. /\ stage' = "pull" /\ pending # <<>> /\ Pending.type = "dir"
      /\ UNCHANGED <<diskVars, askVars, remaining>> /\ faults \in Nat
      BY DEF Expand, SearchTypeOK
<1>4. faults' = faults /\ ~Faulty
      BY <1>3 DEF NoFault, Faulty
<1>5. Tail(pending) \in Seq(Entries) /\ ToSet(pending) = {Pending} \cup ToSet(Tail(pending))
      BY <1>3, TailSet DEF SearchTypeOK, Pending
<1> SUFFICES ASSUME TRUE
             PROVE  GoodEntries' /\ \E more \in SUBSET Names : Dealt(more)'
  BY <1>3 DEF ScanInv
<1>6. CASE Pending = Sentinel
  <2>1. pending' = RootEntries \o Tail(pending)
        BY <1>4, <1>6 DEF Expand
  <2>2. RootEntries \in Seq(Entries)
        BY RootsAreEntries DEF Scanning
  <2>3. ToSet(pending') = ToSet(RootEntries) \cup ToSet(Tail(pending))
    <3>1. \A s, t \in Seq(Entries) : ToSet(s \o t) = ToSet(s) \cup ToSet(t)
          BY ConcatSet
    <3>2. ToSet(RootEntries \o Tail(pending)) = ToSet(RootEntries) \cup ToSet(Tail(pending))
          BY <1>5, <2>2, <3>1
    <3> QED BY <2>1, <3>2
  <2>4. ToSet(RootEntries) = {ScanEntry(r, -1, "dir") : r \in Roots}
    <3>1. DOMAIN RootEntries = DOMAIN RootDirs
          BY DEF RootEntries
    <3> QED BY <3>1 DEF RootEntries, ToSet, Roots
  <2>5. \A r \in Roots : FromRoot(ScanEntry(r, -1, "dir")) /\ ScanEntry(r, -1, "dir").name = r
        BY DEF FromRoot, ScanEntry
  <2>6. GoodEntries'
        BY <1>2, <1>3, <1>5, <2>3, <2>4, <2>5, DiskStays DEF GoodEntries, FromRoot, FromDirectory
  <2>7. \A r \in Roots : Awaited(r)'
    <3>1. \A r \in Roots : LET e == ScanEntry(r, -1, "dir")
                           IN  e \in ToSet(pending') /\ e.name = r /\ e.type = "dir"
          BY <2>3, <2>4 DEF ScanEntry
    <3> QED BY <3>1 DEF Awaited
  <2>8. \A m \in Names : Awaited(m) => Awaited(m)'
        BY <1>5, <1>6, <2>3, EntryNames DEF Awaited
  <2>9. Dealt(names)'
        BY <1>1, <1>3, <2>7, <2>8, DiskStays, GoneStays DEF Dealt
  <2> QED BY <2>6, <2>9
<1>7. CASE Pending # Sentinel
  <2>0. PICK n : n = Pending.name
        OBVIOUS
  <2> DEFINE more == names \cup {n}
  <2>1. PICK order \in ReadDirectoryEntries(n) : pending' = order \o Tail(pending)
        BY <1>4, <1>7, <2>0 DEF Expand
  <2>2. order \in Seq(Entries)
        BY <2>1, ReadsEntries DEF Scanning
  <2>3. ToSet(pending') = ToSet(order) \cup ToSet(Tail(pending))
    <3>1. \A s, t \in Seq(Entries) : ToSet(s \o t) = ToSet(s) \cup ToSet(t)
          BY ConcatSet
    <3>2. ToSet(order \o Tail(pending)) = ToSet(order) \cup ToSet(Tail(pending))
          BY <1>5, <2>2, <3>1
    <3> QED BY <2>1, <3>2
  <2>4. n \in Names
        BY <2>0, <1>2, <1>3, <1>5, <1>7, EntryNames DEF GoodEntries, FromRoot, FromDirectory
  <2>5. /\ \A e \in ToSet(order) : e = DirectoryEntryError \/ FromDirectory(e)
        /\ Stat(n).type = "dir" => \A m \in Children(n) : ReadEntry(m) \in ToSet(order)
        BY <2>1, OrderOfChildren
  <2>6. GoodEntries'
    <3>1. \A e : FromRoot(e)' <=> FromRoot(e)
          BY DEF FromRoot
    <3>2. \A e : FromDirectory(e)' <=> FromDirectory(e)
          BY <1>3, DiskStays DEF FromDirectory
    <3> QED BY <1>2, <1>5, <2>3, <2>5, <3>1, <3>2 DEF GoodEntries
  <2>7. \A m \in Names : Awaited(m) => m \in more \/ Awaited(m)'
        BY <1>5, <2>0, <2>3 DEF Awaited
  <2>8. ASSUME NEW m \in Names \ Roots, Parent[m] = n, Read(n), Shown(m)
        PROVE  Awaited(m)'
    <3>1. Stat(n).type = "dir"
          BY <2>4, <2>8 DEF Read, Stat, NodeAt
    <3>2. m \in Children(n)
          BY <2>8 DEF Children, Shown
    <3>3. ReadEntry(m).name = m
          BY <2>8 DEF Shown, ReadEntry, ScanEntry
    <3> QED BY <2>3, <2>5, <2>8, <3>1, <3>2, <3>3 DEF Awaited
  <2>9. Sentinel \in ToSet(pending) => Sentinel \in ToSet(pending')
        BY <1>5, <1>7, <2>3
  <2>10. \A m \in more : Gone(m)'
        BY <1>1, <1>2, <1>3, <2>0, GoneStays DEF Dealt
  <2>11. Sentinel \in ToSet(pending') \/ \A r \in Roots : r \in more \/ Awaited(r)'
        BY <1>1, <2>7, <2>9, EntryNames DEF Dealt
  <2>12. \A m \in Names \ Roots :
           Parent[m] \in more /\ Read(Parent[m]) /\ Shown(m) => m \in more \/ Awaited(m)'
        BY <1>1, <2>7, <2>8 DEF Dealt
  <2>13. Dealt(more)'
        BY <1>3, <2>10, <2>11, <2>12, DiskStays DEF Dealt
  <2>14. more \in SUBSET Names
        BY <2>4
  <2> QED BY <2>6, <2>13, <2>14
<1> QED BY <1>6, <1>7

LEMMA SearchScans ==
    ASSUME SearchTypeOK, ScanInv, Search
    PROVE  ScanInv'
<1> SUFFICES ASSUME Scanning' PROVE ScanInv'
  BY DEF ScanInv
<1> USE DEF searchVars, pullVars, askVars
<1>0. UNCHANGED <<diskVars, askVars>> /\ (Faulty \/ UNCHANGED faults)
      BY DEF Search, Begin, BeginWithoutCache, Pull, DropError, Match, Skip, SkipAlways, Stop,
             ListEntry, ListNothing, Verify, Expand, SourceEnds, NotFound, Complete, NoFault
<1>1. faults = 0 /\ ~Faulty /\ UNCHANGED faults /\ request = "find" /\ DiskScan
  <2>1. faults' = 0 /\ request' = "find" /\ DiskScan' /\ faults \in Nat
        BY DEF Scanning, SearchTypeOK
  <2>2. ~Faulty
        BY <2>1 DEF Faulty
  <2> QED BY <1>0, <2>1, <2>2 DEF DiskScan
<1>2. CASE Begin
  <2>1. pending' = <<Sentinel>> /\ stage' = "pull"
        BY <1>1, <1>2 DEF Begin
  <2>2. ToSet(pending') = {Sentinel}
        BY <2>1 DEF ToSet
  <2>3. GoodEntries'
        BY <2>2 DEF GoodEntries
  <2>4. Dealt({})'
        BY <2>2 DEF Dealt
  <2> QED BY <2>1, <2>3, <2>4 DEF ScanInv
<1>3. CASE stage # "off"
  <2>1. ~Begin /\ ~BeginWithoutCache
        BY <1>3 DEF Begin, BeginWithoutCache
  <2>2. CASE DropError
    <3>1. Pulled /\ Pending.type = "error" /\ pending' = Tail(pending) /\ UNCHANGED <<stage, remaining>>
          BY <2>2 DEF DropError
    <3>2. Continue /\ Scanning
          BY <1>1, <3>1 DEF Continue, Pulled, Scanning
    <3>3. Pending.name = ""
          <4>1. Pending \in ToSet(pending)
                BY <3>1, TailSet DEF Pulled, SearchTypeOK, Pending
          <4> QED BY <3>1, <3>2, <4>1, EntryNames DEF ScanInv, GoodEntries, FromRoot, FromDirectory
    <3>4. \A n : n = Pending.name => Gone(n)'
          BY <3>3, EntryNames DEF Gone, IsAt
    <3> QED BY <1>0, <3>1, <3>2, <3>4, ContinueScans DEF Pulled
  <2>3. CASE Match
    <3>1. Searching /\ Pulled /\ stage = "pull" /\ pending # <<>>
          BY <2>3 DEF Match, Searching, Pulled
    <3>2. PICK i \in FindInodeInList : remaining' = remaining \ {i} /\ Emit(MakeSuccess(i, Pending.name))
          BY <2>3 DEF Match
    <3>3. Scanning /\ GoodEntries
          BY <1>1, <3>1 DEF Scanning, ScanInv
    <3>4. \A n : n = Pending.name => Gone(n)'
      <4>1. SUFFICES ASSUME NEW j \in remaining', IsAt(j, Pending.name) PROVE FALSE
            BY <1>0, DiskStays DEF Gone
      <4> QED BY <1>1, <3>1, <3>2, <3>3, <4>1, ThereIsFound
    <3>5. CASE option.verify = "stat"
      <4>1. stage' = "verify" /\ pending' = pending
            BY <3>2, <3>5 DEF Emit
      <4>2. PICK names \in SUBSET Names : Dealt(names)
            BY <3>3 DEF ScanInv
      <4>3. GoodEntries'
            BY <1>0, <3>3, <4>1, DiskStays DEF GoodEntries, FromRoot, FromDirectory
      <4>4. Dealt(names)'
            BY <1>0, <3>2, <4>1, <4>2, DiskStays, GoneStays DEF Dealt, Awaited
      <4>5. Pending' = Pending
            BY <4>1 DEF Pending
      <4>6. Gone(Pending.name)'
            BY <3>4, <4>5
      <4> QED BY <4>1, <4>3, <4>4, <4>6 DEF ScanInv
    <3>6. CASE option.verify # "stat"
      <4>1. Continue
            BY <3>2, <3>6 DEF Emit
      <4> QED BY <1>0, <3>1, <3>2, <3>3, <3>4, <4>1, ContinueScans
    <3> QED BY <3>5, <3>6
  <2>4. CASE Skip
    <3>1. /\ FindInodeInList = {} /\ Continue /\ UNCHANGED remaining
          /\ stage = "pull" /\ pending # <<>>
          BY <1>1, <2>4 DEF Skip, SkipAlways, Searching, Pulled
    <3>2. Scanning /\ GoodEntries
          BY <1>1, <3>1 DEF Scanning, ScanInv
    <3>3. \A n : n = Pending.name => Gone(n)'
          BY <1>0, <1>1, <3>1, <3>2, DiskStays, ThereIsFound DEF Gone
    <3> QED BY <1>0, <3>1, <3>2, <3>3, ContinueScans
  <2>5. CASE Verify
    <3>1. stage = "verify" /\ pending # <<>> /\ Continue /\ UNCHANGED remaining
          BY <2>5 DEF Verify, SearchTypeOK
    <3>2. Scanning /\ Gone(Pending.name)
          BY <1>1, <3>1 DEF Scanning, ScanInv
    <3>3. \A n : n = Pending.name => Gone(n)'
          BY <1>0, <3>1, <3>2, GoneStays
    <3> QED BY <1>0, <3>1, <3>2, <3>3, ContinueScans
  <2>6. CASE Expand
    <3>1. Scanning /\ NoFault
          BY <1>1, <2>6 DEF Expand, Scanning, NoFault
    <3> QED BY <2>6, <3>1, ExpandScans
  <2>7. CASE SourceEnds \/ NotFound
    <3>1. /\ UNCHANGED pending /\ remaining' \subseteq remaining /\ Scanning
          /\ pending = <<>> /\ stage' \in {"unmatched", "completed"}
          BY <1>1, <2>7 DEF SourceEnds, NotFound, Scanning, ScanInv
    <3>2. PICK names \in SUBSET Names : Dealt(names)
          BY <3>1 DEF ScanInv
    <3>3. GoodEntries'
          BY <3>1 DEF GoodEntries, ToSet
    <3>4. Dealt(names)'
          BY <1>0, <3>1, <3>2, DiskStays, GoneStays DEF Dealt, Awaited
    <3> QED BY <3>1, <3>3, <3>4 DEF ScanInv
  <2>8. CASE Stop \/ Complete
    <3>1. stage' = "completed"
          BY <2>8 DEF Stop, Complete
    <3> QED BY <3>1 DEF Scanning
  <2>9. ~ListEntry /\ ~ListNothing
        BY <1>1 DEF ListEntry, ListNothing, Listing
  <2> QED BY <2>1, <2>2, <2>3, <2>4, <2>5, <2>6, <2>7, <2>8, <2>9 DEF Search, Pull
<1>4. CASE stage = "off" /\ ~Begin
  <2>1. BeginWithoutCache
        BY <1>4 DEF Search, Pull, DropError, Match, Skip, SkipAlways, Stop, Searching, Listing, Pulled,
             ListEntry, ListNothing, Verify, Expand, SourceEnds, NotFound, Complete
  <2> QED BY <1>1, <2>1 DEF BeginWithoutCache
<1> QED BY <1>2, <1>3, <1>4

\* A change only takes away what a scan has to find.
LEMMA ChangeTakesAway ==
    ASSUME SearchTypeOK, Change
    PROVE  /\ \A n \in Names : Steady(n)' => ReadEntry(n)' = ReadEntry(n)
           /\ \A n \in Names : (Steady(n)' => Steady(n)) /\ (Shown(n)' => Shown(n)) /\ (Read(n)' => Read(n))
           /\ \A i, n : IsAt(i, n)' => IsAt(i, n)
           /\ Met' \subseteq Met
<1>1. PICK m \in Changing, node \in NewNodes \cup {Absent} :
           disk' = [disk EXCEPT ![m] = node] /\ touched' = touched \cup {m}
      BY DEF Change
<1>2. \A n \in Names : n # m => disk'[n] = disk[n]
      BY <1>1 DEF SearchTypeOK
<1>3. ASSUME NEW n \in Names, Steady(n)'
      PROVE  Steady(n) /\ disk'[n] = disk[n] /\ Stat(n)' = Stat(n)
  <2>1. n # m /\ disk'[n] = disk[n]
        BY <1>1, <1>2, <1>3 DEF Steady
  <2>2. PICK to : to = disk[n].target
        OBVIOUS
  <2>3. to # m /\ Steady(n)
        BY <1>1, <1>3, <2>1, <2>2 DEF Steady
  <2>4. NodeAt(to)' = NodeAt(to) /\ NodeAt(n)' = NodeAt(n) /\ NodeAt(n) = disk[n]
        BY <1>2, <2>1, <2>3 DEF NodeAt
  <2>5. Stat(n) = IF NodeAt(n).type = "lnk" THEN NodeAt(to) ELSE NodeAt(n)
        BY <2>2, <2>4 DEF Stat
  <2>6. Stat(n)' = IF NodeAt(n)'.type = "lnk" THEN NodeAt(to)' ELSE NodeAt(n)'
        BY <2>1, <2>2, <2>4 DEF Stat
  <2> QED BY <2>1, <2>3, <2>4, <2>5, <2>6
<1>4. \A n \in Names : Steady(n)' => ReadEntry(n)' = ReadEntry(n)
      BY <1>3 DEF ReadEntry
<1>5. \A n \in Names : (Shown(n)' => Shown(n)) /\ (Read(n)' => Read(n))
      BY <1>3 DEF Shown, Read
<1>6. \A i, n : IsAt(i, n)' => IsAt(i, n)
      BY <1>3, <1>5 DEF IsAt, Shown
<1>7. \A names \in SUBSET Names : Meets(names) => Meets(names)'
      BY <1>5 DEF Meets
<1> QED BY <1>3, <1>4, <1>5, <1>6, <1>7 DEF Met

LEMMA ChangeScans ==
    ASSUME SearchTypeOK, ScanInv, Change
    PROVE  ScanInv'
<1>1. UNCHANGED <<stage, pending, remaining, request, option, faults>>
      BY DEF Change, searchVars, pullVars, askVars
<1>2. SUFFICES ASSUME Scanning PROVE ScanInv'
      BY <1>1 DEF ScanInv, Scanning, DiskScan
<1>3. PICK names \in SUBSET Names : Dealt(names)
      BY <1>2 DEF ScanInv
<1>4. GoodEntries'
      BY <1>1, <1>2, ChangeTakesAway DEF ScanInv, GoodEntries, FromRoot, FromDirectory
<1>5. \A n : Gone(n) => Gone(n)'
      BY <1>1, ChangeTakesAway DEF Gone
<1>6. \A n : Awaited(n) => Awaited(n)'
      BY <1>1 DEF Awaited
<1>7. \A n \in Names \ Roots :
         Parent[n] \in names /\ Read(Parent[n])' /\ Shown(n)' => n \in names \/ Awaited(n)'
      BY <1>3, <1>6, ChangeTakesAway DEF Dealt
<1>8. Dealt(names)'
      BY <1>1, <1>3, <1>5, <1>6, <1>7 DEF Dealt
<1>9. stage' \in {"verify", "expand"} => Gone(Pending.name)'
  <2>1. Pending' = Pending
        BY <1>1 DEF Pending
  <2>2. stage' \in {"verify", "expand"} => Gone(Pending.name)
        BY <1>1, <1>2 DEF ScanInv
  <2>3. PICK n : n = Pending.name
        OBVIOUS
  <2>4. Gone(n) => Gone(n)'
        BY <1>5
  <2> QED BY <2>1, <2>2, <2>3, <2>4
<1> QED BY <1>1, <1>2, <1>4, <1>8, <1>9 DEF ScanInv

\* A match that is verified was a success, and only a search for inodes misses any.
MatchesSucceed ==
    /\ stage = "verify" => IsSuccess(candidate)
    /\ stage = "unmatched" => request = "find"

LEMMA SearchKeepsMatches ==
    ASSUME MatchesSucceed, Search
    PROVE  MatchesSucceed'
<1> USE DEF searchVars, pullVars, askVars
<1>1. UNCHANGED request
      BY DEF Search, Begin, BeginWithoutCache, Pull, DropError, Match, Skip, SkipAlways, Stop,
             ListEntry, ListNothing, Verify, Expand, SourceEnds, NotFound, Complete
<1>2. CASE Match \/ ListEntry
  <2>1. PICK i, name : Emit(MakeSuccess(i, name))
        BY <1>2 DEF Match, ListEntry
  <2>2. \/ stage' = "verify" /\ candidate' = MakeSuccess(i, name)
        \/ stage' \in {"pull", "expand"}
        BY <2>1 DEF Emit, Continue
  <2>3. MakeSuccess(i, name).error = ""
        BY DEF MakeSuccess
  <2> QED BY <2>2, <2>3 DEF MatchesSucceed, IsSuccess
<1>3. CASE ~Match /\ ~ListEntry
  <2>1. stage' # "verify" /\ (stage' = "unmatched" => request = "find")
        BY <1>3
        DEF Search, Begin, BeginWithoutCache, Pull, DropError, Skip, SkipAlways, Stop, Searching, Listing,
             Pulled, ListNothing, Verify, Expand, SourceEnds, NotFound, Complete, Continue, MatchesSucceed
  <2> QED BY <1>1, <2>1 DEF MatchesSucceed
<1> QED BY <1>2, <1>3

\* With nothing left to come, what a scan has to meet it has dealt with.
LEMMA AllIsMet ==
    ASSUME ScanInv, Scanning, stage = "unmatched", NEW i \in remaining, NEW n \in Met
    PROVE  ~IsAt(i, n)
<1>1. pending = <<>>
      BY DEF ScanInv
<1>2. PICK names \in SUBSET Names : Dealt(names)
      BY DEF ScanInv
<1>3. ToSet(pending) = {}
      BY <1>1 DEF ToSet
<1>4. Meets(names)
      BY <1>2, <1>3 DEF Dealt, Awaited, Meets
<1>5. n \in names
      BY <1>4 DEF Met
<1> QED BY <1>2, <1>5 DEF Dealt, Gone

MissIsGone(result) ==
    DiskScan /\ faults = 0 /\ result.error = "kCouldNotFindFilename" =>
       \A n \in Met : ~IsAt(result.inode, n)

LEMMA SearchKeepsMisses ==
    ASSUME SearchTypeOK, stage = "off" => stream = <<>>, ScanInv, MatchesSucceed, MissesAreGone, Search
    PROVE  MissesAreGone'
<1> SUFFICES ASSUME DiskScan', faults' = 0 PROVE MissesAreGone'
  BY DEF MissesAreGone
<1> USE DEF searchVars, pullVars, askVars
<1>0. UNCHANGED <<diskVars, askVars>> /\ (Faulty \/ UNCHANGED faults)
      BY DEF Search, Begin, BeginWithoutCache, Pull, DropError, Match, Skip, SkipAlways, Stop,
             ListEntry, ListNothing, Verify, Expand, SourceEnds, NotFound, Complete, NoFault
<1>1. faults = 0 /\ ~Faulty /\ UNCHANGED faults /\ DiskScan
  <2>1. faults \in Nat
        BY DEF SearchTypeOK
  <2>2. ~Faulty
        BY <2>1 DEF Faulty
  <2> QED BY <1>0, <2>1, <2>2 DEF DiskScan
<1>2. \/ stream' = stream
      \/ \E result \in Results : MissIsGone(result) /\ stream' = Append(stream, result)
  <2>1. CASE Match \/ ListEntry
    <3>1. PICK i, name : /\ Emit(MakeSuccess(i, name))
                         /\ MakeSuccess(i, name) \in Results
      <4>1. CASE Match
        <5>1. PICK i \in FindInodeInList : Emit(MakeSuccess(i, Pending.name))
              BY <4>1 DEF Match
        <5>2. i \in Inodes /\ Pulled
              BY <4>1, <5>1 DEF Match, Searching, FindInodeInList, FindInodeList, SearchTypeOK
        <5> QED BY <5>1, <5>2, Named, SuccessIsResult
      <4>2. CASE ListEntry
        <5>1. Pulled /\ Stat(Pending.name).type # "absent" /\ Emit(MakeSuccess(Stat(Pending.name).inode, Pending.name))
              BY <1>1, <4>2 DEF ListEntry, Listing
        <5> QED BY <5>1, Named, StatFinds, SuccessIsResult
      <4> QED BY <2>1, <4>1, <4>2
    <3>2. MissIsGone(MakeSuccess(i, name))
          BY DEF MissIsGone, MakeSuccess
    <3> QED BY <3>1, <3>2 DEF Emit
  <2>2. CASE Verify
    <3>1. stage = "verify" /\ IsSuccess(candidate) /\ candidate \in Results
          BY <2>2 DEF Verify, MatchesSucceed, SearchTypeOK
    <3>2. stream' = Append(stream, Verified)
          BY <1>1, <2>2 DEF Verify
    <3>3. Verified \in Results
      <4>1. candidate.inode \in Inodes
            BY <3>1 DEF Results
      <4> QED BY <3>1, <4>1, FailureIsResult DEF Verified, Errors
    <3>4. MissIsGone(Verified)
          BY <3>1 DEF MissIsGone, Verified, IsSuccess, MakeFailure
    <3> QED BY <3>2, <3>3, <3>4
  <2>3. CASE NotFound
    <3>1. PICK i \in remaining : stream' = Append(stream, MakeFailure(i, "kCouldNotFindFilename"))
          BY <2>3 DEF NotFound
    <3>2. Scanning /\ stage = "unmatched"
          BY <1>1, <2>3 DEF NotFound, Scanning, MatchesSucceed
    <3>3. i \in Inodes
          BY DEF SearchTypeOK
    <3>4. MakeFailure(i, "kCouldNotFindFilename") \in Results
          BY <3>3, FailureIsResult DEF Errors
    <3>5. MissIsGone(MakeFailure(i, "kCouldNotFindFilename"))
          BY <3>2, AllIsMet DEF MissIsGone, MakeFailure
    <3> QED BY <3>1, <3>4, <3>5
  <2>4. CASE Begin \/ BeginWithoutCache \/ DropError \/ Skip \/ Stop \/ ListNothing \/ Expand
             \/ SourceEnds \/ Complete
        BY <2>4 DEF Begin, BeginWithoutCache, DropError, Skip, SkipAlways, Stop, ListNothing, Expand,
                    SourceEnds, Complete
  <2> QED BY <2>1, <2>2, <2>3, <2>4 DEF Search, Pull
<1>3. /\ \A i, n : IsAt(i, n)' <=> IsAt(i, n)
      /\ Met' = Met
      BY <1>0, DiskStays
<1>4. CASE stream' = stream
      BY <1>0, <1>1, <1>3, <1>4 DEF MissesAreGone
<1>5. ASSUME NEW result \in Results, MissIsGone(result), stream' = Append(stream, result)
      PROVE  MissesAreGone'
  <2>1. /\ DOMAIN stream' = 1 .. Len(stream) + 1 /\ Len(stream) \in Nat
        /\ DOMAIN stream = 1 .. Len(stream)
        /\ stream'[Len(stream) + 1] = result
        /\ \A k \in 1 .. Len(stream) : stream'[k] = stream[k]
        BY <1>5, AppendProperties, LenProperties DEF SearchTypeOK
  <2>2. SUFFICES ASSUME NEW k \in 1 .. Len(stream) + 1, NEW n \in Names,
                        stream'[k].error = "kCouldNotFindFilename", IsAt(stream'[k].inode, n)
                 PROVE  n \notin Met
        BY <1>3, <2>1 DEF MissesAreGone
  <2>3. CASE k = Len(stream) + 1
        BY <1>1, <1>5, <2>1, <2>2, <2>3 DEF MissIsGone
  <2>4. CASE k \in 1 .. Len(stream)
        BY <1>1, <2>1, <2>2, <2>4 DEF MissesAreGone
  <2> QED BY <2>1, <2>3, <2>4
<1> QED BY <1>2, <1>4, <1>5

LEMMA ChangeKeepsMisses ==
    ASSUME SearchTypeOK, MissesAreGone, Change
    PROVE  MissesAreGone'
<1>1. UNCHANGED <<faults, option, stream>>
      BY DEF Change, askVars, searchVars
<1> QED BY <1>1, ChangeTakesAway DEF MissesAreGone, DiskScan

\* What is answered is true, however the disk changes under the scan: a name led to its
\* inode, and an inode that could not be found is not at a name that stayed in its
\* place below directories that stayed in theirs.
THEOREM AnswersTrue == ResolverSpec => []AnswersAreTrue
<1> DEFINE Misses == ScanInv /\ MatchesSucceed /\ MissesAreGone
<1>1. ResolverInit => Misses
      BY DEF ResolverInit, Init, ScanInv, Scanning, MatchesSucceed, MissesAreGone
<1>2. Misses /\ IInv /\ [ResolverNext]_vars => Misses'
  <2>1. ASSUME Misses, UNCHANGED <<diskVars, askVars, searchVars>>, faults' = faults \/ Faulty, faults \in Nat
        PROVE  Misses'
    <3>1. MatchesSucceed'
          BY <2>1 DEF MatchesSucceed, askVars, searchVars, pullVars
    <3>2. SUFFICES ASSUME faults' = 0 PROVE ScanInv' /\ MissesAreGone'
          BY <3>1 DEF ScanInv, Scanning, MissesAreGone
    <3>3. faults' = faults
          BY <2>1, <3>2 DEF Faulty
    <3>4. ScanInv'
          BY <2>1, <3>3, DiskStays
          DEF ScanInv, Scanning, GoodEntries, FromRoot, FromDirectory, Dealt, Gone, Awaited, Pending,
              DiskScan, askVars, searchVars, pullVars
    <3>5. MissesAreGone'
          BY <2>1, <3>3, DiskStays DEF MissesAreGone, DiskScan, askVars, searchVars, pullVars
    <3> QED BY <3>4, <3>5
  <2>2. ASSUME Misses, IInv, ResolverNext
        PROVE  Misses'
    <3>1. SearchTypeOK /\ (stage = "off" => stream = <<>>) /\ faults \in Nat
          BY <2>2 DEF IInv, TypeOK, PipeInv, SearchTypeOK
    <3>2. CASE ChildSearches
      <4>1. Search
            BY <3>2 DEF ChildSearches
      <4> QED BY <2>2, <3>1, <4>1, SearchScans, SearchKeepsMatches, SearchKeepsMisses
    <3>3. CASE DiskChanges
      <4>1. Change
            BY <3>3 DEF DiskChanges
      <4>2. MatchesSucceed'
            BY <2>2, <4>1 DEF Change, MatchesSucceed, askVars, searchVars, pullVars
      <4> QED BY <2>2, <3>1, <4>1, <4>2, ChangeScans, ChangeKeepsMisses
    <3>4. CASE ~ChildSearches /\ ~DiskChanges
      <4>1. UNCHANGED <<diskVars, askVars, searchVars>> /\ (faults' = faults \/ Faulty)
            BY <2>2, <3>4
            DEF ResolverNext, Reader, Child, CompleteEmpty, CannotFork, Fork, ReadOneLine, InvalidOutput,
                OutputEof, Flush, ChildReturns, BrokenPipe, Kill, sVars
      <4> QED BY <2>1, <2>2, <3>1, <4>1
    <3> QED BY <3>2, <3>3, <3>4
  <2>3. ASSUME Misses, IInv, UNCHANGED vars
        PROVE  Misses'
    <3>1. UNCHANGED <<diskVars, askVars, searchVars>> /\ faults' = faults /\ faults \in Nat
          BY <2>3 DEF vars, sVars, IInv, TypeOK, SearchTypeOK
    <3> QED BY <2>1, <2>3, <3>1
  <2> QED BY <2>2, <2>3
<1>3. []MissesAreGone /\ []NamesLedThere => []AnswersAreTrue
  <2>1. MissesAreGone /\ NamesLedThere => AnswersAreTrue
        BY DEF AnswersAreTrue
  <2> QED BY <2>1, PTL
<1> QED BY <1>1, <1>2, <1>3, NamesLed, PipeHolds, PTL DEF ResolverSpec

-----------------------------------------------------------------------------
(* The parent keeps the contract.                                          *)

LEMMA AnsweredIsRead ==
    ASSUME IInv, outcome = "none"
    PROVE  Contract!Answered = {stream[k].inode : k \in 1 .. consumed}
<1>1. answers = {ParseFromLine(stream[k]) : k \in 1 .. consumed}
      BY DEF IInv, PipeInv, Parsed
<1>2. \A k \in 1 .. consumed : stream[k] \in Results
  <2>1. /\ consumed <= flushed /\ flushed <= Len(stream) /\ consumed \in Nat /\ flushed \in Nat
        /\ stream \in Seq(Results) /\ Len(stream) \in Nat
        BY DEF IInv, TypeOK, SearchTypeOK, PipeInv
  <2> QED BY <2>1, ElementOfSeq
<1>3. \A r \in Results : ParseFromLine(r).inode = r.inode
      BY DEF ParseFromLine, Results
<1> QED BY <1>1, <1>2, <1>3 DEF Contract!Answered

\* The child tells nothing twice, so what is read is new to the parent.
LEMMA LineIsNew ==
    ASSUME IInv, Reading, request = "find", outcome = "none"
    PROVE  Line.inode \in list \ Contract!Answered
<1>1. Accounted /\ consumed + 1 \in 1 .. Len(stream) /\ consumed \in Nat /\ stream \in Seq(Results)
      BY LineIsResult DEF IInv, TypeOK, SearchTypeOK
<1>2. DOMAIN stream = 1 .. Len(stream) /\ Len(stream) \in Nat
      BY <1>1
<1>3. Line.inode \in list
      BY <1>1, <1>2 DEF Accounted, Told, Line
<1>4. \A k \in 1 .. consumed : stream[k].inode # Line.inode
      BY <1>1, <1>2 DEF Accounted, Line
<1> QED BY <1>3, <1>4, AnsweredIsRead

\* As many different answers from the list as the list is long are all of it.
LEMMA CountIsEnough ==
    ASSUME IInv, request = "find", outcome = "none", CountsAgree
    PROVE  Contract!Answered = list
<1>1. /\ Accounted /\ actual_result_count = consumed /\ consumed \in Nat /\ flushed \in Nat
      /\ consumed <= flushed /\ flushed <= Len(stream) /\ stream \in Seq(Results)
      /\ IsFiniteSet(list)
      BY DEF IInv, TypeOK, SearchTypeOK, PipeInv
<1>2. DOMAIN stream = 1 .. Len(stream) /\ Len(stream) \in Nat
      BY <1>1
<1>3. 1 .. consumed \subseteq DOMAIN stream
      BY <1>1, <1>2
<1> DEFINE f == [k \in 1 .. consumed |-> stream[k].inode]
<1>4. f \in Injection(1 .. consumed, list)
  <2>1. f \in [1 .. consumed -> list]
        BY <1>1, <1>3 DEF Accounted, Told
  <2>2. \A j, k \in 1 .. consumed : f[j] = f[k] => j = k
        BY <1>1, <1>3 DEF Accounted
  <2> QED BY <2>1, <2>2 DEF Injection, IsInjective
<1>5. Cardinality(1 .. consumed) = Cardinality(list)
  <2>1. Cardinality(1 .. consumed) = consumed
        BY <1>1, FS_Interval
  <2> QED BY <1>1, <2>1 DEF CountsAgree
<1>6. f \in Surjection(1 .. consumed, list)
      BY <1>1, <1>4, <1>5, FS_Injection
<1>7. list = {f[k] : k \in 1 .. consumed}
      BY <1>4, <1>6 DEF Surjection, Injection
<1> QED BY <1>7, AnsweredIsRead

LEMMA StepKeepsContract ==
    ASSUME IInv, ResolverNext
    PROVE  Contract!Next \/ UNCHANGED Contract!vars
<1>1. CASE UNCHANGED <<request, list, answers, outcome>>
      BY <1>1 DEF Contract!vars
<1>2. ASSUME End("error"), UNCHANGED <<request, list, answers>>
      PROVE  Contract!Next \/ UNCHANGED Contract!vars
      BY <1>2 DEF End, Contract!Next, Contract!Fail, Contract!vars
<1>3. CASE ChildSearches
      BY <1>1, <1>3, SearchOnlyAppends DEF ChildSearches, readerVars, IInv, TypeOK
<1>4. CASE DiskChanges \/ Fork \/ Flush \/ ChildReturns \/ BrokenPipe \/ Kill
      BY <1>1, <1>4
      DEF DiskChanges, Change, Fork, Flush, ChildReturns, BrokenPipe, Kill, readerVars, sVars,
          askVars
<1>5. CASE CannotFork \/ InvalidOutput
      BY <1>2, <1>5 DEF CannotFork, InvalidOutput, sVars, askVars
<1>6. CASE CompleteEmpty
  <2>1. /\ outcome = "none" /\ request = "find" /\ list = {} /\ outcome' = "completed"
        /\ UNCHANGED <<request, list, answers>>
        BY <1>6 DEF CompleteEmpty, End, sVars, askVars
  <2>2. stream = <<>> /\ consumed \in Nat /\ flushed \in Nat
        /\ consumed <= flushed /\ flushed <= Len(stream)
        BY <2>1 DEF IInv, PipeInv, TypeOK
  <2>3. consumed = 0
        BY <2>2
  <2>4. Contract!Answered = {}
        BY <2>1, <2>3, AnsweredIsRead
  <2> QED BY <2>1, <2>4 DEF Contract!Complete, Contract!Next
<1>7. CASE ReadOneLine
  <2>1. /\ Reading /\ UNCHANGED <<request, list, outcome>>
        /\ answers' = IF outcome = "none" THEN answers \cup {ParseFromLine(Line)} ELSE answers
        BY <1>7 DEF ReadOneLine, sVars, askVars
  <2>2. CASE outcome # "none"
        BY <1>1, <2>1, <2>2
  <2>3. CASE outcome = "none"
    <3>1. ParseFromLine(Line) \in AnswerSpace /\ ParseFromLine(Line).inode = Line.inode
          BY <2>1, LineIsResult
    <3>2. Contract!Answer(ParseFromLine(Line))
          BY <2>1, <2>3, <3>1, LineIsNew DEF Contract!Answer
    <3> QED BY <3>1, <3>2 DEF Contract!Next
  <2> QED BY <2>2, <2>3
<1>8. CASE OutputEof
  <2>1. UNCHANGED <<request, list, answers>>
        BY <1>8 DEF OutputEof, sVars, askVars
  <2>2. CASE ~CountsAgree
        BY <1>2, <1>8, <2>1, <2>2 DEF OutputEof
  <2>3. CASE outcome # "none"
        BY <1>1, <1>8, <2>1, <2>3 DEF OutputEof, End
  <2>4. CASE CountsAgree /\ outcome = "none"
    <3>1. outcome' = "completed"
          BY <1>8, <2>4 DEF OutputEof, End
    <3>2. Contract!Complete
          BY <2>1, <2>4, <3>1, CountIsEnough DEF Contract!Complete
    <3> QED BY <3>2 DEF Contract!Next
  <2> QED BY <2>2, <2>3, <2>4
<1> QED BY <1>3, <1>4, <1>5, <1>6, <1>7, <1>8 DEF ResolverNext, Reader, Child

\* Whenever the child dies, wherever the pipe ends, and whatever becomes of the
\* disk: the parent completes only when every inode was answered, and once.
THEOREM KeepsContract == ResolverSpec => ImplementsContract
<1>1. ResolverInit => Contract!Init
  <2>1. SUFFICES ASSUME ResolverInit PROVE Contract!Init
        OBVIOUS
  <2>2. request \in {"find", "all"} /\ list \subseteq Inodes
        BY <2>1, InitHolds DEF IInv, TypeOK, SearchTypeOK
  <2> QED BY <2>1, <2>2 DEF ResolverInit, Contract!Init
<1>2. IInv /\ [ResolverNext]_vars => [Contract!Next]_(Contract!vars)
  <2>1. UNCHANGED vars => UNCHANGED Contract!vars
        BY DEF vars, sVars, askVars, readerVars, Contract!vars
  <2> QED BY <2>1, StepKeepsContract
<1> QED BY <1>1, <1>2, PipeHolds, PTL DEF ResolverSpec, ImplementsContract, Contract!Spec
=============================================================================
