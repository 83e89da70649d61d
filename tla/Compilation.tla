---------------------------- MODULE Compilation ----------------------------
(***************************************************************************)
(* One run of iorap.cmd.compiler (PerformCompilation, compiler.cc): it     *)
(* reads the raw traces for their inodes, has an inode resolver name them, *)
(* reads the traces again, and writes the trace file.  The resolver is     *)
(* known by its contract, which InodeResolver implements.  Others purge    *)
(* raw traces meanwhile, and system calls fail.                            *)
(***************************************************************************)
EXTENDS TraceCompiler

CONSTANTS
    Inodes,      \* inodes of the events
    Answers,     \* what a resolver may answer: [inode, name, error]
    Commands,    \* command lines, with the files they name:
                 \* [traces, limits, output_proto, blacklist]
    MaxPurges,   \* bound on traces that are removed
    MaxDrops,    \* bound on inputs that are there and are not opened or read
    MaxFaults    \* bound on the output's system calls that fail

Timestamps == Nat \cup {NoStamp}
Events == [timestamp : Timestamps, inode : Inodes, op : {"add", "delete", "other"}, index : Nat]
Packets == [timestamp : Timestamps, events : Seq(Events)]

ASSUME CompilationAssumption ==
    /\ Commands \subseteq [traces : Seq(Seq(Packets)), limits : Seq(Nat),
                           output_proto : BOOLEAN, blacklist : SUBSET Nat]
    /\ \A c \in Commands : DOMAIN c.limits = DOMAIN c.traces
    /\ Answers \subseteq [inode : Inodes, name : Nat, error : STRING]
    /\ MaxPurges \in Nat /\ MaxDrops \in Nat /\ MaxFaults \in Nat

VARIABLES
    command,     \* the command line
    readable,    \* the inputs that can be read and parsed
    purges,      \* traces removed so far
    drops,       \* inputs that could be read, and were not, so far
    faults,      \* system calls on the output that failed so far
    pc,          \* how far PerformCompilation is
    position,    \* the input that is read next
    selected,    \* inodes of the inputs read so far
    request, list, answers, outcome,  \* the resolver
    merged,      \* IgnoreTimestampForOrderingSet
    read_first,  \* history: the inputs that were read for their inodes
    read_again,  \* history: the inputs that went into merged
    output,      \* what is in the output file: [kind, content]
    result       \* what PerformCompilation returned: "none", "true", "false"

resolverVars == <<request, list, answers, outcome>>
passVars == <<position, selected, merged, read_first, read_again>>
diskVars == <<readable, purges, drops>>
vars == <<command, diskVars, faults, pc, passVars, resolverVars, output, result>>

Resolver == INSTANCE ResolverContract

Traces == command.traces
Proto == command.output_proto
Old == [kind |-> "old", content |-> <<>>]

Faulty == faults < MaxFaults /\ faults' = faults + 1
NoFault == UNCHANGED faults
Return(how) == pc' = "done" /\ result' = how

-----------------------------------------------------------------------------
Init ==
    /\ command \in Commands
    /\ readable \in SUBSET DOMAIN command.traces
    /\ purges = 0 /\ drops = 0 /\ faults = 0
    /\ pc = "open" /\ position = 1 /\ selected = {} /\ merged = {}
    /\ read_first = {} /\ read_again = {}
    /\ request = "find" /\ list = {} /\ answers = {} /\ outcome = "none"
    /\ output = Old /\ result = "none"

\* A file of text is opened, and emptied, at once; a trace file at the end.
OpenOutput ==
    /\ pc = "open"
    /\ \/ Proto /\ pc' = "select" /\ NoFault /\ UNCHANGED <<output, result>>
       \/ /\ ~Proto /\ pc' = "select" /\ NoFault
          /\ output' = [kind |-> "empty", content |-> <<>>] /\ UNCHANGED result
       \/ ~Proto /\ Faulty /\ Return("false") /\ UNCHANGED output
    /\ UNCHANGED <<command, diskVars, passVars, resolverVars>>

EventsOf(k) == SelectPageCacheFtraceEvents(Traces[k], command.limits[k])
MoreInputs == position <= Len(Traces)

\* An input that cannot be read or parsed is dropped, and so is one whose open or
\* read fails this time: each reading is of the disk anew.
Dropped ==
    \/ position \notin readable /\ UNCHANGED drops
    \/ position \in readable /\ drops < MaxDrops /\ drops' = drops + 1

SelectInodes ==
    /\ pc = "select" /\ MoreInputs
    /\ position' = position + 1
    /\ \/ /\ position \in readable /\ UNCHANGED drops
          /\ selected' = selected \cup DistinctInodes(EventsOf(position))
          /\ read_first' = read_first \cup {position}
       \/ Dropped /\ UNCHANGED <<selected, read_first>>
    /\ UNCHANGED <<command, readable, purges, faults, pc, merged, read_again, resolverVars,
                   output, result>>

ResolveInodesToFileNames ==
    /\ pc = "select" /\ ~MoreInputs
    /\ pc' = "resolve"
    /\ list' = selected
    /\ UNCHANGED <<command, diskVars, faults, passVars, request, answers, outcome, output,
                   result>>

ResolverSteps ==
    /\ pc = "resolve"
    /\ Resolver!Next
    /\ UNCHANGED <<command, diskVars, faults, pc, passVars, output, result>>

ResolverEnds ==
    /\ pc = "resolve"
    /\ Resolver!Complete \/ Resolver!Fail
    /\ UNCHANGED <<command, diskVars, faults, pc, passVars, output, result>>

\* Mutant: merge in the place of concat.
CombineAtOnce ==
    /\ pc = "resolve" /\ outcome # "error"
    /\ pc' = "combine" /\ position' = 1
    /\ UNCHANGED <<command, diskVars, faults, selected, merged, read_first, read_again,
                   resolverVars, output, result>>

\* The map is complete: concat subscribes to the traces a second time.
Combine ==
    /\ pc = "resolve" /\ outcome = "completed"
    /\ pc' = "combine" /\ position' = 1
    /\ UNCHANGED <<command, diskVars, faults, selected, merged, read_first, read_again,
                   resolverVars, output, result>>

\* Mutant: the error is taken and forgotten.
IgnoreError == pc = "resolve" /\ outcome = "error" /\ UNCHANGED vars

\* The subscriber has no on_error: rxcpp terminates the process.
Terminate ==
    /\ pc = "resolve" /\ outcome = "error"
    /\ pc' = "aborted"
    /\ UNCHANGED <<command, diskVars, faults, passVars, resolverVars, output, result>>

ResolvePageCacheEntries ==
    /\ pc = "combine" /\ MoreInputs
    /\ position' = position + 1
    /\ \/ /\ position \in readable /\ UNCHANGED drops
          /\ \E events \in {Resolve(EventsOf(position), ReduceResolvedInodesToMap(answers),
                                   command.blacklist)} :
                merged' = Merge(merged, events) /\ read_again' = read_again \cup {position}
       \/ Dropped /\ UNCHANGED <<merged, read_again>>
    /\ UNCHANGED <<command, readable, purges, faults, pc, selected, read_first,
                   resolverVars, output, result>>

EmitText ==
    /\ pc = "combine" /\ ~MoreInputs /\ ~Proto
    /\ output' = [kind |-> "text", content |-> Sort(merged)]
    /\ Return("true")
    /\ UNCHANGED <<command, diskVars, faults, passVars, resolverVars>>

-----------------------------------------------------------------------------
(* ProtobufIO::WriteFully                                                  *)

\* open(2) with O_TRUNC.
WriteFully ==
    /\ pc = "combine" /\ ~MoreInputs /\ Proto
    /\ \/ /\ pc' = "write" /\ NoFault
          /\ output' = [kind |-> "empty", content |-> <<>>] /\ UNCHANGED result
       \/ Faulty /\ Return("false") /\ UNCHANGED output
    /\ UNCHANGED <<command, diskVars, passVars, resolverVars>>

Message == TraceFile(Sort(merged))

\* An empty message has no bytes to map; the bad address goes to msync, which
\* fails.  With bytes, the address of a mapping that failed is written to.
MapAndSerialize ==
    /\ pc = "write"
    /\ \/ Faulty /\ Return("false") /\ UNCHANGED output                  \* ftruncate
       \/ Message.list = <<>> /\ NoFault /\ Return("false") /\ UNCHANGED output
       \/ /\ Message.list # <<>> /\ Faulty                               \* mmap
          /\ pc' = "aborted"
          /\ output' = [kind |-> "zeroed", content |-> <<>>] /\ UNCHANGED result
       \/ /\ Message.list # <<>> /\ NoFault
          /\ pc' = "sync"
          /\ output' = [kind |-> "trace", content |-> Message] /\ UNCHANGED result
    /\ UNCHANGED <<command, diskVars, passVars, resolverVars>>

Sync ==
    /\ pc = "sync"
    /\ \/ NoFault /\ Return("true")
       \/ Faulty /\ Return("false")
    /\ UNCHANGED <<command, diskVars, passVars, resolverVars, output>>

-----------------------------------------------------------------------------
Ended == pc \in {"done", "aborted"}

\* Maintenance in another process, or an update of the app, removes a raw trace.
Purge ==
    /\ ~Ended /\ purges < MaxPurges
    /\ \E k \in readable : readable' = readable \ {k}
    /\ purges' = purges + 1
    /\ UNCHANGED <<command, drops, faults, pc, passVars, resolverVars, output, result>>

Compile ==
    \/ OpenOutput \/ SelectInodes \/ ResolveInodesToFileNames
    \/ Combine \/ Terminate \/ ResolvePageCacheEntries
    \/ EmitText \/ WriteFully \/ MapAndSerialize \/ Sync
Next == Compile \/ ResolverSteps \/ Purge

\* The process is scheduled, and the resolver ends as InodeResolver shows.
Fairness == WF_vars(Compile) /\ WF_vars(ResolverEnds)
Spec == Init /\ [][Next]_vars /\ Fairness

-----------------------------------------------------------------------------
(* Properties                                                              *)

InodeMap == ReduceResolvedInodesToMap(answers)

\* The time of an event, without a pass over the packet: its own, or that of the
\* last event before it with one, or the packet's, or 0.
StampOf(packet, j) ==
    LET stamped == {i \in 1 .. j : packet.events[i].timestamp # NoStamp}
    IN IF stamped # {} THEN packet.events[Max(stamped)].timestamp
       ELSE IF packet.timestamp # NoStamp THEN packet.timestamp ELSE 0

\* Every page that an input added to the page cache within its limit, with the
\* time since that input's start.
PagesOf(k) ==
    LET trace == Traces[k]
        start == GetStartTimestamp(trace)
        places == UNION {{p} \X DOMAIN trace[p].events : p \in DOMAIN trace}
        At(e) == trace[e[1]].events[e[2]]
        added == {e \in places : /\ At(e).op = "add" /\ At(e).timestamp <= command.limits[k]
                                 /\ At(e).inode \in DOMAIN InodeMap}
    IN {[file |-> InodeMap[At(e).inode], index |-> At(e).index,
         time |-> Relative(StampOf(trace[e[1]], e[2]), start)] : e \in added}

Pages == {p \in UNION {PagesOf(k) : k \in read_again} : p.file \notin command.blacklist}

\* The first time of each page over all inputs, and the order this gives.
Earliest(file, index) == Min({p.time : p \in {q \in Pages : q.file = file /\ q.index = index}})
Order(file, index) == <<Earliest(file, index), file, index>>

\* The trace file holds every page that was added in an input the second reading got
\* and whose inode has a name, once, in the order of their earliest times, whatever
\* the order of the inputs and of the events in them, and each entry names its file by
\* its place in the index.
OutputIsEarliestFirst ==
    output.kind = "trace" =>
       LET index == output.content.index
           entries == output.content.list
           file(k) == index[entries[k].index_id + 1].file_name
           page(k) == entries[k].file_offset \div kPageSize
       IN /\ \A n \in DOMAIN index : index[n].id = n - 1
          /\ \A k \in DOMAIN entries : entries[k].index_id + 1 \in DOMAIN index
          /\ {index[n].file_name : n \in DOMAIN index} = {p.file : p \in Pages}
          /\ Cardinality({p.file : p \in Pages}) = Len(index)
          /\ {<<file(k), page(k)>> : k \in DOMAIN entries} = {<<p.file, p.index>> : p \in Pages}
          /\ \A j, k \in DOMAIN entries :
                j < k => multiless(Order(file(j), page(j)), Order(file(k), page(k)))

\* The trace file is touched only when the resolver has answered every inode of the
\* inputs that the first reading got, and whatever is purged in between, the second
\* reading gets no other input, so that every event of it has an answer; unless one of
\* the readings failed on an input that was there (compiler.cc:90-94), which the two do
\* each on its own.  An earlier trace file survives a resolver that fails.
WrittenFromFullAnswer ==
    Proto /\ output # Old =>
       /\ outcome = "completed"
       /\ Resolver!Answered = UNION {DistinctInodes(EventsOf(k)) : k \in read_first}
       /\ drops = 0 => read_again \subseteq read_first

\* "Operation is transactional -- that is if there is a failure, `output_file_name`
\* is untouched."
Transactional == result = "false" => output = Old

\* "This is a blocking function which returns only when compilation finishes": it
\* does, or the process is terminated.
CompilationEnds == <>Ended
=============================================================================
