--------------------------- MODULE TraceCompiler ---------------------------
(***************************************************************************)
(* The pure stages of iorap.cmd.compiler (compiler.cc): from the packets   *)
(* of a perfetto trace to page-cache events on a time scale of their own,  *)
(* to the names of their inodes, to one event per page, and to the entries *)
(* of the trace file that is read ahead.                                   *)
(*                                                                         *)
(* A trace is a sequence of packets [timestamp, events], an event of it is *)
(* [timestamp, inode, op, index].  File names are numbers, in their        *)
(* lexicographical order.                                                  *)
(***************************************************************************)
EXTENDS Integers, FiniteSets, SequencesExt

CONSTANT Modulus  \* 2^64 in the code: what a timestamp wraps at

ASSUME CompilerAssumption == Modulus \in Nat \ {0}

NoStamp == -1    \* has_timestamp() is false
kPageSize == 4096

-----------------------------------------------------------------------------
(* Events of a trace.                                                      *)

Stamps(trace) ==
    (UNION {{packet.timestamp} \cup {event.timestamp : event \in ToSet(packet.events)}
            : packet \in ToSet(trace)}) \ {NoStamp}

GetStartTimestamp(trace) == IF Stamps(trace) = {} THEN NoStamp ELSE Min(Stamps(trace))

Relative(timestamp, start) ==
    IF start = NoStamp THEN 0 ELSE (timestamp - start) % Modulus

\* An event without a timestamp has that of the event before, or of the packet.
\* The limit is for an event's own timestamp.
Select(state, event, start, limit) ==
    LET own == event.timestamp # NoStamp
        now == IF own THEN event.timestamp ELSE state.timestamp
        out == [inode |-> event.inode, time |-> Relative(now, start),
                add |-> event.op = "add", index |-> event.index]
    IN [timestamp |-> now,
        events |-> IF (own /\ now > limit) \/ event.op = "other" THEN state.events
                   ELSE Append(state.events, out)]

FirstState(packet) ==
    [timestamp |-> IF packet.timestamp = NoStamp THEN 0 ELSE packet.timestamp,
     events |-> <<>>]

PacketEvents(packet, start, limit) ==
    LET Step(state, event) == Select(state, event, start, limit)
    IN FoldLeft(Step, FirstState(packet), packet.events).events

SelectPageCacheFtraceEvents(trace, limit) ==
    FlattenSeq([k \in DOMAIN trace |-> PacketEvents(trace[k], GetStartTimestamp(trace), limit)])

DistinctInodes(events) == {event.inode : event \in ToSet(events)}

-----------------------------------------------------------------------------
(* Names of inodes, and events of files.                                   *)

\* Inodes that were not resolved are dropped.
ReduceResolvedInodesToMap(answers) ==
    LET found == {a \in answers : a.error = ""}
    IN [i \in {a.inode : a \in found} |-> (CHOOSE a \in found : a.inode = i).name]

\* Events whose inode has no name are dropped, and those of blacklisted files.
ResolveEvent(resolved, event, inode_map, blacklist) ==
    IF event.inode \in DOMAIN inode_map /\ inode_map[event.inode] \notin blacklist
    THEN Append(resolved, [file |-> inode_map[event.inode], time |-> event.time,
                           add |-> event.add, index |-> event.index])
    ELSE resolved

Resolve(events, inode_map, blacklist) ==
    LET Step(resolved, event) == ResolveEvent(resolved, event, inode_map, blacklist)
    IN FoldLeft(Step, <<>>, events)

-----------------------------------------------------------------------------
(* CompilePageCacheEvents: merge and sort.                                 *)

Number(b) == IF b THEN 1 ELSE 0

\* Vectors are compared by their first difference.
multiless(a, b) ==
    LET differ == {k \in DOMAIN a : a[k] # b[k]}
    IN differ # {} /\ a[Min(differ)] < b[Min(differ)]

KeyIgnoringTimestamp(event) == <<event.file, Number(event.add), event.index>>
SortKey(event) == <<event.time, event.file, Number(event.add), event.index>>
Less(a, b) == multiless(SortKey(a), SortKey(b))

\* Mutant: the last event of a page wins.
InsertLatest(set, event) ==
    {x \in set : KeyIgnoringTimestamp(x) # KeyIgnoringTimestamp(event)} \cup {event}

\* An event that is there is replaced by an earlier one.
InsertEarliest(set, event) ==
    LET same == {x \in set : KeyIgnoringTimestamp(x) = KeyIgnoringTimestamp(event)}
    IN IF \E x \in same : x.time <= event.time THEN set
       ELSE (set \ same) \cup {event}

Merge(set, events) == FoldLeft(InsertEarliest, set, events)

\* A set in order: each event has the place that the smaller ones leave it.
Sort(set) ==
    LET Place(event) == Cardinality({x \in set : Less(x, event)}) + 1
    IN [n \in 1 .. Cardinality(set) |-> CHOOSE event \in set : Place(event) = n]

-----------------------------------------------------------------------------
(* The output.                                                             *)

\* Deletions are skipped.
KeepAdded(kept, event) == IF event.add THEN Append(kept, event) ELSE kept
Additions(events) == FoldLeft(KeepAdded, <<>>, events)

\* The files in the order of their first events.
NameOnce(names, event) ==
    IF event.file \in ToSet(names) THEN names ELSE Append(names, event.file)
FileNames(events) == FoldLeft(NameOnce, <<>>, events)

\* The place of a file's name is its number.
TraceFile(events) ==
    LET adds == Additions(events)
        names == FileNames(adds)
        id(file) == (CHOOSE n \in DOMAIN names : names[n] = file) - 1
    IN [index |-> [n \in DOMAIN names |-> [id |-> n - 1, file_name |-> names[n]]],
        list |-> [k \in DOMAIN adds |->
                    [index_id |-> id(adds[k].file), file_offset |-> adds[k].index * kPageSize,
                     file_length |-> kPageSize]]]
=============================================================================
