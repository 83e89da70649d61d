------------------------------ MODULE Prefetch ------------------------------
(***************************************************************************)
(* Read-ahead tasks (ReadAhead, read_ahead.cc), the session manager they   *)
(* use, and the sessions that hold the descriptors and mappings            *)
(* (SessionDirect, session.cc).  The sessions live in this process, or in  *)
(* a forked iorap.prefetcherd (prefetcher_daemon.cc) that is sent commands *)
(* over a pipe, or over a socket with the trace file's descriptor.         *)
(***************************************************************************)
EXTENDS Integers, SequencesExt, TLC

CONSTANTS
    Tasks,            \* task ids; each is begun once (they only ever increase)
    TraceFiles,       \* the compiled traces on the device that parse
    Index, List,      \* the entries of each: [id, file_name], [index_id, length, offset]
    Existing,         \* file names that open(2) finds
    LongNames,        \* file names too long for the buffer of SendCommand
    Kinds,            \* the session kinds to start with
    Strategies,       \* the values of iorapd.readahead.strategy
    PipeSize,         \* commands that fit in the pipe or the socket (1 MB)
    kRecentDataCount

SessionKinds == {"kInProcessDirect", "kOutOfProcessIpc", "kOutOfProcessSocket"}
ReadAheadKinds == {"kFadvise", "kMmapLocked", "kMlock"}

Missing == "missing"  \* open(2) fails on the compiled trace
Corrupt == "corrupt"  \* it opens, but is no TraceFile
OnDisk == TraceFiles \cup {Corrupt}

ASSUME PrefetchAssumption ==
    /\ Kinds \subseteq SessionKinds
    /\ Strategies \subseteq ReadAheadKinds
    /\ PipeSize \in Nat \ {0}
    /\ kRecentDataCount \in Nat
    /\ TraceFiles \cap {Missing, Corrupt} = {}
    /\ \A file \in TraceFiles :
          /\ Index[file] \in Seq([id : Int, file_name : STRING])
          /\ List[file] \in Seq([index_id : Int, length : Int, offset : Int])

VARIABLES
    session_kind,  \* session_kind_
    pc,            \* where iorapd's launch thread is: "idle" between calls
    task,          \* the task of the call it is in, if any
    todo,          \* the commands that the call has still to send
    trace,         \* what each task's path turned out to be, if it was opened
    strategy,      \* the read-ahead kind of each task
    begun,         \* tasks that BeginTask was called for
    finished,      \* tasks that FinishTask has returned for
    sessions,      \* sessions_map_ of iorapd's session manager
    file_map,      \* read_ahead_file_map_
    recents,       \* recents_
    channel,       \* the pipe: commands as two halves each
    longbuf,       \* longbuf_ of the CommandParser
    longbuf_fds,   \* longbuf_fds_
    pending,       \* what is left of many_commands in Main's loop
    child,         \* iorap.prefetcherd: "none", "running", "exited", "killed"
    served         \* the SessionDirect objects and what they hold

callVars == <<pc, task, todo>>
taskVars == <<trace, strategy, begun, finished>>
mapVars == <<sessions, file_map, recents>>
pipeVars == <<channel, longbuf, longbuf_fds, pending>>
vars == <<session_kind, callVars, taskVars, mapVars, pipeVars, child, served>>

Direct == session_kind = "kInProcessDirect"
UseSockets == session_kind = "kOutOfProcessSocket"

-----------------------------------------------------------------------------
(* SessionDirect, and the manager that holds its objects.  A service is the *)
(* map of sessions with the descriptors and mappings that the process has:  *)
(* those the sessions own, and the leaked ones that nobody will close.      *)

\* What inserting a new key does to a map.
Insert(map, key, value) ==
    [k \in DOMAIN map \cup {key} |-> IF k = key THEN value ELSE map[k]]

NewSession == [path_map |-> <<>>, entries |-> {}]
NoService == [sessions |-> <<>>, open |-> {}, mapped |-> {}, leaked |-> {}]

CreateSession(s, sid) ==
    IF sid \in DOMAIN s.sessions THEN s
    ELSE [s EXCEPT !.sessions = Insert(@, sid, NewSession)]

\* A file that does not open is registered too, with a bad descriptor.  The file
\* is opened before the id is looked for: a map does not take a second value for a
\* key, and the plain int that open(2) returned is then owned by nobody.
RegisterFilePath(s, sid, id, name) ==
    LET opened == {o \in {<<sid, id>>} : name \in Existing}
    IN  IF sid \notin DOMAIN s.sessions THEN s
        ELSE IF id \in DOMAIN s.sessions[sid].path_map
        THEN [s EXCEPT !.leaked = @ \cup opened]
        ELSE [s EXCEPT !.sessions[sid].path_map = Insert(@, id, name),
                       !.open = @ \cup opened]

ReadAhead(s, sid, kind, entry) ==
    IF \/ sid \notin DOMAIN s.sessions
       \/ entry.index_id \notin DOMAIN s.sessions[sid].path_map
    THEN s
    ELSE [s EXCEPT !.sessions[sid].entries = @ \cup {entry},
                   !.mapped = @ \cup {m \in {<<sid, entry>>} :
                                        /\ <<sid, entry.index_id>> \in s.open
                                        /\ kind # "kFadvise"}]

\* Mutant: the destructor forgets the files that were read ahead.
DestroySessionLeaks(s, sid) ==
    [s EXCEPT !.sessions = [t \in DOMAIN @ \ {sid} |-> @[t]],
              !.open = {o \in @ : o[1] # sid}]

\* ~SessionDirect unregisters every path with entries, which unmaps them; the
\* other descriptors close with path_fd_map_.
DestroySession(s, sid) ==
    [s EXCEPT !.sessions = [t \in DOMAIN @ \ {sid} |-> @[t]],
              !.open = {o \in @ : o[1] # sid},
              !.mapped = {m \in @ : ~(m[1] = sid /\ m[2] \in s.sessions[sid].entries)}]

-----------------------------------------------------------------------------
(* Commands *)

\* The elements of s that pass, in order: SelectSeq, said without recursion.
Passing(s, Test(_)) ==
    LET at == {i \in DOMAIN s : Test(s[i])}
        Nth(k) == CHOOSE i \in at : Cardinality({j \in at : j <= i}) = k
    IN  [k \in 1 .. Cardinality(at) |-> s[Nth(k)]]

Command(choice, sid) == [choice |-> choice, session_id |-> sid]

\* Entries with a negative id, length or offset are skipped.
GoodIndex == [file \in TraceFiles |-> Passing(Index[file], LAMBDA e : e.id >= 0)]
GoodList ==
    [file \in TraceFiles |->
        Passing(List[file], LAMBDA e : e.length >= 0 /\ e.offset >= 0)]

Registrations(sid, file) ==
    [i \in DOMAIN GoodIndex[file] |->
        [choice |-> "kRegisterFilePath", session_id |-> sid,
         id |-> GoodIndex[file][i].id, file_path |-> GoodIndex[file][i].file_name]]

ReadAheads(sid, file, kind) ==
    [i \in DOMAIN GoodList[file] |->
        [choice |-> "kReadAhead", session_id |-> sid, kind |-> kind,
         entry |-> GoodList[file][i]]]

\* What BeginTask and ProcessFd do with a trace file that parses.
Prefetching(sid, file, kind) == Registrations(sid, file) \o ReadAheads(sid, file, kind)

\* One command on a service: ReceiveCommand, or the call itself in process.
Basic(s, c) ==
    CASE c.choice = "kCreateSession" -> CreateSession(s, c.session_id)
      [] c.choice = "kRegisterFilePath" ->
            RegisterFilePath(s, c.session_id, c.id, c.file_path)
      [] c.choice = "kReadAhead" -> ReadAhead(s, c.session_id, c.kind, c.entry)
      [] c.choice = "kDestroySession" ->
            IF c.session_id \in DOMAIN s.sessions THEN DestroySession(s, c.session_id) ELSE s
      [] OTHER -> s  \* kDumpSession

\* The service after each of some calls, from 0 on.
AfterCalls(s, calls) ==
    LET after[n \in 0 .. Len(calls)] ==
            IF n = 0 THEN s ELSE Basic(after[n - 1], calls[n])
    IN  after

ProcessFd(s, sid, file) ==
    LET calls == Prefetching(sid, file, "kFadvise")
    IN  IF file = Corrupt THEN s ELSE AfterCalls(s, calls)[Len(calls)]

Apply(s, c) ==
    IF c.choice # "kCreateFdSession" THEN Basic(s, c)
    ELSE IF c.session_id \in DOMAIN s.sessions THEN s
    ELSE ProcessFd(CreateSession(s, c.session_id), c.session_id, c.fd)

\* Command::Write: the command and its path have to fit into 1024 bytes.
Fits(c) == c.choice = "kRegisterFilePath" => c.file_path \notin LongNames

\* In the pipe a command is two halves, so that read(2) may return a part of
\* one; a descriptor travels with the first byte.
Halves(c) == <<[command |-> c, half |-> 1], [command |-> c, half |-> 2]>>

RequiresFd(c) == c.choice = "kCreateFdSession"
CarriesFd(chunk) == chunk.half = 1 /\ RequiresFd(chunk.command)

Fds(chunks) ==
    LET carriers == Passing(chunks, CarriesFd)
    IN  [i \in DOMAIN carriers |-> carriers[i].command.fd]

\* The descriptors among the first n commands, for which a descriptor each is
\* taken from the front of longbuf_fds_.
FdsNeeded(chunks, n) == Cardinality({j \in 1 .. n : RequiresFd(chunks[2 * j].command)})

\* The whole commands at the front of the buffer.
Parse(chunks, fds) ==
    [i \in 1 .. Len(chunks) \div 2 |->
        LET c == chunks[2 * i].command
        IN  IF RequiresFd(c) THEN [c EXCEPT !.fd = fds[FdsNeeded(chunks, i)]] ELSE c]

Init ==
    /\ session_kind \in Kinds
    /\ pc = "idle" /\ task = {} /\ todo = <<>>
    /\ trace = [t \in Tasks |-> Missing]
    /\ strategy = [t \in Tasks |-> "kFadvise"]
    /\ begun = {} /\ finished = {}
    /\ sessions = {} /\ file_map = {} /\ recents = <<>>
    /\ channel = <<>> /\ longbuf = <<>> /\ longbuf_fds = <<>> /\ pending = <<>>
    /\ child = IF Direct THEN "none" ELSE "running"
    /\ served = NoService

\* SendCommand, which blocks while the pipe is full, whether or not anybody
\* reads it: iorapd keeps the other end open too.
SendCommand(c) ==
    IF Direct THEN
        /\ served' = Apply(served, c)
        /\ UNCHANGED channel
    ELSE
        /\ Fits(c) => Len(channel) + 2 <= 2 * PipeSize
        /\ channel' = IF Fits(c) THEN channel \o Halves(c) ELSE channel
        /\ UNCHANGED served

-----------------------------------------------------------------------------
(* ReadAhead, on iorapd's launch thread *)

Alive == pc \notin {"gone", "dead"}

BeginTask(t) ==
    /\ pc = "idle"
    /\ t \notin begun
    /\ begun' = begun \cup {t}
    /\ task' = {t}
    /\ pc' = IF UseSockets THEN "open" ELSE "create"
    /\ UNCHANGED <<session_kind, todo, trace, strategy, finished, mapVars, pipeVars,
                   child, served>>

\* The session is created before the trace file is opened...
CreateTaskSession(t) ==
    /\ pc = "create" /\ ~UseSockets
    /\ task = {t}
    /\ SendCommand(Command("kCreateSession", t))
    /\ sessions' = sessions \cup {t}
    /\ pc' = "open"
    /\ UNCHANGED <<session_kind, task, todo, taskVars, file_map, recents, longbuf,
                   longbuf_fds, pending, child>>

\* ... so that a file that cannot be read leaves a session that no task has.
OpenTraceFile(t) ==
    /\ pc = "open" /\ ~UseSockets
    /\ task = {t}
    /\ \/ /\ pc' = "idle" /\ task' = {}
          /\ UNCHANGED <<todo, trace, strategy>>
       \/ \E file \in TraceFiles, kind \in Strategies :
            /\ trace' = [trace EXCEPT ![t] = file]
            /\ strategy' = [strategy EXCEPT ![t] = kind]
            /\ todo' = Prefetching(t, file, kind) \o <<Command("kDumpSession", t)>>
            /\ pc' = "send"
            /\ UNCHANGED task
    /\ UNCHANGED <<session_kind, begun, finished, mapVars, pipeVars, child, served>>

\* BeginTaskForSockets opens first, and leaves the parsing to the other side.
OpenTraceFd(t) ==
    /\ pc = "open" /\ UseSockets
    /\ task = {t}
    /\ \/ /\ pc' = "idle" /\ task' = {}
          /\ UNCHANGED trace
       \/ \E file \in OnDisk :
            /\ trace' = [trace EXCEPT ![t] = file]
            /\ pc' = "create"
            /\ UNCHANGED task
    /\ UNCHANGED <<session_kind, todo, strategy, begun, finished, mapVars, pipeVars,
                   child, served>>

CreateFdSession(t) ==
    /\ pc = "create" /\ UseSockets
    /\ task = {t}
    /\ SendCommand([choice |-> "kCreateFdSession", session_id |-> t, fd |-> trace[t]])
    /\ sessions' = sessions \cup {t}
    /\ todo' = <<Command("kDumpSession", t)>>
    /\ pc' = "send"
    /\ UNCHANGED <<session_kind, task, taskVars, file_map, recents, longbuf,
                   longbuf_fds, pending, child>>

SendNext ==
    /\ pc \in {"send", "exit"}
    /\ todo # <<>>
    /\ SendCommand(Head(todo))
    /\ todo' = Tail(todo)
    /\ UNCHANGED <<session_kind, pc, task, taskVars, mapVars, longbuf, longbuf_fds,
                   pending, child>>

\* Mutant: nothing is popped.
RecordEverything(t) == Append(recents, t)

\* RecordRecent pops before it pushes, so one more than the limit stays.
RecordRecent(t) ==
    LET drop == IF Len(recents) > kRecentDataCount THEN Len(recents) - kRecentDataCount ELSE 0
    IN  Append(SubSeq(recents, drop + 1, Len(recents)), t)

\* The end of BeginTask.
RememberTask(t) ==
    /\ pc = "send"
    /\ todo = <<>>
    /\ task = {t}
    /\ file_map' = file_map \cup {t}
    /\ recents' = IF UseSockets THEN recents ELSE RecordRecent(t)
    /\ pc' = "idle" /\ task' = {}
    /\ UNCHANGED <<session_kind, todo, taskVars, sessions, pipeVars, child, served>>

\* FinishTask of a task that is not in the map returns at once.
FinishUnknownTask(t) ==
    /\ pc = "idle"
    /\ t \in begun \ (finished \cup file_map)
    /\ finished' = finished \cup {t}
    /\ UNCHANGED <<session_kind, callVars, trace, strategy, begun, mapVars, pipeVars,
                   child, served>>

\* DestroySession drops the manager's reference; the task still has one.
FinishTask(t) ==
    /\ pc = "idle"
    /\ t \in file_map
    /\ sessions' = sessions \ {t}
    /\ pc' = "finish" /\ task' = {t}
    /\ UNCHANGED <<session_kind, todo, taskVars, file_map, recents, pipeVars, child, served>>

\* Mutant: the destructor of the indirect session says nothing.
ReleaseTaskSilently(t) ==
    /\ pc = "finish"
    /\ task = {t}
    /\ file_map' = file_map \ {t}
    /\ finished' = finished \cup {t}
    /\ pc' = "idle" /\ task' = {}
    /\ UNCHANGED <<session_kind, todo, trace, strategy, begun, sessions, recents,
                   pipeVars, child, served>>

\* With the task goes the session, whose destructor sends the command.
ReleaseTask(t) ==
    /\ pc = "finish"
    /\ task = {t}
    /\ SendCommand(Command("kDestroySession", t))
    /\ file_map' = file_map \ {t}
    /\ finished' = finished \cup {t}
    /\ pc' = "idle" /\ task' = {}
    /\ UNCHANGED <<session_kind, todo, trace, strategy, begun, sessions, recents,
                   longbuf, longbuf_fds, pending, child>>

\* Mutant: the other process is not told to exit.
DestroyOnlySessions ==
    /\ pc = "idle"
    /\ LET order == SetToSeq(sessions)
       IN  todo' = [i \in DOMAIN order |-> Command("kDestroySession", order[i])]
    /\ pc' = "exit"
    /\ file_map' = {} /\ sessions' = {}
    /\ UNCHANGED <<session_kind, task, taskVars, recents, pipeVars, child, served>>

\* ~ReadAhead, at the end of iorap.cmd.readahead: kExit first, and then a
\* kDestroySession for each session, in any order.
DestroyReadAhead ==
    /\ pc = "idle"
    /\ LET order == SetToSeq(sessions)
           destroy == [i \in DOMAIN order |-> Command("kDestroySession", order[i])]
       IN  todo' = IF Direct THEN destroy ELSE <<[choice |-> "kExit"]>> \o destroy
    /\ pc' = "exit"
    /\ file_map' = {} /\ sessions' = {}
    /\ UNCHANGED <<session_kind, task, taskVars, recents, pipeVars, child, served>>

\* The process ends.  It has not waited for its child: IsDaemon is true in the
\* parent, where child_ is a pid.
ReturnFromMain ==
    /\ pc = "exit"
    /\ todo = <<>>
    /\ pc' = "gone"
    /\ UNCHANGED <<session_kind, task, todo, taskVars, mapVars, pipeVars, child, served>>

\* iorapd is killed or aborts, at any point.
Die ==
    /\ Alive
    /\ pc' = "dead" /\ task' = {} /\ todo' = <<>>
    /\ sessions' = {} /\ file_map' = {} /\ recents' = <<>>
    /\ served' = IF Direct THEN NoService ELSE served
    /\ UNCHANGED <<session_kind, taskVars, pipeVars, child>>

-----------------------------------------------------------------------------
(* iorap.prefetcherd: Main's loop *)

\* Neither process closes the end it does not use, and exec keeps both.
WriteEnds ==
    {p \in {"iorapd", "prefetcherd"} :
        IF p = "iorapd" THEN Alive ELSE child = "running"}

\* Mutant: what was read is parsed, and then all of it is erased.
ReadErasesAll ==
    /\ child = "running"
    /\ pending = <<>>
    /\ channel # <<>>
    /\ \E n \in 1 .. Len(channel) :
        LET buffer == longbuf \o SubSeq(channel, 1, n)
            fds == longbuf_fds \o Fds(SubSeq(channel, 1, n))
        IN  /\ \A i \in 1 .. n : CarriesFd(channel[i]) => n <= i + 1
            /\ pending' = IF buffer[1].half = 2 THEN <<>> ELSE Parse(buffer, fds)
            /\ longbuf' = <<>>
            /\ longbuf_fds' = <<>>
            /\ channel' = SubSeq(channel, n + 1, Len(channel))
    /\ UNCHANGED <<session_kind, callVars, taskVars, mapVars, child, served>>

\* Read of the child: ParseCommands, ParseSocketCommands.  A call returns
\* some of what is there; one with a descriptor returns no later message.
\* Whole commands are taken off the buffers and the rest is kept.
ReadCommands ==
    /\ child = "running"
    /\ pending = <<>>
    /\ channel # <<>>
    /\ \E n \in 1 .. Len(channel) :
        LET buffer == longbuf \o SubSeq(channel, 1, n)
            fds == longbuf_fds \o Fds(SubSeq(channel, 1, n))
            whole == Len(buffer) \div 2
        IN  /\ \A i \in 1 .. n : CarriesFd(channel[i]) => n <= i + 1
            /\ pending' = Parse(buffer, fds)
            /\ longbuf' = SubSeq(buffer, 2 * whole + 1, Len(buffer))
            /\ longbuf_fds' = SubSeq(fds, FdsNeeded(buffer, whole) + 1, Len(fds))
            /\ channel' = SubSeq(channel, n + 1, Len(channel))
    /\ UNCHANGED <<session_kind, callVars, taskVars, mapVars, child, served>>

\* Mutant: only the first command of a read is carried out.
ReceiveFirstCommand ==
    /\ child = "running"
    /\ pending # <<>>
    /\ Head(pending).choice # "kExit"
    /\ served' = Apply(served, Head(pending))
    /\ pending' = <<>>
    /\ UNCHANGED <<session_kind, callVars, taskVars, mapVars, channel, longbuf,
                   longbuf_fds, child>>

\* Mutant: a command that fails is tried again.
ReceiveCommandRetries ==
    /\ child = "running"
    /\ pending # <<>>
    /\ Head(pending).choice # "kExit"
    /\ served' = Apply(served, Head(pending))
    /\ pending' = IF served' = served THEN pending ELSE Tail(pending)
    /\ UNCHANGED <<session_kind, callVars, taskVars, mapVars, channel, longbuf,
                   longbuf_fds, child>>

ReceiveCommand ==
    /\ child = "running"
    /\ pending # <<>>
    /\ Head(pending).choice # "kExit"
    /\ served' = Apply(served, Head(pending))
    /\ pending' = Tail(pending)
    /\ UNCHANGED <<session_kind, callVars, taskVars, mapVars, channel, longbuf,
                   longbuf_fds, child>>

EndOfFile == pending = <<>> /\ channel = <<>> /\ WriteEnds = {}

ExitCommand == pending # <<>> /\ Head(pending).choice = "kExit"

\* Main returns on kExit, whatever comes after it, and on an end of file: but
\* there is none while the reader itself keeps a write end.
MainReturns == ExitCommand \/ EndOfFile

Exit ==
    /\ child = "running"
    /\ MainReturns
    /\ child' = "exited" /\ served' = NoService /\ pending' = <<>>
    /\ UNCHANGED <<session_kind, callVars, taskVars, mapVars, channel, longbuf, longbuf_fds>>

\* The child is killed, or never gets past execve.
Kill ==
    /\ child = "running"
    /\ child' = "killed" /\ served' = NoService
    /\ longbuf' = <<>> /\ longbuf_fds' = <<>> /\ pending' = <<>>
    /\ UNCHANGED <<session_kind, callVars, taskVars, mapVars, channel>>

Launch ==
    \/ \E t \in Tasks :
        \/ BeginTask(t) \/ CreateTaskSession(t) \/ OpenTraceFile(t)
        \/ OpenTraceFd(t) \/ CreateFdSession(t) \/ RememberTask(t)
        \/ FinishUnknownTask(t) \/ FinishTask(t) \/ ReleaseTask(t)
    \/ SendNext \/ DestroyReadAhead \/ ReturnFromMain \/ Die

Daemon == ReadCommands \/ ReceiveCommand \/ Exit \/ Kill

Next == Launch \/ Daemon

\* A call goes on, and so does the child; nobody has to call, or to crash.
Call ==
    \/ \E t \in Tasks :
        \/ CreateTaskSession(t) \/ OpenTraceFile(t) \/ OpenTraceFd(t)
        \/ CreateFdSession(t) \/ RememberTask(t) \/ ReleaseTask(t)
    \/ SendNext \/ ReturnFromMain

Fairness == WF_vars(Call) /\ WF_vars(ReadCommands \/ ReceiveCommand \/ Exit)

Spec == Init /\ [][Next]_vars /\ Fairness

-----------------------------------------------------------------------------
\* The types of the variables; the halves in the pipe make whole commands, and
\* it is never fuller than its size; one more task is remembered than the limit.
TypeOK ==
    /\ session_kind \in Kinds
    /\ pc \in {"idle", "create", "open", "send", "finish", "exit", "gone", "dead"}
    /\ task \subseteq Tasks /\ Cardinality(task) <= 1
    /\ task # {} <=> pc \in {"create", "open", "send", "finish"}
    /\ trace \in [Tasks -> {Missing} \cup OnDisk]
    /\ strategy \in [Tasks -> ReadAheadKinds]
    /\ begun \subseteq Tasks /\ finished \subseteq begun
    /\ sessions \subseteq begun /\ file_map \subseteq begun \ finished
    /\ Len(recents) <= kRecentDataCount + 1
    /\ Len(channel) <= 2 * PipeSize
    /\ LET stream == longbuf \o channel
       IN  child = "running" =>
           \A i \in DOMAIN stream :
                stream[i].half = IF i % 2 = 1 THEN 1 ELSE 2
    /\ Len(longbuf) <= 1 /\ Len(longbuf_fds) <= 1
    /\ child = "none" <=> Direct
    /\ child \in {"none", "running", "exited", "killed"}
    /\ DOMAIN served.sessions \subseteq begun

(* What the sessions are to hold once every command on its way has arrived *)

\* The places of the index whose path reaches a session of this kind.
Fitting(kind, file) ==
    {i \in DOMAIN Index[file] :
        /\ Index[file][i].id >= 0
        /\ kind = "kOutOfProcessIpc" => Index[file][i].file_name \notin LongNames}

\* What these places register: an id keeps the first path that it came with.
Paths(file, places) ==
    [id \in {Index[file][i].id : i \in places} |->
        Index[file][Min({i \in places : Index[file][i].id = id})].file_name]

\* The session that a task with this trace file asks for.
Wanted(kind, file) ==
    IF file \notin TraceFiles THEN NewSession
    ELSE LET paths == Paths(file, Fitting(kind, file))
         IN  [path_map |-> paths,
              entries |-> {e \in Range(List[file]) :
                             e.index_id \in DOMAIN paths /\ e.length >= 0 /\ e.offset >= 0}]

Opened(session) == {id \in DOMAIN session.path_map : session.path_map[id] \in Existing}

Mapped(session, kind) ==
    {e \in session.entries : e.index_id \in Opened(session) /\ kind # "kFadvise"}

\* A service that holds these sessions, with a read-ahead kind for each, and has
\* leaked these descriptors.
Holding(held, kinds, leaked) ==
    [sessions |-> held,
     open |-> UNION {{t} \X Opened(held[t]) : t \in DOMAIN held},
     mapped |-> UNION {{t} \X Mapped(held[t], kinds[t]) : t \in DOMAIN held},
     leaked |-> leaked]

\* The ids whose registration opens a file that its session does not take: another
\* of these places has given the id before.
GivenAgain(file, places) ==
    {Index[file][j].id : j \in {k \in places :
        /\ Index[file][k].file_name \in Existing
        /\ \E i \in places : i < k /\ Index[file][i].id = Index[file][k].id}}

\* The tasks whose trace file the sessions were asked to prefetch, finished or not.
Asked == {t \in Tasks : trace[t] \in TraceFiles} \ (IF pc = "create" THEN task ELSE {})

\* What prefetching them leaks: nothing ever gives it back.
LeakedBy(t) == {t} \X GivenAgain(trace[t], Fitting(session_kind, trace[t]))

\* The tasks whose session iorapd has not asked to be destroyed.
Held == sessions \cup (IF pc = "finish" THEN task ELSE {})

Promised ==
    Holding([t \in Held |-> Wanted(session_kind, trace[t])], strategy,
            UNION {LeakedBy(t) : t \in Asked})

OnTheirWay == pending \o Parse(longbuf \o channel, longbuf_fds \o Fds(channel)) \o todo

\* SendCommand drops what does not fit; a call in process takes every name.
Deliver(kind, s, c) == IF kind = "kInProcessDirect" \/ Fits(c) THEN Apply(s, c) ELSE s

AfterCommands(kind, s, commands) ==
    LET after[n \in 0 .. Len(commands)] ==
            IF n = 0 THEN s ELSE Deliver(kind, after[n - 1], commands[n])
    IN  after[Len(commands)]

Arrived == AfterCommands(session_kind, served, OnTheirWay)

\* iorapd's view and the sessions never drift apart: with the commands that are
\* still on their way (in the pipe, half read, parsed, or to be sent by the
\* call in progress), the sessions hold for each task that was begun and not
\* finished the files, entries, descriptors and mappings its trace asks for,
\* and nothing for any other, whichever process they live in.  The descriptors
\* that nobody owns are exactly those of the ids that a trace has given again.
SessionsMirrorTasks ==
    Alive /\ pc # "exit" /\ child \notin {"exited", "killed"} => Arrived = Promised

\* What a session has open or mapped belongs to a session that still exists, so
\* that destroying it gave back everything it owned (~SessionDirect).  What does
\* outlive its session was opened for an id that its trace file gives twice.
NothingOutlivesItsSession ==
    /\ \A o \in served.open :
        o[1] \in DOMAIN served.sessions /\ o[2] \in DOMAIN served.sessions[o[1]].path_map
    /\ \A m \in served.mapped :
        m[1] \in DOMAIN served.sessions /\ m[2] \in served.sessions[m[1]].entries
    /\ \A o \in served.leaked : trace[o[1]] \in TraceFiles /\ o \in LeakedBy(o[1])

\* ReceiveCommand's errors 'Could not find session' and 'session for ID already
\* exists' do not happen: whatever iorapd did meanwhile, a command meets the
\* session it was meant for.
CommandsMeetTheirSession ==
    [][ReceiveCommand =>
        LET c == Head(pending)
        IN  c.session_id \in DOMAIN served.sessions
              <=> c.choice \notin {"kCreateSession", "kCreateFdSession"}]_vars

\* A call of BeginTask or FinishTask returns, although it writes to a pipe that
\* may be full, unless one of the two processes is gone.
CallsReturn ==
    pc \in {"create", "open", "send", "finish"}
        ~> pc \in {"idle", "dead"} \/ child \in {"exited", "killed"}

\* The sessions of a task that was prefetched and then finished are destroyed,
\* also when iorapd dies right after.
FinishedIsReleased ==
    \A t \in Tasks :
        t \in finished /\ trace[t] \in TraceFiles ~> t \notin DOMAIN served.sessions

\* When the owner of a ReadAhead is done with it, the other process ends.
ExitArrives == pc = "gone" ~> child # "running"

\* read_ahead.h of FinishTask: 'Complete a task, releasing any memory/file
\* descriptors associated with it.'
FinishedHasNoSession == finished \cap sessions = {}
=============================================================================
