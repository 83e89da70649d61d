----------------------------- MODULE PrefetchInv -----------------------------
(***************************************************************************)
(* The inductive invariant of Prefetch: what is on its way to the child is *)
(* in an order that its sessions can follow, and each call of iorapd knows *)
(* how far the session it is about has got, so that what arrives is what   *)
(* was promised.                                                           *)
(***************************************************************************)
EXTENDS Prefetch

-----------------------------------------------------------------------------
(* What is sent *)

OfSessions ==
    [choice : {"kCreateSession", "kDestroySession", "kDumpSession"}, session_id : Tasks]

OfDescriptors ==
    [choice : {"kCreateFdSession"}, session_id : Tasks, fd : OnDisk]

OfEntries ==
    UNION {Range(Prefetching(t, file, kind)) :
              t \in Tasks, file \in TraceFiles, kind \in ReadAheadKinds}

Commands == OfSessions \cup OfDescriptors \cup OfEntries \cup [choice : {"kExit"}]

Chunks == [command : Commands, half : {1, 2}]

Creates(c) == c.choice \in {"kCreateSession", "kCreateFdSession"}
Destroys(c) == c.choice = "kDestroySession"
IsFor(c, t) == c.choice # "kExit" /\ c.session_id = t

Stream == longbuf \o channel

Whole(chunks) == [j \in 1 .. Len(chunks) \div 2 |-> chunks[2 * j].command]

\* The commands that the child has not carried out yet, in their order.
OnWay == pending \o Whole(Stream)

Sequences ==
    /\ recents \in Seq(Tasks)
    /\ todo \in Seq(Commands)
    /\ pending \in Seq(Commands)
    /\ longbuf \in Seq(Chunks)
    /\ channel \in Seq(Chunks)

-----------------------------------------------------------------------------
(* The pipe *)

\* The two halves of each command follow each other.
Paired(chunks) ==
    /\ Len(chunks) % 2 = 0
    /\ \A i \in DOMAIN chunks :
          i % 2 = 1 => /\ chunks[i].half = 1
                       /\ chunks[i + 1].half = 2
                       /\ chunks[i + 1].command = chunks[i].command

\* The descriptor that came with a half that is kept.
KeptFds(chunks) ==
    IF chunks # <<>> /\ CarriesFd(chunks[1]) THEN <<chunks[1].command.fd>> ELSE <<>>

\* At most one half is kept from read to read, with its descriptor.
StreamInv ==
    child = "running" =>
        /\ Paired(Stream)
        /\ Len(longbuf) <= 1
        /\ longbuf_fds = KeptFds(longbuf)

\* A command may come to sessions D after the commands w: each session is
\* created once, before its other commands, and destroyed after them.
Ordered(w, D) ==
    /\ \A i, j \in DOMAIN w : i < j /\ w[i].choice # "kExit" /\ IsFor(w[j], w[i].session_id)
          => ~Creates(w[j]) /\ ~Destroys(w[i])
    /\ \A j \in DOMAIN w : Creates(w[j]) => w[j].session_id \notin D
    /\ \A j \in DOMAIN w : w[j].choice # "kExit" /\ ~Creates(w[j]) =>
          \/ w[j].session_id \in D
          \/ \E i \in DOMAIN w :
                i < j /\ Creates(w[i]) /\ w[i].session_id = w[j].session_id

Fresh(t, w, D) == t \notin D /\ \A j \in DOMAIN w : ~IsFor(w[j], t)

\* The child has the session, or will have it, and has not been told to end it.
Live(t, w, D) ==
    /\ t \in D \/ \E j \in DOMAIN w : Creates(w[j]) /\ w[j].session_id = t
    /\ \A j \in DOMAIN w : IsFor(w[j], t) => ~Destroys(w[j])

OrderInv == child = "running" => Ordered(OnWay, DOMAIN served.sessions)

-----------------------------------------------------------------------------
(* The calls of iorapd *)

\* Which tasks have a session to come, have one, and may be sent commands.
CallInv ==
    /\ IsFiniteSet(begun)
    /\ task \subseteq begun
    /\ file_map \subseteq Held
    /\ pc \in {"create", "open", "send", "finish"} => task \cap finished = {}
    /\ pc = "open" /\ ~UseSockets => task \subseteq sessions
    /\ pc = "create" /\ UseSockets => \A t \in task : trace[t] \in OnDisk
    /\ pc = "send" => task \subseteq sessions
    /\ pc = "finish" => task \cap sessions = {} /\ task \subseteq file_map
    /\ pc = "exit" => sessions = {}

TodoInv ==
    /\ \A i \in DOMAIN todo : todo[i].choice # "kExit" => todo[i].session_id \in begun
    /\ pc = "send" => \A i \in DOMAIN todo :
          /\ todo[i].choice \in {"kRegisterFilePath", "kReadAhead", "kDumpSession"}
          /\ todo[i].session_id \in task
    /\ pc = "exit" => \A i \in DOMAIN todo :
          /\ todo[i].choice \in {"kExit", "kDestroySession"}
          /\ \A j \in DOMAIN todo : i < j /\ todo[i].choice # "kExit"
                => ~IsFor(todo[j], todo[i].session_id)

\* What the child has and is to have, for the tasks the calls are about.
ChildInv ==
    child = "running" =>
        /\ \A j \in DOMAIN OnWay : OnWay[j].choice # "kExit" => OnWay[j].session_id \in begun
        /\ pc = "create" \/ (pc = "open" /\ UseSockets)
              => \A t \in task : Fresh(t, OnWay, DOMAIN served.sessions)
        /\ \A t \in Held : Live(t, OnWay, DOMAIN served.sessions)
        /\ pc = "exit" => \A i \in DOMAIN todo :
              Destroys(todo[i]) => Live(todo[i].session_id, OnWay, DOMAIN served.sessions)

-----------------------------------------------------------------------------
(* What the sessions are to become *)

\* A call in process leaves the pipe empty.  The commands of a call are sent
\* before it returns; a path is opened by the call that begins its task, after
\* the session is created, or before it with sockets; over a pipe a command
\* that does not fit is dropped when it is sent.
MirrorInv ==
    /\ Direct => pending = <<>> /\ longbuf = <<>> /\ longbuf_fds = <<>> /\ channel = <<>>
    /\ pc \in {"idle", "create", "open", "finish"} => todo = <<>>
    /\ \A t \in Tasks : trace[t] # Missing => t \in begun
    /\ pc = "open" \/ (pc = "create" /\ ~UseSockets) => \A t \in task : trace[t] = Missing
    /\ pc = "create" \/ (pc = "open" /\ UseSockets) => task \cap sessions = {}
    /\ UseSockets => \A t \in Tasks : strategy[t] = "kFadvise"
    /\ child = "running" => \A j \in DOMAIN OnWay : Fits(OnWay[j])

-----------------------------------------------------------------------------
(* The sessions *)

IsSession(x) ==
    /\ x = [path_map |-> x.path_map, entries |-> x.entries]
    /\ x.path_map = [id \in DOMAIN x.path_map |-> x.path_map[id]]

\* A map of sessions in which what is open or mapped belongs to a session.
Tidy(s) ==
    /\ s = [sessions |-> s.sessions, open |-> s.open, mapped |-> s.mapped,
            leaked |-> s.leaked]
    /\ s.sessions = [t \in DOMAIN s.sessions |-> s.sessions[t]]
    /\ \A t \in DOMAIN s.sessions : IsSession(s.sessions[t])
    /\ \A o \in s.open :
          o[1] \in DOMAIN s.sessions /\ o[2] \in DOMAIN s.sessions[o[1]].path_map
    /\ \A m \in s.mapped :
          m[1] \in DOMAIN s.sessions /\ m[2] \in s.sessions[m[1]].entries

\* No more leaks than the traces account for, nor will there be, also when a death
\* has cut off what a call had still to send; a process that ends keeps nothing.
LeakInv ==
    /\ child \notin {"exited", "killed"} =>
          Arrived.leaked \subseteq UNION {LeakedBy(t) : t \in Asked}
    /\ child \in {"exited", "killed"} => served = NoService

\* The inductive invariant.
IInv ==
    /\ TypeOK
    /\ Sequences
    /\ StreamInv
    /\ OrderInv
    /\ CallInv
    /\ TodoInv
    /\ ChildInv
    /\ Tidy(served)
    /\ MirrorInv
    /\ SessionsMirrorTasks
    /\ LeakInv
=============================================================================
