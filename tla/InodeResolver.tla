--------------------------- MODULE InodeResolver ---------------------------
(***************************************************************************)
(* The resolver that ships (OutOfProcessInodeResolver): it forks           *)
(* iorap.inode2filename, which searches as in InodeSearch and prints each  *)
(* result into a pipe, and reads the pipe until it ends.  The child may    *)
(* die anywhere.  Its exit status is never looked at: only the number of   *)
(* results tells a whole answer from a part of one.                        *)
(***************************************************************************)
EXTENDS InodeSearch

CONSTANTS
    PipeSize,   \* results that fit in the pipe
    FirstWord   \* names with blanks, and what comes before the first blank

ASSUME ResolverAssumption == PipeSize \in Nat \ {0}

VARIABLES
    reader,               \* EmitFromCommandWithArgv: "idle", "reading", "done"
    child,                \* iorap.inode2filename: "none", "running", "exited", "killed"
    flushed,              \* how much of stream stdio has written to the pipe
    consumed,             \* how much of it has been read
    answers,              \* what dest#on_next was called with
    actual_result_count,
    outcome               \* how dest was ended: "none", "completed", "error"

readerVars == <<reader, answers, actual_result_count, outcome>>
pipeVars == <<child, flushed, consumed>>
vars == <<sVars, readerVars, pipeVars>>

Running == child = "running"

-----------------------------------------------------------------------------
(* The lines in the pipe.                                                  *)

\* main prints "K inode name" or "E inode code".  The name is parsed up to the
\* first blank; a line without one is no result.
Word(name) == IF name \in DOMAIN FirstWord THEN FirstWord[name] ELSE name
ParseFromLine(result) == [result EXCEPT !.name = Word(@)]
Parses(result) == IsSuccess(result) => Word(result.name) # ""

-----------------------------------------------------------------------------
ResolverInit ==
    /\ Init
    /\ reader = "idle" /\ answers = {} /\ actual_result_count = 0 /\ outcome = "none"
    /\ child = "none" /\ flushed = 0 /\ consumed = 0

\* A subscriber that was ended takes nothing more.
End(how) == outcome' = IF outcome = "none" THEN how ELSE outcome

\* Nothing to find: dest is completed, and the child is forked nevertheless.
CompleteEmpty ==
    /\ reader = "idle" /\ outcome = "none"
    /\ request = "find" /\ list = {}
    /\ End("completed")
    /\ UNCHANGED <<sVars, reader, answers, actual_result_count, pipeVars>>

Starting == reader = "idle" /\ (request = "find" /\ list = {} => outcome # "none")

\* Without inodes and without --all main returns 1 at once.
Forked == IF request = "find" /\ list = {} THEN "exited" ELSE "running"

\* pipe(2), fork(2) or fdopen(3) fails.
CannotFork ==
    /\ Starting
    /\ Faulty
    /\ child' \in {"none", Forked}
    /\ reader' = "done" /\ End("error")
    /\ UNCHANGED <<diskVars, askVars, searchVars, held, answers, actual_result_count,
                   flushed, consumed>>

Fork ==
    /\ Starting
    /\ reader' = "reading"
    /\ child' = Forked
    /\ UNCHANGED <<sVars, answers, actual_result_count, outcome, flushed, consumed>>

\* The child searches, and prints into the buffer of its stdout.
ChildSearches == Running /\ Search /\ UNCHANGED <<readerVars, pipeVars>>

\* The buffer is written when it is full, in the middle of a line as it may be,
\* and when main returns.
Flush ==
    /\ Running /\ reader = "reading"
    /\ flushed < Len(stream) /\ flushed - consumed < PipeSize
    /\ flushed' = flushed + 1
    /\ UNCHANGED <<sVars, readerVars, child, consumed>>

ChildReturns ==
    /\ Running
    /\ stage \in {"completed", "error"} /\ flushed = Len(stream)
    /\ child' = "exited"
    /\ UNCHANGED <<sVars, readerVars, flushed, consumed>>

\* SIGPIPE: the reader has closed its end.
BrokenPipe ==
    /\ Running /\ reader = "done" /\ flushed < Len(stream)
    /\ child' = "killed"
    /\ UNCHANGED <<sVars, readerVars, flushed, consumed>>

\* Or execve fails, or the system is short of memory: the buffer is lost, and
\* the pipe ends between two lines or within one.
Kill ==
    /\ Running
    /\ Faulty
    /\ child' = "killed"
    /\ UNCHANGED <<diskVars, askVars, searchVars, held, readerVars, flushed, consumed>>

-----------------------------------------------------------------------------
Reading == reader = "reading" /\ consumed < flushed
Line == stream[consumed + 1]

ReadOneLine ==
    /\ Reading /\ Parses(Line)
    /\ consumed' = consumed + 1
    /\ actual_result_count' = actual_result_count + 1
    /\ answers' = IF outcome = "none" THEN answers \cup {ParseFromLine(Line)} ELSE answers
    /\ UNCHANGED <<sVars, reader, outcome, child, flushed>>

InvalidOutput ==
    /\ Reading /\ ~Parses(Line)
    /\ consumed' = consumed + 1
    /\ reader' = "done" /\ End("error")
    /\ UNCHANGED <<sVars, answers, actual_result_count, child, flushed>>

\* The end of the pipe, or of the last line that was cut.  (Mutant: a child that
\* was killed is waited for.)
AtEofOfExit == reader = "reading" /\ consumed = flushed /\ child = "exited"
AtEof == reader = "reading" /\ consumed = flushed /\ ~Running

\* The post-condition of FindFilenamesFromInodes is checked by numbers alone.
\* (Mutant: fewer are no error.)
CountsAtMost == request = "find" => actual_result_count <= Cardinality(list)
CountsAgree == request = "find" => actual_result_count = Cardinality(list)

OutputEof ==
    /\ AtEof
    /\ reader' = "done"
    /\ End(IF CountsAgree THEN "completed" ELSE "error")
    /\ UNCHANGED <<sVars, answers, actual_result_count, pipeVars>>

-----------------------------------------------------------------------------
Reader == CompleteEmpty \/ Fork \/ ReadOneLine \/ InvalidOutput \/ OutputEof
Child == ChildSearches \/ Flush \/ ChildReturns \/ BrokenPipe
DiskChanges == Running /\ Change /\ UNCHANGED <<readerVars, pipeVars>>

ResolverNext == Reader \/ CannotFork \/ Child \/ Kill \/ DiskChanges

\* Both processes are scheduled, and no call blocks but on the pipe.
Fairness == WF_vars(Reader) /\ WF_vars(Child)
ResolverSpec == ResolverInit /\ [][ResolverNext]_vars /\ Fairness

-----------------------------------------------------------------------------
(* Properties                                                              *)

AnswerSpace == [inode : Inodes, name : {Word(n) : n \in FileNames \cup {""}}, error : Errors]

TypeOK ==
    /\ SearchTypeOK
    /\ reader \in {"idle", "reading", "done"}
    /\ child \in {"none", "running", "exited", "killed"}
    /\ flushed \in Nat /\ consumed \in Nat /\ actual_result_count \in Nat
    /\ answers \subseteq AnswerSpace
    /\ outcome \in {"none", "completed", "error"}

Parsed == {ParseFromLine(stream[k]) : k \in 1 .. consumed}

\* What was emitted is what came through the pipe, in order, and nothing twice.
PipeInv ==
    /\ consumed <= flushed /\ flushed <= Len(stream)
    /\ outcome = "none" => answers = Parsed /\ actual_result_count = consumed
    /\ outcome # "none" /\ reader # "done" => request = "find" /\ list = {}
    /\ reader = "idle" => child = "none"
    /\ child = "none" => stage = "off"
    /\ request = "find" /\ list = {} => stage = "off" /\ ~Running
    /\ stage = "off" => stream = <<>>

\* The inductive invariant: the child tells each inode once, and the parent counts
\* what it read of that.
IInv == TypeOK /\ Accounted /\ PipeInv

Contract == INSTANCE ResolverContract WITH Answers <- AnswerSpace

\* The parent keeps the contract whenever the child dies: it completes only with
\* one answer for each inode, although it compares numbers alone.
ImplementsContract == Contract!Spec

\* The caller, who blocks in subscribe, gets an end, whatever becomes of the child.
AnswersEnd == <>(reader = "done" /\ outcome # "none")
=============================================================================
