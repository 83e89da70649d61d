------------------------------ MODULE AsyncPool ------------------------------
(***************************************************************************)
(* AsyncPool (async_pool.h): functors run on threads of their own, and     *)
(* Join waits for their futures until Shutdown is called.  The steps are   *)
(* cut where another thread can get in between: at the mutex, at the       *)
(* atomic flag and at the condition variable.                              *)
(***************************************************************************)
EXTENDS Naturals, Sequences

CONSTANT Functors  \* the functors that may be passed to LaunchAsync

VARIABLES
    functor,        \* the thread of each functor: "none", "running", "done"
    launcher,       \* the LaunchAsync call of each: "none", "spawned", "pushed", "notified"
    futures,        \* futures_
    join,           \* the thread in Join
    awaited,        \* the functor whose future it gets, if any
    shutting_down,  \* shutting_down_
    shutdown,       \* the thread in Shutdown: "none", "flagged", "notified"
    promised        \* history: functors launched when Shutdown was called

launchVars == <<functor, launcher>>
vars == <<launchVars, futures, join, awaited, shutting_down, shutdown, promised>>

JoinSteps == {"outside", "locked", "empty", "unlocked", "parking", "waiting",
              "woken", "returned"}

\* mutex_ is held by the thread in Join; the other holders take it for one step.
Locked == join \in {"locked", "empty", "parking"}

Init ==
    /\ functor = [f \in Functors |-> "none"]
    /\ launcher = [f \in Functors |-> "none"]
    /\ futures = <<>>
    /\ join = "outside"
    /\ awaited = {}
    /\ shutting_down = FALSE
    /\ shutdown = "none"
    /\ promised = {}

Queued(f) == \E i \in 1 .. Len(futures) : futures[i] = f

-----------------------------------------------------------------------------
(* LaunchAsync *)

Spawn(f) ==
    /\ launcher[f] = "none"
    /\ functor' = [functor EXCEPT ![f] = "running"]
    /\ launcher' = [launcher EXCEPT ![f] = "spawned"]
    /\ UNCHANGED <<futures, join, awaited, shutting_down, shutdown, promised>>

\* Mutant: the future is queued without the mutex.
PushUnlocked(f) ==
    /\ launcher[f] = "spawned"
    /\ futures' = Append(futures, f)
    /\ launcher' = [launcher EXCEPT ![f] = "pushed"]
    /\ UNCHANGED <<functor, join, awaited, shutting_down, shutdown, promised>>

Push(f) ==
    /\ launcher[f] = "spawned"
    /\ ~Locked
    /\ futures' = Append(futures, f)
    /\ launcher' = [launcher EXCEPT ![f] = "pushed"]
    /\ UNCHANGED <<functor, join, awaited, shutting_down, shutdown, promised>>

\* notify_one and notify_all: only a thread that waits is woken.
Notify == join' = IF join = "waiting" THEN "woken" ELSE join

NotifyOne(f) ==
    /\ launcher[f] = "pushed"
    /\ Notify
    /\ launcher' = [launcher EXCEPT ![f] = "notified"]
    /\ UNCHANGED <<functor, futures, awaited, shutting_down, shutdown, promised>>

Complete(f) ==
    /\ functor[f] = "running"
    /\ functor' = [functor EXCEPT ![f] = "done"]
    /\ UNCHANGED <<launcher, futures, join, awaited, shutting_down, shutdown, promised>>

-----------------------------------------------------------------------------
(* Shutdown: the flag is set and the threads are notified without the mutex *)

SetFlag ==
    /\ shutdown = "none"
    /\ shutting_down' = TRUE
    /\ shutdown' = "flagged"
    /\ promised' = {f \in Functors : launcher[f] \in {"pushed", "notified"}}
    /\ UNCHANGED <<launchVars, futures, join, awaited>>

NotifyAll ==
    /\ shutdown = "flagged"
    /\ shutdown' = "notified"
    /\ Notify
    /\ UNCHANGED <<launchVars, futures, awaited, shutting_down, promised>>

-----------------------------------------------------------------------------
(* Join *)

\* On entry, and when the wait returns.
Lock ==
    /\ join \in {"outside", "woken"}
    /\ join' = "locked"
    /\ UNCHANGED <<launchVars, futures, awaited, shutting_down, shutdown, promised>>

Pop ==
    /\ join = "locked"
    /\ futures # <<>>
    /\ awaited' = {Head(futures)}
    /\ futures' = Tail(futures)
    /\ join' = "unlocked"
    /\ UNCHANGED <<launchVars, shutting_down, shutdown, promised>>

NothingToPop ==
    /\ join = "locked"
    /\ futures = <<>>
    /\ join' = "empty"
    /\ UNCHANGED <<launchVars, futures, awaited, shutting_down, shutdown, promised>>

\* Mutant: the future is dropped without get().
GetDropsFuture ==
    /\ join = "unlocked"
    /\ awaited' = {}
    /\ join' = "locked"
    /\ UNCHANGED <<launchVars, futures, shutting_down, shutdown, promised>>

\* future.get() returns, and the mutex is taken again.
Get ==
    /\ join = "unlocked"
    /\ \A f \in awaited : functor[f] = "done"
    /\ awaited' = {}
    /\ join' = "locked"
    /\ UNCHANGED <<launchVars, futures, shutting_down, shutdown, promised>>

\* Mutant: the flag is tested before the futures are popped.
TestFlagFirst ==
    /\ join \in {"locked", "empty"}
    /\ join' = IF shutting_down THEN "returned"
               ELSE IF join = "locked" THEN "locked" ELSE "parking"
    /\ UNCHANGED <<launchVars, futures, awaited, shutting_down, shutdown, promised>>

TestFlag ==
    /\ join = "empty"
    /\ join' = IF shutting_down THEN "returned" ELSE "parking"
    /\ UNCHANGED <<launchVars, futures, awaited, shutting_down, shutdown, promised>>

\* cond_var_.wait releases the mutex and waits, in one step.
Wait ==
    /\ join = "parking"
    /\ join' = "waiting"
    /\ UNCHANGED <<launchVars, futures, awaited, shutting_down, shutdown, promised>>

\* A condition variable may wake up by itself; nothing makes it do so.
WakeSpuriously ==
    /\ join = "waiting"
    /\ join' = "woken"
    /\ UNCHANGED <<launchVars, futures, awaited, shutting_down, shutdown, promised>>

Join == Lock \/ Pop \/ NothingToPop \/ Get \/ TestFlag \/ Wait

Launch(f) == Push(f) \/ NotifyOne(f)

Next ==
    \/ \E f \in Functors : Spawn(f) \/ Launch(f) \/ Complete(f)
    \/ SetFlag \/ NotifyAll
    \/ Join
    \/ WakeSpuriously

Spec == Init /\ [][Next]_vars

\* Threads run: a functor ends, LaunchAsync, Shutdown and Join get on.
FairSpec ==
    /\ Spec
    /\ \A f \in Functors : WF_vars(Launch(f)) /\ WF_vars(Complete(f))
    /\ WF_vars(NotifyAll)
    /\ WF_vars(Join)

-----------------------------------------------------------------------------
(* Properties *)

TypeOK ==
    /\ functor \in [Functors -> {"none", "running", "done"}]
    /\ launcher \in [Functors -> {"none", "spawned", "pushed", "notified"}]
    /\ futures \in Seq(Functors)
    /\ join \in JoinSteps
    /\ awaited \subseteq Functors
    /\ shutting_down \in BOOLEAN
    /\ shutdown \in {"none", "flagged", "notified"}
    /\ promised \subseteq Functors

\* "Block forever until Shutdown is called *and* all functors passed to
\* 'LaunchAsync' have run to completition": of the functors launched before
\* Shutdown, whatever the mutex was released for in between.
JoinedIsDone ==
    join = "returned" =>
       /\ shutting_down
       /\ \A f \in promised : functor[f] = "done"

\* The future of every functor is collected while a thread is in Join: the
\* notification of LaunchAsync is never lost, since the queue only changes under
\* the mutex.
FuturesCollected ==
    \A f \in Functors : Queued(f) ~> ~Queued(f) \/ join = "returned"

-----------------------------------------------------------------------------
(* The inductive invariant *)

\* A functor that was launched is in the queue, awaited, or done.
Accounted(f) ==
    launcher[f] \in {"pushed", "notified"} =>
       \/ Queued(f)
       \/ f \in awaited
       \/ functor[f] = "done"

IInv ==
    /\ TypeOK
    /\ \A f \in Functors : Accounted(f)
    /\ \A f \in promised : launcher[f] \in {"pushed", "notified"}
    /\ shutting_down <=> shutdown # "none"
    /\ awaited # {} => join = "unlocked"
    /\ join \in {"empty", "parking"} => futures = <<>>
    /\ JoinedIsDone
=============================================================================
