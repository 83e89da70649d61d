--------------------------- MODULE AsyncPoolProofs ---------------------------
(* Proofs about AsyncPool, for any set of functors. *)
EXTENDS AsyncPool, TLAPS

-----------------------------------------------------------------------------
(* The queue of futures *)

LEMMA PushQueued ==
    ASSUME futures \in Seq(Functors), NEW f \in Functors, futures' = Append(futures, f)
    PROVE  /\ futures' \in Seq(Functors)
           /\ Queued(f)'
           /\ \A g \in Functors : Queued(g) => Queued(g)'
  <1>1. /\ Len(futures') = Len(futures) + 1
        /\ Len(futures) \in Nat
        /\ futures'[Len(futures) + 1] = f
        /\ \A i \in 1 .. Len(futures) : futures'[i] = futures[i]
    OBVIOUS
  <1>2. Queued(f)'
    BY <1>1 DEF Queued
  <1>3. \A g \in Functors : Queued(g) => Queued(g)'
    BY <1>1 DEF Queued
  <1> QED BY <1>2, <1>3

LEMMA PopQueued ==
    ASSUME futures \in Seq(Functors), futures # <<>>, futures' = Tail(futures)
    PROVE  /\ futures' \in Seq(Functors)
           /\ Head(futures) \in Functors
           /\ \A g \in Functors : Queued(g) => g = Head(futures) \/ Queued(g)'
  <1>1. /\ Len(futures') = Len(futures) - 1
        /\ Len(futures) \in Nat \ {0}
        /\ Head(futures) = futures[1]
        /\ \A i \in 1 .. Len(futures) - 1 : futures'[i] = futures[i + 1]
    OBVIOUS
  <1>2. ASSUME NEW g \in Functors, NEW i \in 1 .. Len(futures), futures[i] = g
        PROVE  g = Head(futures) \/ Queued(g)'
    <2>1. CASE i = 1
      BY <1>1, <1>2, <2>1
    <2>2. CASE i # 1
      <3>1. i - 1 \in 1 .. Len(futures) - 1 /\ (i - 1) + 1 = i
        BY <1>1, <2>2
      <3>2. futures'[i - 1] = g /\ i - 1 \in 1 .. Len(futures')
        BY <1>1, <1>2, <3>1
      <3> QED BY <3>2 DEF Queued
    <2> QED BY <2>1, <2>2
  <1> QED BY <1>2 DEF Queued

-----------------------------------------------------------------------------
(* The invariant *)

LEMMA InvInit == Init => IInv
  <1> SUFFICES ASSUME Init
               PROVE  IInv
    OBVIOUS
  <1>1. TypeOK
    <2>1. <<>> \in Seq(Functors)
      OBVIOUS
    <2> QED BY <2>1 DEF Init, TypeOK, JoinSteps
  <1>2. \A f \in Functors : Accounted(f)
    BY DEF Init, Accounted
  <1> QED BY <1>1, <1>2 DEF Init, IInv, JoinedIsDone

\* A step that leaves the queue alone, takes no functor back and launches none
\* keeps them all accounted for.
LEMMA SameQueue ==
    ASSUME IInv, UNCHANGED <<launcher, futures, awaited>>,
           \A f \in Functors : functor[f] = "done" => functor'[f] = "done"
    PROVE  \A f \in Functors : Accounted(f)'
  <1>1. \A f \in Functors : Queued(f)' <=> Queued(f)
    BY DEF Queued
  <1> QED BY <1>1 DEF IInv, Accounted

LEMMA InvNext == IInv /\ [Next]_vars => IInv'
  <1> SUFFICES ASSUME IInv, [Next]_vars
               PROVE  IInv'
    OBVIOUS
  <1> USE DEF JoinedIsDone
  <1>1. ASSUME NEW f \in Functors, Spawn(f)
        PROVE  IInv'
    <2>1. TypeOK'
      BY <1>1 DEF Spawn, IInv, TypeOK
    <2>2. ASSUME NEW g \in Functors
          PROVE  Accounted(g)'
      <3>1. Queued(g)' <=> Queued(g)
        BY <1>1 DEF Spawn, Queued
      <3> QED BY <1>1, <3>1 DEF Spawn, IInv, TypeOK, Accounted
    <2> QED BY <1>1, <2>1, <2>2 DEF Spawn, IInv, TypeOK
  <1>2. ASSUME NEW f \in Functors, Push(f)
        PROVE  IInv'
    <2>1. /\ futures' \in Seq(Functors)
          /\ Queued(f)'
          /\ \A g \in Functors : Queued(g) => Queued(g)'
      BY <1>2, PushQueued DEF Push, IInv, TypeOK
    <2>2. TypeOK'
      BY <1>2, <2>1 DEF Push, IInv, TypeOK
    <2>3. ASSUME NEW g \in Functors
          PROVE  Accounted(g)'
      BY <1>2, <2>1 DEF Push, IInv, TypeOK, Accounted
    <2> QED BY <1>2, <2>2, <2>3 DEF Push, Locked, IInv, TypeOK
  <1>3. ASSUME NEW f \in Functors, NotifyOne(f)
        PROVE  IInv'
    <2>1. TypeOK'
      BY <1>3 DEF NotifyOne, Notify, IInv, TypeOK, JoinSteps
    <2>2. ASSUME NEW g \in Functors
          PROVE  Accounted(g)'
      <3>1. Queued(g)' <=> Queued(g)
        BY <1>3 DEF NotifyOne, Queued
      <3> QED BY <1>3, <3>1 DEF NotifyOne, IInv, TypeOK, Accounted
    <2> QED BY <1>3, <2>1, <2>2 DEF NotifyOne, Notify, IInv, TypeOK
  <1>4. ASSUME NEW f \in Functors, Complete(f)
        PROVE  IInv'
    <2>1. TypeOK'
      BY <1>4 DEF Complete, IInv, TypeOK
    <2>2. \A g \in Functors : functor[g] = "done" => functor'[g] = "done"
      BY <1>4 DEF Complete, IInv, TypeOK
    <2>3. \A g \in Functors : Accounted(g)'
      BY <1>4, <2>2, SameQueue DEF Complete
    <2> QED BY <1>4, <2>1, <2>2, <2>3 DEF Complete, IInv, TypeOK
  <1>5. CASE SetFlag \/ NotifyAll \/ Lock \/ Wait \/ WakeSpuriously \/ NothingToPop
    <2>1. TypeOK'
      BY <1>5
      DEF SetFlag, NotifyAll, Notify, Lock, Wait, WakeSpuriously, NothingToPop, IInv,
          TypeOK, JoinSteps, launchVars
    <2>2. \A g \in Functors : Accounted(g)'
      BY <1>5, SameQueue
      DEF SetFlag, NotifyAll, Lock, Wait, WakeSpuriously, NothingToPop, launchVars
    <2>3. \A g \in promised' : launcher'[g] \in {"pushed", "notified"}
      BY <1>5
      DEF SetFlag, NotifyAll, Lock, Wait, WakeSpuriously, NothingToPop, IInv, launchVars
    <2>4. /\ awaited' # {} => join' = "unlocked"
          /\ join' \in {"empty", "parking"} => futures' = <<>>
      BY <1>5
      DEF SetFlag, NotifyAll, Notify, Lock, Wait, WakeSpuriously, NothingToPop, IInv
    <2>5. JoinedIsDone'
      <3>1. CASE SetFlag
        <4>1. join # "returned"
          <5>1. shutting_down <=> shutdown # "none"
            BY DEF IInv
          <5>2. join = "returned" => shutting_down
            BY DEF IInv
          <5> QED BY <3>1, <5>1, <5>2 DEF SetFlag
        <4>2. join' # "returned"
          BY <3>1, <4>1 DEF SetFlag
        <4> QED BY <4>2
      <3>2. CASE NotifyAll \/ Lock \/ Wait \/ WakeSpuriously \/ NothingToPop
        <4>1. /\ join' = "returned" => join = "returned"
              /\ UNCHANGED <<functor, promised, shutting_down>>
          BY <3>2
          DEF NotifyAll, Notify, Lock, Wait, WakeSpuriously, NothingToPop, launchVars
        <4> QED BY <4>1 DEF IInv
      <3> QED BY <1>5, <3>1, <3>2
    <2>6. (shutting_down <=> shutdown # "none")'
      <3>1. \/ shutting_down' = TRUE /\ shutdown' = "flagged"
            \/ /\ shutting_down' = shutting_down
               /\ shutdown' # "none" <=> shutdown # "none"
        BY <1>5 DEF SetFlag, NotifyAll, Lock, Wait, WakeSpuriously, NothingToPop
      <3>2. shutting_down <=> shutdown # "none"
        BY DEF IInv
      <3> QED BY <3>1, <3>2
    <2> QED BY <2>1, <2>2, <2>3, <2>4, <2>5, <2>6 DEF IInv
  <1>6. CASE Pop
    <2>1. /\ futures' \in Seq(Functors)
          /\ Head(futures) \in Functors
          /\ \A g \in Functors : Queued(g) => g = Head(futures) \/ Queued(g)'
      BY <1>6, PopQueued DEF Pop, IInv, TypeOK
    <2>2. TypeOK'
      BY <1>6, <2>1 DEF Pop, IInv, TypeOK, JoinSteps, launchVars
    <2>3. ASSUME NEW g \in Functors
          PROVE  Accounted(g)'
      <3>1. awaited = {}
        BY <1>6 DEF Pop, IInv
      <3> QED BY <1>6, <2>1, <3>1 DEF Pop, IInv, Accounted, launchVars
    <2> QED BY <1>6, <2>2, <2>3 DEF Pop, IInv, launchVars
  <1>7. CASE Get
    <2>1. TypeOK'
      BY <1>7 DEF Get, IInv, TypeOK, JoinSteps, launchVars
    <2>2. ASSUME NEW g \in Functors
          PROVE  Accounted(g)'
      <3>1. Queued(g)' <=> Queued(g)
        BY <1>7 DEF Get, Queued
      <3> QED BY <1>7, <3>1 DEF Get, IInv, Accounted, launchVars
    <2> QED BY <1>7, <2>1, <2>2 DEF Get, IInv, launchVars
  <1>8. CASE TestFlag
    <2>1. TypeOK'
      BY <1>8 DEF TestFlag, IInv, TypeOK, JoinSteps, launchVars
    <2>2. futures = <<>> /\ awaited = {}
      BY <1>8 DEF TestFlag, IInv
    <2>3. \A g \in Functors : ~Queued(g)
      BY <2>2 DEF Queued
    <2>4. \A g \in promised : functor[g] = "done"
      BY <2>2, <2>3 DEF IInv, TypeOK, Accounted
    <2>5. \A g \in Functors : Accounted(g)'
      BY <1>8, SameQueue DEF TestFlag, launchVars
    <2> QED BY <1>8, <2>1, <2>2, <2>4, <2>5 DEF TestFlag, IInv, launchVars
  <1>9. CASE UNCHANGED vars
    <2>1. \A g \in Functors : Accounted(g)'
      BY <1>9, SameQueue DEF vars, launchVars
    <2> QED BY <1>9, <2>1 DEF vars, launchVars, IInv, TypeOK
  <1> QED
    BY <1>1, <1>2, <1>3, <1>4, <1>5, <1>6, <1>7, <1>8, <1>9
    DEF Next, Launch, Join

\* Every functor that was launched is queued, awaited or done, and a thread that
\* stops on the flag has seen an empty queue under the same lock.
THEOREM Invariant == Spec => []IInv
  BY InvInit, InvNext, PTL DEF Spec

\* Join returns after Shutdown, and only when every functor launched before has
\* run to completion, for any number of functors.
THEOREM JoinedAreDone == Spec => []JoinedIsDone
<1>1. IInv => JoinedIsDone
  BY DEF IInv
<1>2. QED
  BY <1>1, Invariant, PTL
=============================================================================
