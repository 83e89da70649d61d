------------------------- MODULE CompilationProofs -------------------------
(***************************************************************************)
(* Proofs about one run of the compiler: the trace file is written from a  *)
(* full answer of the resolver, and holds the earliest event of every page *)
(* that was added, in order.                                               *)
(*                                                                         *)
(* The model's folds over sequences are functions of sets of positions, and *)
(* what they return is proved by induction on the number of elements.  The *)
(* induction is a theorem about sets (Induction), which the provers can    *)
(* instantiate: its argument is the set of the numbers of which the claim  *)
(* holds.                                                                  *)
(***************************************************************************)
EXTENDS Compilation, FiniteSetTheorems, SequenceTheorems, TLAPS

-----------------------------------------------------------------------------
(* Induction on numbers and recursion over them.                           *)

\* Were m the number of a step that fails, k |-> k + 1 would map the members of A up
\* to m into those without 0: a finite set into a smaller one, without a collision.
LEMMA Induction ==
    ASSUME NEW A, 0 \in A, \A n \in Nat : n \in A => n + 1 \in A
    PROVE  \A n \in Nat : n \in A
<1> SUFFICES ASSUME NEW m \in Nat, m \notin A
             PROVE  FALSE
    OBVIOUS
<1> DEFINE B == {k \in 0 .. m : k \in A}
           C == B \ {0}
           f == [k \in B |-> k + 1]
<1>1. IsFiniteSet(0 .. m)
      BY FS_Interval, 0 \in Int, m \in Int
<1>2. B \in SUBSET (0 .. m)
      OBVIOUS
<1>3. IsFiniteSet(B)
      BY <1>1, <1>2, FS_Subset
<1>4. 0 \in B
      OBVIOUS
<1>5. f \in [B -> C] /\ \A x, y \in B : x # y => f[x] # f[y]
      OBVIOUS
<1> HIDE DEF B, f
<1>6. IsFiniteSet(C) /\ Cardinality(C) = Cardinality(B) - 1
      BY <1>3, <1>4, FS_RemoveElement
<1>7. Cardinality(B) \in Nat
      BY <1>3, FS_CardinalityType
<1>8. Cardinality(C) < Cardinality(B)
      BY <1>6, <1>7
<1> HIDE DEF C
<1>9. \E x, y \in B : x # y /\ f[x] = f[y]
      BY <1>3, <1>5, <1>6, <1>8, FS_PigeonHole
<1> QED BY <1>5, <1>9

-----------------------------------------------------------------------------
(* Folds                                                                   *)

\* What the library's Max returns, once a set has a greatest element.
LEMMA MaxIs ==
    ASSUME NEW D, D \subseteq Int, NEW x \in D, \A y \in D : y <= x
    PROVE  Max(D) = x
<1>1. \A z \in D : (\A y \in D : z >= y) => z = x
      OBVIOUS
<1> QED BY <1>1 DEF Max

\* The same of its Min.
LEMMA MinIs ==
    ASSUME NEW D, D \subseteq Int, NEW x \in D, \A y \in D : x <= y
    PROVE  Min(D) = x
<1>1. \A z \in D : (\A y \in D : z <= y) => z = x
      OBVIOUS
<1> QED BY <1>1 DEF Min

Folds(it, n, States, base, next) ==
    /\ it \in [SUBSET (1 .. n) -> States]
    /\ \A D \in SUBSET (1 .. n) :
          it[D] = IF D = {} THEN base ELSE next[<<Max(D), it[D \ {Max(D)}]>>]

\* A fold over a sequence of n elements is a function of the subsets of 1 .. n: there
\* is one when the step is a function from states to states.
LEMMA FoldExists ==
    ASSUME NEW n \in Nat, NEW States, NEW base \in States,
           NEW next \in [(1 .. n) \X States -> States]
    PROVE  \E it : Folds(it, n, States, base, next)
<1> DEFINE A == {m \in Nat : m <= n => \E it : Folds(it, m, States, base, next)}
<1>1. 0 \in A
  <2> DEFINE it == [D \in SUBSET (1 .. 0) |-> base]
  <2>1. \A D \in SUBSET (1 .. 0) : D = {}
        OBVIOUS
  <2>2. it \in [SUBSET (1 .. 0) -> States]
        OBVIOUS
  <2>3. \A D \in SUBSET (1 .. 0) : D = {} /\ it[D] = base
        BY <2>1
  <2> HIDE DEF it
  <2>4. Folds(it, 0, States, base, next)
        BY <2>2, <2>3 DEF Folds
  <2> QED BY <2>4
<1>2. ASSUME NEW m \in Nat, m \in A
      PROVE  m + 1 \in A
  <2> SUFFICES ASSUME m + 1 <= n
               PROVE  \E it : Folds(it, m + 1, States, base, next)
      OBVIOUS
  <2>1. PICK it : Folds(it, m, States, base, next)
        BY <1>2
  <2> DEFINE more == [D \in SUBSET (1 .. m + 1) |->
                        IF m + 1 \in D THEN next[<<m + 1, it[D \ {m + 1}]>>] ELSE it[D]]
  <2>2. \A D \in SUBSET (1 .. m + 1) : m + 1 \notin D => D \in SUBSET (1 .. m)
        OBVIOUS
  <2>3. \A D \in SUBSET (1 .. m + 1) : D \ {m + 1} \in SUBSET (1 .. m)
        OBVIOUS
  <2>4. \A D \in SUBSET (1 .. m) : it[D] \in States
        BY <2>1 DEF Folds
  <2>5. m + 1 \in 1 .. n
        OBVIOUS
  <2>6. more \in [SUBSET (1 .. m + 1) -> States]
        BY <2>2, <2>3, <2>4, <2>5
  <2>7. ASSUME NEW D \in SUBSET (1 .. m + 1)
        PROVE  more[D] = IF D = {} THEN base ELSE next[<<Max(D), more[D \ {Max(D)}]>>]
    <3>1. CASE m + 1 \in D
      <4>1. Max(D) = m + 1
        <5>1. D \subseteq Int /\ \A y \in D : y <= m + 1
              OBVIOUS
        <5> QED BY <3>1, <5>1, MaxIs
      <4>2. more[D \ {m + 1}] = it[D \ {m + 1}]
            BY <2>3
      <4>3. more[D] = next[<<m + 1, it[D \ {m + 1}]>>]
            BY <3>1
      <4> QED BY <3>1, <4>1, <4>2, <4>3
    <3>2. CASE m + 1 \notin D
      <4>1. D \in SUBSET (1 .. m) /\ D \ {Max(D)} \in SUBSET (1 .. m)
            BY <2>2, <3>2
      <4>2. \A E \in SUBSET (1 .. m) : more[E] = it[E]
        <5> TAKE E \in SUBSET (1 .. m)
        <5>1. E \in SUBSET (1 .. m + 1) /\ m + 1 \notin E
              OBVIOUS
        <5> QED BY <5>1
      <4>3. it[D] = IF D = {} THEN base ELSE next[<<Max(D), it[D \ {Max(D)}]>>]
            BY <2>1, <4>1 DEF Folds
      <4> QED BY <4>1, <4>2, <4>3
    <3> QED BY <3>1, <3>2
  <2> HIDE DEF more
  <2>8. Folds(more, m + 1, States, base, next)
        BY <2>6, <2>7 DEF Folds
  <2> QED BY <2>8
<1>3. \A m \in Nat : m \in A
  <2> HIDE DEF A
  <2> QED BY <1>1, <1>2, Induction
<1>4. \E it : Folds(it, n, States, base, next)
      BY <1>3
<1> QED BY <1>4

\* A set of positions has a greatest one.
LEMMA MaxOfSome ==
    ASSUME NEW n \in Nat, NEW D \in SUBSET (1 .. n), D # {}
    PROVE  Max(D) \in D /\ \A y \in D : y <= Max(D)
<1> DEFINE HasMax(E) == \E x \in E : \A y \in E : y <= x
           A == {m \in Nat : \A E \in SUBSET (1 .. m) : E # {} => HasMax(E)}
<1>1. 0 \in A
  <2>1. 1 .. 0 = {}
        OBVIOUS
  <2> QED BY <2>1
<1>2. ASSUME NEW m \in Nat, m \in A
      PROVE  m + 1 \in A
  <2> SUFFICES ASSUME NEW E \in SUBSET (1 .. m + 1), E # {}
               PROVE  HasMax(E)
      OBVIOUS
  <2>1. CASE m + 1 \in E
        BY <2>1
  <2>2. CASE m + 1 \notin E
    <3>1. E \in SUBSET (1 .. m)
          BY <2>2
    <3> QED BY <1>2, <3>1
  <2> QED BY <2>1, <2>2
<1>3. n \in A
  <2> HIDE DEF A
  <2> QED BY <1>1, <1>2, Induction
<1>4. PICK x \in D : \A y \in D : y <= x
      BY <1>3
<1>5. D \subseteq Int
      OBVIOUS
<1>6. Max(D) = x
      BY <1>4, <1>5, MaxIs
<1> QED BY <1>4, <1>6

\* The first i positions of a sequence, as a fold meets them.
LEMMA Prefix ==
    ASSUME NEW n \in Nat, NEW j \in 1 .. n
    PROVE  /\ (1 .. j) \in SUBSET (1 .. n) /\ (1 .. j) # {}
           /\ Max(1 .. j) = j /\ (1 .. j) \ {j} = 1 .. j - 1
<1>1. (1 .. j) \subseteq Int /\ j \in 1 .. j /\ \A y \in 1 .. j : y <= j
      OBVIOUS
<1>2. Max(1 .. j) = j
      BY <1>1, MaxIs
<1>3. (1 .. j) \ {j} = 1 .. j - 1
      OBVIOUS
<1> QED BY <1>1, <1>2, <1>3

-----------------------------------------------------------------------------
(* The folds of the model                                                  *)

SelectedEvents == [inode : Inodes, time : Nat, add : BOOLEAN, index : Nat]
ResolvedEvents == [file : Nat, time : Nat, add : BOOLEAN, index : Nat]

\* Times relative to the start are natural numbers.
LEMMA RelativeType ==
    ASSUME NEW timestamp \in Int, NEW start \in Int
    PROVE  Relative(timestamp, start) \in Nat
BY CompilerAssumption DEF Relative

\* One event of a packet leaves a sequence of selected events.
LEMMA SelectType ==
    ASSUME NEW event \in Events, NEW start \in Int, NEW limit,
           NEW state \in [timestamp : Int, events : Seq(SelectedEvents)]
    PROVE  Select(state, event, start, limit)
              \in [timestamp : Int, events : Seq(SelectedEvents)]
<1> DEFINE now == IF event.timestamp # NoStamp THEN event.timestamp ELSE state.timestamp
           out == [inode |-> event.inode, time |-> Relative(now, start),
                   add |-> event.op = "add", index |-> event.index]
<1>1. now \in Int
      BY DEF Events, Timestamps, NoStamp
<1>2. Relative(now, start) \in Nat
      BY <1>1, RelativeType
<1>3. out \in SelectedEvents
      BY <1>2 DEF Events, SelectedEvents
<1>4. Append(state.events, out) \in Seq(SelectedEvents)
      BY <1>3
<1> HIDE DEF out
<1> QED BY <1>1, <1>4 DEF Select, out

SelectingSteps(it, packet, start, limit) ==
    /\ it[1 .. 0] = FirstState(packet)
    /\ \A j \in 1 .. Len(packet.events) :
          it[1 .. j] = Select(it[1 .. j - 1], packet.events[j], start, limit)
    /\ PacketEvents(packet, start, limit) = it[1 .. Len(packet.events)].events

\* A packet's events are selected one by one.
LEMMA SelectingIsFold ==
    ASSUME NEW packet \in Packets, NEW start \in Int, NEW limit
    PROVE  \E it : SelectingSteps(it, packet, start, limit)
<1> DEFINE n == Len(packet.events)
           States == [timestamp : Int, events : Seq(SelectedEvents)]
           next == [p \in (1 .. n) \X States
              |-> Select(p[2], packet.events[p[1]], start, limit)]
           iter[D \in SUBSET DOMAIN packet.events] ==
              IF D = {} THEN FirstState(packet)
              ELSE Select(iter[D \ {Max(D)}], packet.events[Max(D)], start, limit)
<1>1. n \in Nat /\ DOMAIN packet.events = 1 .. n
         /\ \A j \in 1 .. n : packet.events[j] \in Events
      BY DEF Packets
<1>2. FirstState(packet) \in States /\ next \in [(1 .. n) \X States -> States]
      BY <1>1, SelectType DEF FirstState, Packets, Timestamps, NoStamp
<1>3. \E it : Folds(it, n, States, FirstState(packet), next)
  <2> HIDE DEF n, next, States
  <2> QED BY <1>1, <1>2, FoldExists
<1>4. \E it : it = [D \in SUBSET DOMAIN packet.events |->
                      IF D = {} THEN FirstState(packet)
                      ELSE Select(it[D \ {Max(D)}], packet.events[Max(D)], start, limit)]
  <2>1. PICK it : Folds(it, n, States, FirstState(packet), next)
        BY <1>3
  <2> HIDE DEF States
  <2>2. \A D \in SUBSET (1 .. n) : D # {} => Max(D) \in 1 .. n
        BY <1>1, MaxOfSome
  <2>3. it = [D \in SUBSET DOMAIN packet.events |->
                IF D = {} THEN FirstState(packet)
                ELSE Select(it[D \ {Max(D)}], packet.events[Max(D)], start, limit)]
        BY <1>1, <2>1, <2>2 DEF Folds
  <2> QED BY <2>3
<1>5. iter = [D \in SUBSET DOMAIN packet.events |->
                IF D = {} THEN FirstState(packet)
                ELSE Select(iter[D \ {Max(D)}], packet.events[Max(D)], start, limit)]
      BY <1>4
<1>6. PacketEvents(packet, start, limit) = iter[DOMAIN packet.events].events
      BY DEF PacketEvents, FoldLeft, MapThenFoldSet
<1> HIDE DEF iter, n
<1>7. \A D \in SUBSET (1 .. n) :
         iter[D] = IF D = {} THEN FirstState(packet)
                   ELSE Select(iter[D \ {Max(D)}], packet.events[Max(D)], start, limit)
      BY <1>1, <1>5
<1>8. \A j \in 1 .. n : iter[1 .. j] = Select(iter[1 .. j - 1], packet.events[j], start, limit)
  <2> TAKE j \in 1 .. n
  <2>1. /\ (1 .. j) \in SUBSET (1 .. n) /\ (1 .. j) # {}
        /\ Max(1 .. j) = j /\ (1 .. j) \ {j} = 1 .. j - 1
        BY <1>1, Prefix
  <2> QED BY <1>7, <2>1
<1>9. iter[1 .. 0] = FirstState(packet)
  <2>1. 1 .. 0 = {} /\ {} \in SUBSET (1 .. n)
        OBVIOUS
  <2> QED BY <1>7, <2>1
<1>10. SelectingSteps(iter, packet, start, limit)
      BY <1>1, <1>6, <1>8, <1>9 DEF SelectingSteps, n
<1> QED BY <1>10

\* One event of an inode leaves a sequence of events of files.
LEMMA ResolveType ==
    ASSUME NEW event \in SelectedEvents, NEW resolved \in Seq(ResolvedEvents),
           NEW inode_map, \A i \in DOMAIN inode_map : inode_map[i] \in Nat, NEW blacklist
    PROVE  ResolveEvent(resolved, event, inode_map, blacklist) \in Seq(ResolvedEvents)
<1> DEFINE out == [file |-> inode_map[event.inode], time |-> event.time,
                   add |-> event.add, index |-> event.index]
<1>1. event.inode \in DOMAIN inode_map => out \in ResolvedEvents
      BY DEF SelectedEvents, ResolvedEvents
<1> HIDE DEF out
<1>2. out \in ResolvedEvents => Append(resolved, out) \in Seq(ResolvedEvents)
      OBVIOUS
<1> QED BY <1>1, <1>2 DEF ResolveEvent, out

ResolvingSteps(it, events, inode_map, blacklist) ==
    /\ it[1 .. 0] = <<>>
    /\ \A j \in 1 .. Len(events) :
          it[1 .. j] = ResolveEvent(it[1 .. j - 1], events[j], inode_map, blacklist)
    /\ Resolve(events, inode_map, blacklist) = it[1 .. Len(events)]

\* Inodes are replaced by files one by one.
LEMMA ResolvingIsFold ==
    ASSUME NEW events \in Seq(SelectedEvents), NEW blacklist,
           NEW inode_map, \A i \in DOMAIN inode_map : inode_map[i] \in Nat
    PROVE  \E it : ResolvingSteps(it, events, inode_map, blacklist)
<1> DEFINE n == Len(events)
           States == Seq(ResolvedEvents)
           next == [p \in (1 .. n) \X States
              |-> ResolveEvent(p[2], events[p[1]], inode_map, blacklist)]
           iter[D \in SUBSET DOMAIN events] ==
              IF D = {} THEN <<>>
              ELSE ResolveEvent(iter[D \ {Max(D)}], events[Max(D)], inode_map, blacklist)
<1>1. n \in Nat /\ DOMAIN events = 1 .. n /\ \A j \in 1 .. n : events[j] \in SelectedEvents
      OBVIOUS
<1>2. <<>> \in States /\ next \in [(1 .. n) \X States -> States]
      BY <1>1, ResolveType
<1>3. \E it : Folds(it, n, States, <<>>, next)
  <2> HIDE DEF n, next, States
  <2> QED BY <1>1, <1>2, FoldExists
<1>4. \E it : it = [D \in SUBSET DOMAIN events |->
                      IF D = {} THEN <<>>
                      ELSE ResolveEvent(it[D \ {Max(D)}], events[Max(D)], inode_map, blacklist)]
  <2>1. PICK it : Folds(it, n, States, <<>>, next)
        BY <1>3
  <2> HIDE DEF States
  <2>2. \A D \in SUBSET (1 .. n) : D # {} => Max(D) \in 1 .. n
        BY <1>1, MaxOfSome
  <2>3. it = [D \in SUBSET DOMAIN events |->
                IF D = {} THEN <<>>
                ELSE ResolveEvent(it[D \ {Max(D)}], events[Max(D)], inode_map, blacklist)]
        BY <1>1, <2>1, <2>2 DEF Folds
  <2> QED BY <2>3
<1>5. iter = [D \in SUBSET DOMAIN events |->
                IF D = {} THEN <<>>
                ELSE ResolveEvent(iter[D \ {Max(D)}], events[Max(D)], inode_map, blacklist)]
      BY <1>4
<1>6. Resolve(events, inode_map, blacklist) = iter[DOMAIN events]
      BY DEF Resolve, FoldLeft, MapThenFoldSet
<1> HIDE DEF iter, n
<1>7. \A D \in SUBSET (1 .. n) :
         iter[D] = IF D = {} THEN <<>>
                   ELSE ResolveEvent(iter[D \ {Max(D)}], events[Max(D)], inode_map, blacklist)
      BY <1>1, <1>5
<1>8. \A j \in 1 .. n :
         iter[1 .. j] = ResolveEvent(iter[1 .. j - 1], events[j], inode_map, blacklist)
  <2> TAKE j \in 1 .. n
  <2>1. /\ (1 .. j) \in SUBSET (1 .. n) /\ (1 .. j) # {}
        /\ Max(1 .. j) = j /\ (1 .. j) \ {j} = 1 .. j - 1
        BY <1>1, Prefix
  <2> QED BY <1>7, <2>1
<1>9. iter[1 .. 0] = <<>>
  <2>1. 1 .. 0 = {} /\ {} \in SUBSET (1 .. n)
        OBVIOUS
  <2> QED BY <1>7, <2>1
<1>10. ResolvingSteps(iter, events, inode_map, blacklist)
      BY <1>1, <1>6, <1>8, <1>9 DEF ResolvingSteps, n
<1> QED BY <1>10

MergingSteps(it, set, events) ==
    /\ it[1 .. 0] = set
    /\ \A j \in 1 .. Len(events) : it[1 .. j] = InsertEarliest(it[1 .. j - 1], events[j])
    /\ Merge(set, events) = it[1 .. Len(events)]

\* Events are inserted into the set one by one.
LEMMA MergingIsFold ==
    ASSUME NEW E, NEW set \in SUBSET E, NEW events \in Seq(E)
    PROVE  \E it : MergingSteps(it, set, events)
<1> DEFINE n == Len(events)
           States == SUBSET E
           next == [p \in (1 .. n) \X States |-> InsertEarliest(p[2], events[p[1]])]
           iter[D \in SUBSET DOMAIN events] ==
              IF D = {} THEN set ELSE InsertEarliest(iter[D \ {Max(D)}], events[Max(D)])
<1>1. n \in Nat /\ DOMAIN events = 1 .. n /\ \A j \in 1 .. n : events[j] \in E
      OBVIOUS
<1>2. set \in States /\ next \in [(1 .. n) \X States -> States]
      BY <1>1 DEF InsertEarliest
<1>3. \E it : Folds(it, n, States, set, next)
  <2> HIDE DEF n, next, States
  <2> QED BY <1>1, <1>2, FoldExists
<1>4. \E it : it = [D \in SUBSET DOMAIN events |->
                      IF D = {} THEN set ELSE InsertEarliest(it[D \ {Max(D)}], events[Max(D)])]
  <2>1. PICK it : Folds(it, n, States, set, next)
        BY <1>3
  <2> HIDE DEF States
  <2>2. \A D \in SUBSET (1 .. n) : D # {} => Max(D) \in 1 .. n
        BY <1>1, MaxOfSome
  <2>3. it = [D \in SUBSET DOMAIN events |->
                IF D = {} THEN set ELSE InsertEarliest(it[D \ {Max(D)}], events[Max(D)])]
        BY <1>1, <2>1, <2>2 DEF Folds
  <2> QED BY <2>3
<1>5. iter = [D \in SUBSET DOMAIN events |->
                IF D = {} THEN set ELSE InsertEarliest(iter[D \ {Max(D)}], events[Max(D)])]
      BY <1>4
<1>6. Merge(set, events) = iter[DOMAIN events]
      BY DEF Merge, FoldLeft, MapThenFoldSet
<1> HIDE DEF iter, n
<1>7. \A D \in SUBSET (1 .. n) :
         iter[D] = IF D = {} THEN set ELSE InsertEarliest(iter[D \ {Max(D)}], events[Max(D)])
      BY <1>1, <1>5
<1>8. \A j \in 1 .. n : iter[1 .. j] = InsertEarliest(iter[1 .. j - 1], events[j])
  <2> TAKE j \in 1 .. n
  <2>1. /\ (1 .. j) \in SUBSET (1 .. n) /\ (1 .. j) # {}
        /\ Max(1 .. j) = j /\ (1 .. j) \ {j} = 1 .. j - 1
        BY <1>1, Prefix
  <2> QED BY <1>7, <2>1
<1>9. iter[1 .. 0] = set
  <2>1. 1 .. 0 = {} /\ {} \in SUBSET (1 .. n)
        OBVIOUS
  <2> QED BY <1>7, <2>1
<1>10. MergingSteps(iter, set, events)
      BY <1>1, <1>6, <1>8, <1>9 DEF MergingSteps, n
<1> QED BY <1>10

KeepingSteps(it, events) ==
    /\ it[1 .. 0] = <<>>
    /\ \A j \in 1 .. Len(events) : it[1 .. j] = KeepAdded(it[1 .. j - 1], events[j])
    /\ Additions(events) = it[1 .. Len(events)]

\* Additions are appended one by one.
LEMMA KeepingIsFold ==
    ASSUME NEW events \in Seq(ResolvedEvents)
    PROVE  \E it : KeepingSteps(it, events)
<1> DEFINE n == Len(events)
           States == Seq(ResolvedEvents)
           next == [p \in (1 .. n) \X States |-> KeepAdded(p[2], events[p[1]])]
           iter[D \in SUBSET DOMAIN events] ==
              IF D = {} THEN <<>> ELSE KeepAdded(iter[D \ {Max(D)}], events[Max(D)])
<1>1. n \in Nat /\ DOMAIN events = 1 .. n /\ \A j \in 1 .. n : events[j] \in ResolvedEvents
      OBVIOUS
<1>2. <<>> \in States /\ next \in [(1 .. n) \X States -> States]
      BY <1>1 DEF KeepAdded
<1>3. \E it : Folds(it, n, States, <<>>, next)
  <2> HIDE DEF n, next, States
  <2> QED BY <1>1, <1>2, FoldExists
<1>4. \E it : it = [D \in SUBSET DOMAIN events |->
                      IF D = {} THEN <<>> ELSE KeepAdded(it[D \ {Max(D)}], events[Max(D)])]
  <2>1. PICK it : Folds(it, n, States, <<>>, next)
        BY <1>3
  <2> HIDE DEF States
  <2>2. \A D \in SUBSET (1 .. n) : D # {} => Max(D) \in 1 .. n
        BY <1>1, MaxOfSome
  <2>3. it = [D \in SUBSET DOMAIN events |->
                IF D = {} THEN <<>> ELSE KeepAdded(it[D \ {Max(D)}], events[Max(D)])]
        BY <1>1, <2>1, <2>2 DEF Folds
  <2> QED BY <2>3
<1>5. iter = [D \in SUBSET DOMAIN events |->
                IF D = {} THEN <<>> ELSE KeepAdded(iter[D \ {Max(D)}], events[Max(D)])]
      BY <1>4
<1>6. Additions(events) = iter[DOMAIN events]
      BY DEF Additions, FoldLeft, MapThenFoldSet
<1> HIDE DEF iter, n
<1>7. \A D \in SUBSET (1 .. n) :
         iter[D] = IF D = {} THEN <<>> ELSE KeepAdded(iter[D \ {Max(D)}], events[Max(D)])
      BY <1>1, <1>5
<1>8. \A j \in 1 .. n : iter[1 .. j] = KeepAdded(iter[1 .. j - 1], events[j])
  <2> TAKE j \in 1 .. n
  <2>1. /\ (1 .. j) \in SUBSET (1 .. n) /\ (1 .. j) # {}
        /\ Max(1 .. j) = j /\ (1 .. j) \ {j} = 1 .. j - 1
        BY <1>1, Prefix
  <2> QED BY <1>7, <2>1
<1>9. iter[1 .. 0] = <<>>
  <2>1. 1 .. 0 = {} /\ {} \in SUBSET (1 .. n)
        OBVIOUS
  <2> QED BY <1>7, <2>1
<1>10. KeepingSteps(iter, events)
      BY <1>1, <1>6, <1>8, <1>9 DEF KeepingSteps, n
<1> QED BY <1>10

NamingSteps(it, events) ==
    /\ it[1 .. 0] = <<>>
    /\ \A j \in 1 .. Len(events) : it[1 .. j] = NameOnce(it[1 .. j - 1], events[j])
    /\ FileNames(events) = it[1 .. Len(events)]

\* The names of the files are appended one by one.
LEMMA NamingIsFold ==
    ASSUME NEW events \in Seq(ResolvedEvents)
    PROVE  \E it : NamingSteps(it, events)
<1> DEFINE n == Len(events)
           States == Seq(Nat)
           next == [p \in (1 .. n) \X States |-> NameOnce(p[2], events[p[1]])]
           iter[D \in SUBSET DOMAIN events] ==
              IF D = {} THEN <<>> ELSE NameOnce(iter[D \ {Max(D)}], events[Max(D)])
<1>1. n \in Nat /\ DOMAIN events = 1 .. n /\ \A j \in 1 .. n : events[j] \in ResolvedEvents
      OBVIOUS
<1>2. <<>> \in States /\ next \in [(1 .. n) \X States -> States]
      BY <1>1 DEF NameOnce, ResolvedEvents
<1>3. \E it : Folds(it, n, States, <<>>, next)
  <2> HIDE DEF n, next, States
  <2> QED BY <1>1, <1>2, FoldExists
<1>4. \E it : it = [D \in SUBSET DOMAIN events |->
                      IF D = {} THEN <<>> ELSE NameOnce(it[D \ {Max(D)}], events[Max(D)])]
  <2>1. PICK it : Folds(it, n, States, <<>>, next)
        BY <1>3
  <2> HIDE DEF States
  <2>2. \A D \in SUBSET (1 .. n) : D # {} => Max(D) \in 1 .. n
        BY <1>1, MaxOfSome
  <2>3. it = [D \in SUBSET DOMAIN events |->
                IF D = {} THEN <<>> ELSE NameOnce(it[D \ {Max(D)}], events[Max(D)])]
        BY <1>1, <2>1, <2>2 DEF Folds
  <2> QED BY <2>3
<1>5. iter = [D \in SUBSET DOMAIN events |->
                IF D = {} THEN <<>> ELSE NameOnce(iter[D \ {Max(D)}], events[Max(D)])]
      BY <1>4
<1>6. FileNames(events) = iter[DOMAIN events]
      BY DEF FileNames, FoldLeft, MapThenFoldSet
<1> HIDE DEF iter, n
<1>7. \A D \in SUBSET (1 .. n) :
         iter[D] = IF D = {} THEN <<>> ELSE NameOnce(iter[D \ {Max(D)}], events[Max(D)])
      BY <1>1, <1>5
<1>8. \A j \in 1 .. n : iter[1 .. j] = NameOnce(iter[1 .. j - 1], events[j])
  <2> TAKE j \in 1 .. n
  <2>1. /\ (1 .. j) \in SUBSET (1 .. n) /\ (1 .. j) # {}
        /\ Max(1 .. j) = j /\ (1 .. j) \ {j} = 1 .. j - 1
        BY <1>1, Prefix
  <2> QED BY <1>7, <2>1
<1>9. iter[1 .. 0] = <<>>
  <2>1. 1 .. 0 = {} /\ {} \in SUBSET (1 .. n)
        OBVIOUS
  <2> QED BY <1>7, <2>1
<1>10. NamingSteps(iter, events)
      BY <1>1, <1>6, <1>8, <1>9 DEF NamingSteps, n
<1> QED BY <1>10

-----------------------------------------------------------------------------
(* Sequences and their elements                                            *)

\* The elements of a sequence and one more.
LEMMA ToSetAppend ==
    ASSUME NEW S, NEW s \in Seq(S), NEW e \in S
    PROVE  ToSet(Append(s, e)) = ToSet(s) \cup {e}
<1>1. DOMAIN s = 1 .. Len(s) /\ DOMAIN Append(s, e) = 1 .. Len(s) + 1 /\ Len(s) \in Nat
      OBVIOUS
<1>2. \A k \in 1 .. Len(s) : Append(s, e)[k] = s[k]
      OBVIOUS
<1>3. Append(s, e)[Len(s) + 1] = e
      OBVIOUS
<1> QED BY <1>1, <1>2, <1>3 DEF ToSet

\* The elements of two sequences, one after the other.
LEMMA ToSetConcat ==
    ASSUME NEW S, NEW s \in Seq(S), NEW t \in Seq(S)
    PROVE  ToSet(s \o t) = ToSet(s) \cup ToSet(t)
<1>1. /\ Len(s) \in Nat /\ Len(t) \in Nat /\ DOMAIN (s \o t) = 1 .. Len(s) + Len(t)
      /\ DOMAIN s = 1 .. Len(s) /\ DOMAIN t = 1 .. Len(t)
      OBVIOUS
<1>2. \A k \in 1 .. Len(s) : (s \o t)[k] = s[k] /\ k \in DOMAIN (s \o t)
      BY <1>1
<1>3. \A k \in 1 .. Len(t) : (s \o t)[Len(s) + k] = t[k] /\ Len(s) + k \in DOMAIN (s \o t)
      BY <1>1
<1>4. \A k \in DOMAIN (s \o t) : k \in 1 .. Len(s) \/ k - Len(s) \in 1 .. Len(t)
      BY <1>1
<1>5. \A k \in DOMAIN (s \o t) : (s \o t)[k] \in ToSet(s) \cup ToSet(t)
  <2> TAKE k \in DOMAIN (s \o t)
  <2>1. CASE k \in 1 .. Len(s)
        BY <1>1, <1>2, <2>1 DEF ToSet
  <2>2. CASE k - Len(s) \in 1 .. Len(t)
    <3>1. k = Len(s) + (k - Len(s))
          BY <1>1
    <3>2. (s \o t)[k] = t[k - Len(s)]
          BY <1>3, <2>2, <3>1
    <3> QED BY <1>1, <2>2, <3>2 DEF ToSet
  <2> QED BY <1>4, <2>1, <2>2
<1>6. \A k \in DOMAIN s : s[k] \in ToSet(s \o t)
      BY <1>1, <1>2 DEF ToSet
<1>7. \A k \in DOMAIN t : t[k] \in ToSet(s \o t)
      BY <1>1, <1>3 DEF ToSet
<1>8. ToSet(s) \subseteq ToSet(s \o t) /\ ToSet(t) \subseteq ToSet(s \o t)
      BY <1>6, <1>7 DEF ToSet
<1>9. ToSet(s \o t) \subseteq ToSet(s) \cup ToSet(t)
  <2>1. ASSUME NEW x \in ToSet(s \o t) PROVE x \in ToSet(s) \cup ToSet(t)
    <3>1. PICK k \in DOMAIN (s \o t) : x = (s \o t)[k]
          BY DEF ToSet
    <3> QED BY <1>5, <3>1
  <2> QED BY <2>1
<1> QED BY <1>8, <1>9

\* The elements of a sequence of sequences.
LEMMA Flattened ==
    ASSUME NEW S, NEW seqs \in Seq(Seq(S))
    PROVE  /\ FlattenSeq(seqs) \in Seq(S)
           /\ ToSet(FlattenSeq(seqs)) = UNION {ToSet(seqs[k]) : k \in DOMAIN seqs}
<1> DEFINE n == Len(seqs)
           States == Seq(S)
           next == [p \in (1 .. n) \X States |-> p[2] \o seqs[p[1]]]
           flatten[i \in 1 .. n] == IF i = 1 THEN seqs[i] ELSE flatten[i - 1] \o seqs[i]
           A == {m \in Nat : m \in 1 .. n =>
                    /\ flatten[m] \in States
                    /\ ToSet(flatten[m]) = UNION {ToSet(seqs[k]) : k \in 1 .. m}}
<1>1. n \in Nat /\ DOMAIN seqs = 1 .. n /\ \A k \in 1 .. n : seqs[k] \in States
      OBVIOUS
<1>2. <<>> \in States /\ next \in [(1 .. n) \X States -> States]
      BY <1>1
<1>3. PICK it : Folds(it, n, States, <<>>, next)
  <2> HIDE DEF n, next, States
  <2> QED BY <1>1, <1>2, FoldExists
<1>4. \E f : f = [i \in 1 .. n |-> IF i = 1 THEN seqs[i] ELSE f[i - 1] \o seqs[i]]
  <2> DEFINE f == [i \in 1 .. n |-> it[1 .. i]]
  <2>1. it[{}] = <<>>
        BY <1>3 DEF Folds
  <2>2. ASSUME NEW i \in 1 .. n
        PROVE  it[1 .. i] = it[1 .. i - 1] \o seqs[i] /\ it[1 .. i] \in States
    <3>1. /\ (1 .. i) \in SUBSET (1 .. n) /\ (1 .. i) # {}
          /\ Max(1 .. i) = i /\ (1 .. i) \ {i} = 1 .. i - 1
          BY <1>1, Prefix
    <3>2. (1 .. i - 1) \in SUBSET (1 .. n)
          BY <1>1
    <3>3. it[1 .. i - 1] \in States /\ it[1 .. i] \in States
          BY <1>3, <3>1, <3>2 DEF Folds
    <3>4. it[1 .. i] = next[<<i, it[1 .. i - 1]>>]
          BY <1>3, <3>1 DEF Folds
    <3> QED BY <3>3, <3>4
  <2>3. n >= 1 => it[1 .. 1] = seqs[1]
    <3> SUFFICES ASSUME n >= 1 PROVE it[1 .. 1] = seqs[1]
        OBVIOUS
    <3>1. 1 \in 1 .. n /\ 1 .. 1 - 1 = {}
          BY <1>1
    <3>2. it[1 .. 1] = <<>> \o seqs[1]
          BY <2>1, <2>2, <3>1
    <3>3. seqs[1] \in Seq(S)
          BY <1>1, <3>1
    <3> QED BY <3>2, <3>3
  <2>4. \A i \in 1 .. n : i # 1 => i - 1 \in 1 .. n
        BY <1>1
  <2>5. f = [i \in 1 .. n |-> IF i = 1 THEN seqs[i] ELSE f[i - 1] \o seqs[i]]
    <3>1. ASSUME NEW i \in 1 .. n
          PROVE  f[i] = IF i = 1 THEN seqs[i] ELSE f[i - 1] \o seqs[i]
      <4>1. CASE i = 1
            BY <1>1, <2>3, <4>1
      <4>2. CASE i # 1
        <5>1. f[i] = it[1 .. i] /\ f[i - 1] = it[1 .. i - 1]
              BY <2>4, <4>2
        <5> QED BY <2>2, <4>2, <5>1
      <4> QED BY <4>1, <4>2
    <3> QED BY <3>1
  <2> QED BY <2>5
<1>5. flatten = [i \in 1 .. n |-> IF i = 1 THEN seqs[i] ELSE flatten[i - 1] \o seqs[i]]
      BY <1>4
<1>6. FlattenSeq(seqs) = IF n = 0 THEN seqs ELSE flatten[n]
      BY DEF FlattenSeq
<1> HIDE DEF flatten, n
<1>7. 0 \in A
      OBVIOUS
<1>8. ASSUME NEW m \in Nat, m \in A
      PROVE  m + 1 \in A
  <2> SUFFICES ASSUME m + 1 \in 1 .. n
               PROVE  /\ flatten[m + 1] \in States
                      /\ ToSet(flatten[m + 1]) = UNION {ToSet(seqs[k]) : k \in 1 .. m + 1}
      OBVIOUS
  <2>1. CASE m = 0
    <3>1. flatten[1] = seqs[1] /\ 1 \in 1 .. n
          BY <1>5, <2>1
    <3>2. 1 .. 1 = {1}
          OBVIOUS
    <3> QED BY <1>1, <2>1, <3>1, <3>2
  <2>2. CASE m # 0
    <3>1. m \in 1 .. n
          BY <1>1, <2>2
    <3>2. flatten[m + 1] = flatten[m] \o seqs[m + 1]
      <4>1. ASSUME NEW i \in 1 .. n, NEW j \in Nat, i = j + 1, j # 0
            PROVE  flatten[i] = flatten[j] \o seqs[i]
        <5>1. \A l \in 1 .. n : l # 1 => flatten[l] = flatten[l - 1] \o seqs[l]
              BY <1>5
        <5>2. i # 1 /\ i - 1 = j
              BY <4>1
        <5>3. flatten[i] = flatten[i - 1] \o seqs[i]
              BY <5>1, <5>2
        <5> QED BY <5>2, <5>3
      <4> QED BY <2>2, <4>1
    <3>3. flatten[m] \in Seq(S) /\ ToSet(flatten[m]) = UNION {ToSet(seqs[k]) : k \in 1 .. m}
          BY <1>8, <3>1
    <3>4. seqs[m + 1] \in Seq(S)
          BY <1>1
    <3>5. ToSet(flatten[m + 1]) = ToSet(flatten[m]) \cup ToSet(seqs[m + 1])
          BY <3>2, <3>3, <3>4, ToSetConcat
    <3>6. 1 .. m + 1 = (1 .. m) \cup {m + 1}
          OBVIOUS
    <3> QED BY <3>2, <3>3, <3>4, <3>5, <3>6
  <2> QED BY <2>1, <2>2
<1>9. n \in A
  <2> HIDE DEF A
  <2> QED BY <1>1, <1>7, <1>8, Induction
<1>10. CASE n = 0
  <2>1. DOMAIN seqs = {} /\ seqs = <<>>
        BY <1>1, <1>10 DEF n
  <2>2. ToSet(seqs) = {} /\ {ToSet(seqs[k]) : k \in DOMAIN seqs} = {}
        BY <2>1 DEF ToSet
  <2> QED BY <1>2, <1>6, <1>10, <2>1, <2>2
<1>11. CASE n # 0
      BY <1>1, <1>6, <1>9, <1>11
<1> QED BY <1>10, <1>11

-----------------------------------------------------------------------------
(* The events of a packet                                                  *)

\* The events of a packet that are selected, and what each becomes.
Chosen(packet, limit, i) ==
    LET event == packet.events[i]
    IN event.op # "other" /\ (event.timestamp = NoStamp \/ event.timestamp <= limit)

Outcome(packet, start, i) ==
    LET event == packet.events[i]
    IN [inode |-> event.inode, time |-> Relative(StampOf(packet, i), start),
        add |-> event.op = "add", index |-> event.index]

SelectedOf(packet, start, limit, j) ==
    {Outcome(packet, start, i) : i \in {i \in 1 .. j : Chosen(packet, limit, i)}}

\* The packet's stamp before its first event.
LEMMA StampOfNone ==
    ASSUME NEW packet
    PROVE  StampOf(packet, 0) = FirstState(packet).timestamp
<1>1. {i \in 1 .. 0 : packet.events[i].timestamp # NoStamp} = {}
      OBVIOUS
<1> QED BY <1>1 DEF StampOf, FirstState

\* The stamp in force at an event is its own or that of the event before.
LEMMA StampOfNext ==
    ASSUME NEW packet, NEW j \in Nat
    PROVE  StampOf(packet, j + 1) =
              IF packet.events[j + 1].timestamp # NoStamp THEN packet.events[j + 1].timestamp
              ELSE StampOf(packet, j)
<1> DEFINE stamped(m) == {i \in 1 .. m : packet.events[i].timestamp # NoStamp}
<1>1. CASE packet.events[j + 1].timestamp # NoStamp
  <2>1. /\ stamped(j + 1) \subseteq Int /\ j + 1 \in stamped(j + 1)
        /\ \A y \in stamped(j + 1) : y <= j + 1
        BY <1>1
  <2> HIDE DEF stamped
  <2>2. Max(stamped(j + 1)) = j + 1 /\ stamped(j + 1) # {}
        BY <2>1, MaxIs
  <2> QED BY <1>1, <2>2 DEF StampOf, stamped
<1>2. CASE packet.events[j + 1].timestamp = NoStamp
  <2>1. stamped(j + 1) = stamped(j)
        BY <1>2
  <2> QED BY <1>2, <2>1 DEF StampOf
<1> QED BY <1>1, <1>2

\* What is selected of a packet, event by event.
LEMMA PacketSelected ==
    ASSUME NEW packet \in Packets, NEW start \in Int, NEW limit \in Nat
    PROVE  /\ PacketEvents(packet, start, limit) \in Seq(SelectedEvents)
           /\ ToSet(PacketEvents(packet, start, limit))
                 = SelectedOf(packet, start, limit, Len(packet.events))
<1> DEFINE n == Len(packet.events)
<1>1. n \in Nat /\ \A j \in 1 .. n : packet.events[j] \in Events
      BY DEF Packets
<1>2. PICK it : SelectingSteps(it, packet, start, limit)
      BY SelectingIsFold
<1> DEFINE Done(j) ==
              /\ it[1 .. j] \in [timestamp : Int, events : Seq(SelectedEvents)]
              /\ it[1 .. j].timestamp = StampOf(packet, j)
              /\ ToSet(it[1 .. j].events) = SelectedOf(packet, start, limit, j)
           A == {j \in Nat : j <= n => Done(j)}
<1>3. 0 \in A
  <2>1. it[1 .. 0] = FirstState(packet)
        BY <1>2 DEF SelectingSteps
  <2>2. FirstState(packet) \in [timestamp : Int, events : Seq(SelectedEvents)]
        BY DEF FirstState, Packets, Timestamps, NoStamp
  <2>3. FirstState(packet).events = <<>> /\ ToSet(<<>>) = {}
        BY DEF FirstState, ToSet
  <2>4. SelectedOf(packet, start, limit, 0) = {}
        BY DEF SelectedOf
  <2> QED BY <2>1, <2>2, <2>3, <2>4, StampOfNone
<1>4. ASSUME NEW j \in Nat, j \in A
      PROVE  j + 1 \in A
  <2> SUFFICES ASSUME j + 1 <= n
               PROVE  Done(j + 1)
      OBVIOUS
  <2> DEFINE state == it[1 .. j]
             event == packet.events[j + 1]
             more == Select(state, event, start, limit)
             now == StampOf(packet, j + 1)
  <2>1. Done(j)
        BY <1>1, <1>4
  <2>2. j + 1 \in 1 .. n /\ event \in Events
        BY <1>1
  <2>3. it[1 .. j + 1] = more
    <3>1. \A i \in 1 .. n : it[1 .. i] = Select(it[1 .. i - 1], packet.events[i], start, limit)
          BY <1>2 DEF SelectingSteps
    <3>2. it[1 .. j + 1] = Select(it[1 .. (j + 1) - 1], packet.events[j + 1], start, limit)
          BY <2>2, <3>1
    <3>3. 1 .. (j + 1) - 1 = 1 .. j
          OBVIOUS
    <3> QED BY <3>2, <3>3
  <2>4. more \in [timestamp : Int, events : Seq(SelectedEvents)]
        BY <2>1, <2>2, SelectType
  <2>5. now = IF event.timestamp # NoStamp THEN event.timestamp ELSE state.timestamp
        BY <2>1, StampOfNext
  <2> HIDE DEF Done, A, n
  <2>6. more.timestamp = now
        BY <2>5 DEF Select
  <2>7. more.events = IF Chosen(packet, limit, j + 1)
                      THEN Append(state.events, Outcome(packet, start, j + 1)) ELSE state.events
    <3> DEFINE own == event.timestamp # NoStamp
               out == [inode |-> event.inode, time |-> Relative(now, start),
                       add |-> event.op = "add", index |-> event.index]
    <3>1. more.events = IF (own /\ now > limit) \/ event.op = "other" THEN state.events
                        ELSE Append(state.events, out)
          BY <2>5 DEF Select
    <3>2. out = Outcome(packet, start, j + 1)
          BY DEF Outcome
    <3>3. ((own /\ now > limit) \/ event.op = "other") <=> ~Chosen(packet, limit, j + 1)
          BY <2>2, <2>5 DEF Chosen, Events, Timestamps, NoStamp
    <3> HIDE DEF out, own
    <3> QED BY <3>1, <3>2, <3>3
  <2>8. SelectedOf(packet, start, limit, j + 1) =
           SelectedOf(packet, start, limit, j)
              \cup (IF Chosen(packet, limit, j + 1)
                 THEN {Outcome(packet, start, j + 1)} ELSE {})
    <3>1. 1 .. j + 1 = (1 .. j) \cup {j + 1}
          OBVIOUS
    <3> QED BY <3>1 DEF SelectedOf
  <2>9. ToSet(more.events) = SelectedOf(packet, start, limit, j + 1)
    <3>1. /\ state.events \in Seq(SelectedEvents)
          /\ ToSet(state.events) = SelectedOf(packet, start, limit, j)
          BY <2>1 DEF Done
    <3>2. CASE Chosen(packet, limit, j + 1)
      <4>1. Outcome(packet, start, j + 1) \in SelectedEvents
        <5>1. now \in Int
              BY <2>4, <2>6
        <5>2. Relative(now, start) \in Nat
              BY <5>1, RelativeType
        <5> QED BY <2>2, <5>2 DEF Outcome, Events, SelectedEvents
      <4>2. ToSet(Append(state.events, Outcome(packet, start, j + 1)))
               = ToSet(state.events) \cup {Outcome(packet, start, j + 1)}
            BY <3>1, <4>1, ToSetAppend
      <4> QED BY <2>7, <2>8, <3>1, <3>2, <4>2
    <3>3. CASE ~Chosen(packet, limit, j + 1)
          BY <2>7, <2>8, <3>1, <3>3
    <3> QED BY <3>2, <3>3
  <2> QED BY <2>3, <2>4, <2>6, <2>9 DEF Done
<1>5. n \in A
  <2> HIDE DEF A
  <2> QED BY <1>1, <1>3, <1>4, Induction
<1>6. Done(n)
      BY <1>5
<1>7. PacketEvents(packet, start, limit) = it[1 .. n].events
      BY <1>2 DEF SelectingSteps
<1> QED BY <1>6, <1>7

-----------------------------------------------------------------------------
(* The events of a trace                                                   *)

\* A set of times has a least one.
LEMMA LeastOfSome ==
    ASSUME NEW D \in SUBSET Nat, D # {}
    PROVE  Min(D) \in D /\ \A y \in D : Min(D) <= y
<1> DEFINE A == {m \in Nat : (\E x \in D : x <= m) => \E x \in D : \A y \in D : x <= y}
<1>1. 0 \in A
      OBVIOUS
<1>2. ASSUME NEW m \in Nat, m \in A
      PROVE  m + 1 \in A
  <2> SUFFICES ASSUME NEW z \in D, z <= m + 1
               PROVE  \E x \in D : \A y \in D : x <= y
      OBVIOUS
  <2>1. CASE \E x \in D : x <= m
        BY <1>2, <2>1
  <2>2. CASE \A x \in D : x > m
    <3>1. z = m + 1 /\ \A y \in D : m + 1 <= y
          BY <2>2
    <3> QED BY <3>1
  <2>3. (\E x \in D : x <= m) \/ (\A x \in D : x > m)
        OBVIOUS
  <2> QED BY <2>1, <2>2, <2>3
<1>3. PICK z \in D : TRUE
      OBVIOUS
<1>4. z \in A
  <2>1. z \in Nat
        OBVIOUS
  <2> HIDE DEF A
  <2> QED BY <1>1, <1>2, <2>1, Induction
<1>5. PICK x \in D : \A y \in D : x <= y
      BY <1>4
<1>6. D \subseteq Int
      OBVIOUS
<1>7. Min(D) = x
      BY <1>5, <1>6, MinIs
<1> QED BY <1>5, <1>7

\* The start of a trace is a time.
LEMMA StartType ==
    ASSUME NEW trace \in Seq(Packets)
    PROVE  GetStartTimestamp(trace) \in Int
<1>1. Stamps(trace) \in SUBSET Nat
  <2> DEFINE All == UNION {{packet.timestamp}
                             \cup {event.timestamp : event \in ToSet(packet.events)}
                           : packet \in ToSet(trace)}
  <2>0. Stamps(trace) = All \ {NoStamp}
        BY DEF Stamps
  <2>1. \A packet \in ToSet(trace) : packet \in Packets
        BY DEF ToSet
  <2>2. \A packet \in Packets : \A event \in ToSet(packet.events) : event \in Events
        BY DEF ToSet, Packets
  <2>3. \A packet \in Packets : packet.timestamp \in Timestamps
        BY DEF Packets
  <2>4. \A event \in Events : event.timestamp \in Timestamps
        BY DEF Events
  <2>5. ASSUME NEW x \in Stamps(trace) PROVE x \in Nat
    <3>1. x # NoStamp /\ x \in All
      <4> HIDE DEF All
      <4> QED BY <2>0
    <3>2. PICK packet \in ToSet(trace) :
             x \in {packet.timestamp} \cup {event.timestamp : event \in ToSet(packet.events)}
          BY <3>1
    <3>3. x \in Timestamps
          BY <2>1, <2>2, <2>3, <2>4, <3>2
    <3> QED BY <3>1, <3>3 DEF Timestamps
  <2> QED BY <2>5
<1>2. Stamps(trace) # {} => Min(Stamps(trace)) \in Stamps(trace)
      BY <1>1, LeastOfSome
<1>3. CASE Stamps(trace) # {}
      BY <1>1, <1>2, <1>3 DEF GetStartTimestamp
<1>4. CASE Stamps(trace) = {}
      BY <1>4 DEF GetStartTimestamp, NoStamp
<1> QED BY <1>3, <1>4

\* The events of a trace, from its packets.
LEMMA TraceSelected ==
    ASSUME NEW trace \in Seq(Packets), NEW limit \in Nat
    PROVE  /\ SelectPageCacheFtraceEvents(trace, limit) \in Seq(SelectedEvents)
           /\ ToSet(SelectPageCacheFtraceEvents(trace, limit))
                 = UNION {SelectedOf(trace[p], GetStartTimestamp(trace), limit,
                    Len(trace[p].events))
                          : p \in DOMAIN trace}
<1> DEFINE start == GetStartTimestamp(trace)
           seqs == [p \in DOMAIN trace |-> PacketEvents(trace[p], start, limit)]
<1>1. start \in Int
      BY StartType
<1>2. \A p \in DOMAIN trace : trace[p] \in Packets
      OBVIOUS
<1> HIDE DEF start
<1>3. \A p \in DOMAIN trace :
         /\ PacketEvents(trace[p], start, limit) \in Seq(SelectedEvents)
         /\ ToSet(PacketEvents(trace[p], start, limit))
               = SelectedOf(trace[p], start, limit, Len(trace[p].events))
      BY <1>1, <1>2, PacketSelected
<1>4. seqs \in Seq(Seq(SelectedEvents))
      BY <1>3
<1>5. /\ FlattenSeq(seqs) \in Seq(SelectedEvents)
      /\ ToSet(FlattenSeq(seqs)) = UNION {ToSet(seqs[p]) : p \in DOMAIN seqs}
  <2> HIDE DEF seqs
  <2> QED BY <1>4, Flattened
<1>6. UNION {ToSet(seqs[p]) : p \in DOMAIN seqs}
         = UNION {SelectedOf(trace[p], start, limit, Len(trace[p].events)) : p \in DOMAIN trace}
      BY <1>3
<1>7. SelectPageCacheFtraceEvents(trace, limit) = FlattenSeq(seqs)
      BY DEF SelectPageCacheFtraceEvents, start
<1> QED BY <1>5, <1>6, <1>7 DEF start

\* Events of files, from events of inodes.
Named(inode_map, blacklist, event) ==
    event.inode \in DOMAIN inode_map /\ inode_map[event.inode] \notin blacklist
OfFile(inode_map, event) ==
    [file |-> inode_map[event.inode], time |-> event.time, add |-> event.add,
     index |-> event.index]

\* What is resolved of a sequence of events, event by event.
LEMMA Resolved ==
    ASSUME NEW events \in Seq(SelectedEvents), NEW blacklist,
           NEW inode_map, \A i \in DOMAIN inode_map : inode_map[i] \in Nat
    PROVE  /\ Resolve(events, inode_map, blacklist) \in Seq(ResolvedEvents)
           /\ ToSet(Resolve(events, inode_map, blacklist)) =
                 {OfFile(inode_map, e) :
                    e \in {e \in ToSet(events) : Named(inode_map, blacklist, e)}}
<1> DEFINE n == Len(events)
           Out(j) == {OfFile(inode_map, events[i]) :
                        i \in {i \in 1 .. j : Named(inode_map, blacklist, events[i])}}
<1>1. n \in Nat /\ DOMAIN events = 1 .. n /\ \A j \in 1 .. n : events[j] \in SelectedEvents
      OBVIOUS
<1>2. PICK it : ResolvingSteps(it, events, inode_map, blacklist)
      BY ResolvingIsFold
<1> DEFINE Done(j) == it[1 .. j] \in Seq(ResolvedEvents) /\ ToSet(it[1 .. j]) = Out(j)
           A == {j \in Nat : j <= n => Done(j)}
<1>3. 0 \in A
  <2>1. it[1 .. 0] = <<>>
        BY <1>2 DEF ResolvingSteps
  <2>2. ToSet(<<>>) = {} /\ Out(0) = {}
        BY DEF ToSet
  <2>3. <<>> \in Seq(ResolvedEvents)
        OBVIOUS
  <2>4. Done(0)
        BY <2>1, <2>2, <2>3
  <2> QED BY <2>4
<1>4. ASSUME NEW j \in Nat, j \in A
      PROVE  j + 1 \in A
  <2> SUFFICES ASSUME j + 1 <= n
               PROVE  Done(j + 1)
      OBVIOUS
  <2> DEFINE event == events[j + 1]
             out == OfFile(inode_map, event)
  <2>1. Done(j) /\ j + 1 \in 1 .. n
        BY <1>1, <1>4
  <2>2. it[1 .. j + 1] = ResolveEvent(it[1 .. j], event, inode_map, blacklist)
    <3>1. \A i \in 1 .. n :
             it[1 .. i] = ResolveEvent(it[1 .. i - 1], events[i], inode_map, blacklist)
          BY <1>2 DEF ResolvingSteps
    <3>2. it[1 .. j + 1]
             = ResolveEvent(it[1 .. (j + 1) - 1], events[j + 1], inode_map, blacklist)
          BY <2>1, <3>1
    <3>3. 1 .. (j + 1) - 1 = 1 .. j
          OBVIOUS
    <3> QED BY <3>2, <3>3
  <2>3. it[1 .. j] \in Seq(ResolvedEvents) /\ event \in SelectedEvents
        BY <1>1, <2>1
  <2>4. it[1 .. j + 1] \in Seq(ResolvedEvents)
        BY <2>2, <2>3, ResolveType
  <2>5. 1 .. j + 1 = (1 .. j) \cup {j + 1}
        OBVIOUS
  <2>6. CASE Named(inode_map, blacklist, event)
    <3>1. it[1 .. j + 1] = Append(it[1 .. j], out)
          BY <2>2, <2>6 DEF ResolveEvent, Named, OfFile
    <3>2. out \in ResolvedEvents
          BY <2>3, <2>6 DEF Named, OfFile, SelectedEvents, ResolvedEvents
    <3>3. ToSet(it[1 .. j + 1]) = ToSet(it[1 .. j]) \cup {out}
          BY <2>3, <3>1, <3>2, ToSetAppend
    <3>4. Out(j + 1) = Out(j) \cup {out}
          BY <2>5, <2>6
    <3> QED BY <2>1, <2>4, <3>3, <3>4
  <2>7. CASE ~Named(inode_map, blacklist, event)
    <3>1. it[1 .. j + 1] = it[1 .. j]
          BY <2>2, <2>7 DEF ResolveEvent, Named
    <3>2. Out(j + 1) = Out(j)
          BY <2>5, <2>7
    <3> QED BY <2>1, <3>1, <3>2
  <2> QED BY <2>6, <2>7
<1>5. n \in A
  <2> HIDE DEF A
  <2> QED BY <1>1, <1>3, <1>4, Induction
<1>6. Done(n)
      BY <1>5
<1>7. Resolve(events, inode_map, blacklist) = it[1 .. n]
      BY <1>2 DEF ResolvingSteps
<1>8. Out(n) = {OfFile(inode_map, e) :
                  e \in {e \in ToSet(events) : Named(inode_map, blacklist, e)}}
      BY <1>1 DEF ToSet
<1> QED BY <1>6, <1>7, <1>8

-----------------------------------------------------------------------------
(* IgnoreTimestampForOrderingSet                                           *)

OncePerPage(set) ==
    \A x, y \in set : KeyIgnoringTimestamp(x) = KeyIgnoringTimestamp(y) => x = y

\* An insertion keeps one event per page, invents none, and has for the page of
\* every event, old or new, one that is not later: whatever the order in which the
\* traces are merged, the earliest stays.
THEOREM InsertKeepsEarliest ==
    ASSUME NEW set, NEW event, OncePerPage(set),
           \A x \in set \cup {event} : x.time \in Int
    PROVE  /\ InsertEarliest(set, event) \subseteq set \cup {event}
           /\ OncePerPage(InsertEarliest(set, event))
           /\ \A y \in set \cup {event} : \E x \in InsertEarliest(set, event) :
                 /\ KeyIgnoringTimestamp(x) = KeyIgnoringTimestamp(y)
                 /\ x.time <= y.time
<1> DEFINE same == {x \in set : KeyIgnoringTimestamp(x) = KeyIgnoringTimestamp(event)}
<1>1. CASE \E x \in same : x.time <= event.time
  <2>1. InsertEarliest(set, event) = set
        BY <1>1 DEF InsertEarliest
  <2>2. \A y \in set : KeyIgnoringTimestamp(y) = KeyIgnoringTimestamp(y) /\ y.time <= y.time
        OBVIOUS
  <2> QED BY <1>1, <2>1, <2>2
<1>2. CASE ~\E x \in same : x.time <= event.time
  <2>1. InsertEarliest(set, event) = (set \ same) \cup {event}
        BY <1>2 DEF InsertEarliest
  <2>2. OncePerPage((set \ same) \cup {event})
        BY DEF OncePerPage
  <2>3. ASSUME NEW y \in set \cup {event}
        PROVE  \E x \in (set \ same) \cup {event} :
                  /\ KeyIgnoringTimestamp(x) = KeyIgnoringTimestamp(y)
                  /\ x.time <= y.time
    <3>1. CASE y \in same
      <4>1. event.time <= y.time
            BY <1>2, <3>1
      <4> QED BY <3>1, <4>1
    <3>2. CASE y \notin same
          BY <3>2
    <3> QED BY <3>1, <3>2
  <2> QED BY <2>1, <2>2, <2>3
<1> QED BY <1>1, <1>2

\* What a merge makes of a set and a sequence of events.
Keeps(set, all) ==
    /\ set \subseteq all /\ OncePerPage(set) /\ IsFiniteSet(set)
    /\ \A y \in all : \E x \in set :
          KeyIgnoringTimestamp(x) = KeyIgnoringTimestamp(y) /\ x.time <= y.time

\* One insertion.
LEMMA InsertKeeps ==
    ASSUME NEW set, NEW all, NEW event, Keeps(set, all),
           \A x \in all \cup {event} : x.time \in Int
    PROVE  Keeps(InsertEarliest(set, event), all \cup {event})
<1> DEFINE new == InsertEarliest(set, event)
<1>1. /\ new \subseteq set \cup {event} /\ OncePerPage(new)
      /\ \A y \in set \cup {event} : \E x \in new :
            KeyIgnoringTimestamp(x) = KeyIgnoringTimestamp(y) /\ x.time <= y.time
      BY InsertKeepsEarliest DEF Keeps
<1>2. IsFiniteSet(new)
      BY <1>1, FS_AddElement, FS_Subset DEF Keeps
<1> HIDE DEF new
<1>3. ASSUME NEW y \in all \cup {event}
      PROVE  \E x \in new : KeyIgnoringTimestamp(x) = KeyIgnoringTimestamp(y)
                /\ x.time <= y.time
  <2>1. PICK z \in set \cup {event} :
           KeyIgnoringTimestamp(z) = KeyIgnoringTimestamp(y) /\ z.time <= y.time
        BY DEF Keeps
  <2>2. PICK x \in new : KeyIgnoringTimestamp(x) = KeyIgnoringTimestamp(z) /\ x.time <= z.time
        BY <1>1
  <2>3. x.time \in Int /\ y.time \in Int /\ z.time \in Int
        BY <1>1 DEF Keeps
  <2> QED BY <2>1, <2>2, <2>3
<1>4. new \subseteq all \cup {event}
      BY <1>1 DEF Keeps
<1>5. Keeps(new, all \cup {event})
      BY <1>1, <1>2, <1>3, <1>4 DEF Keeps
<1> QED BY <1>5 DEF new

\* All the insertions of an input.
LEMMA Merged ==
    ASSUME NEW set, NEW all \in SUBSET ResolvedEvents, NEW events \in Seq(ResolvedEvents),
           Keeps(set, all)
    PROVE  Keeps(Merge(set, events), all \cup ToSet(events))
<1> DEFINE n == Len(events)
           So(j) == all \cup {events[i] : i \in 1 .. j}
<1>1. n \in Nat /\ DOMAIN events = 1 .. n /\ \A j \in 1 .. n : events[j] \in ResolvedEvents
      OBVIOUS
<1>2. PICK it : MergingSteps(it, set, events)
  <2>1. set \in SUBSET ResolvedEvents
        BY DEF Keeps
  <2> QED BY <2>1, MergingIsFold
<1> DEFINE A == {j \in Nat : j <= n => Keeps(it[1 .. j], So(j))}
<1>3. 0 \in A
  <2>1. it[1 .. 0] = set /\ So(0) = all
        BY <1>2 DEF MergingSteps
  <2> QED BY <2>1
<1>4. ASSUME NEW j \in Nat, j \in A
      PROVE  j + 1 \in A
  <2> SUFFICES ASSUME j + 1 <= n
               PROVE  Keeps(it[1 .. j + 1], So(j + 1))
      OBVIOUS
  <2>1. Keeps(it[1 .. j], So(j)) /\ j + 1 \in 1 .. n
        BY <1>1, <1>4
  <2>2. it[1 .. j + 1] = InsertEarliest(it[1 .. j], events[j + 1])
    <3>1. \A i \in 1 .. n : it[1 .. i] = InsertEarliest(it[1 .. i - 1], events[i])
          BY <1>2 DEF MergingSteps
    <3>2. it[1 .. j + 1] = InsertEarliest(it[1 .. (j + 1) - 1], events[j + 1])
          BY <2>1, <3>1
    <3>3. 1 .. (j + 1) - 1 = 1 .. j
          OBVIOUS
    <3> QED BY <3>2, <3>3
  <2>3. So(j + 1) = So(j) \cup {events[j + 1]}
    <3>1. 1 .. j + 1 = (1 .. j) \cup {j + 1}
          OBVIOUS
    <3> QED BY <3>1
  <2>4. \A x \in So(j) \cup {events[j + 1]} : x.time \in Int
    <3>1. \A x \in ResolvedEvents : x.time \in Int
          BY DEF ResolvedEvents
    <3>2. \A i \in 1 .. j + 1 : events[i] \in ResolvedEvents
          BY <1>1, <2>1
    <3> QED BY <3>1, <3>2
  <2> HIDE DEF So
  <2>5. Keeps(InsertEarliest(it[1 .. j], events[j + 1]), So(j) \cup {events[j + 1]})
        BY <2>1, <2>4, InsertKeeps
  <2> QED BY <2>2, <2>3, <2>5
<1>5. n \in A
  <2> HIDE DEF A
  <2> QED BY <1>1, <1>3, <1>4, Induction
<1>6. Keeps(it[1 .. n], So(n))
      BY <1>1, <1>5
<1>7. Merge(set, events) = it[1 .. n]
      BY <1>2 DEF MergingSteps
<1>8. So(n) = all \cup ToSet(events)
      BY <1>1 DEF ToSet
<1> QED BY <1>6, <1>7, <1>8

-----------------------------------------------------------------------------
(* The order of the events                                                 *)

\* Tuples of four numbers are ordered by the first place where they differ.
LEMMA FirstDifference ==
    ASSUME NEW n \in Nat, NEW s, NEW t, DOMAIN s = 1 .. n,
           \A k \in 1 .. n : s[k] \in Int /\ t[k] \in Int
    PROVE  multiless(s, t) <=> \E k \in 1 .. n : s[k] < t[k]
              /\ \A i \in 1 .. k - 1 : s[i] = t[i]
<1> DEFINE differ == {k \in DOMAIN s : s[k] # t[k]}
<1>1. DOMAIN s = 1 .. n /\ differ \in SUBSET Nat
      OBVIOUS
<1>2. ASSUME multiless(s, t)
      PROVE  \E k \in 1 .. n : s[k] < t[k] /\ \A i \in 1 .. k - 1 : s[i] = t[i]
  <2>1. differ # {} /\ s[Min(differ)] < t[Min(differ)]
        BY <1>2 DEF multiless
  <2>2. Min(differ) \in differ /\ \A y \in differ : Min(differ) <= y
    <3> HIDE DEF differ
    <3> QED BY <1>1, <2>1, LeastOfSome
  <2>3. Min(differ) \in 1 .. n
        BY <1>1, <2>2
  <2>4. \A i \in 1 .. Min(differ) - 1 : s[i] = t[i]
    <3> TAKE i \in 1 .. Min(differ) - 1
    <3>1. i \in 1 .. n /\ ~(Min(differ) <= i)
          BY <2>3
    <3> QED BY <1>1, <2>2, <3>1
  <2> QED BY <2>1, <2>3, <2>4
<1>3. ASSUME NEW k \in 1 .. n, s[k] < t[k], \A i \in 1 .. k - 1 : s[i] = t[i]
      PROVE  multiless(s, t)
  <2>1. k \in differ
        BY <1>3
  <2>2. \A y \in differ : k <= y
        BY <1>3
  <2>3. differ \subseteq Int
        BY <1>1
  <2>4. Min(differ) = k
    <3> HIDE DEF differ
    <3> QED BY <2>1, <2>2, <2>3, MinIs
  <2> QED BY <1>3, <2>1, <2>4 DEF multiless
<1> QED BY <1>2, <1>3

\* The order of the events, spelt out.
Before(a, b) ==
    \/ a.time < b.time
    \/ a.time = b.time /\ a.file < b.file
    \/ a.time = b.time /\ a.file = b.file /\ Number(a.add) < Number(b.add)
    \/ a.time = b.time /\ a.file = b.file /\ Number(a.add) = Number(b.add) /\ a.index < b.index

\* The comparison of the keys is this order.
LEMMA LessIsBefore ==
    ASSUME NEW a \in ResolvedEvents, NEW b \in ResolvedEvents
    PROVE  Less(a, b) <=> Before(a, b)
<1> DEFINE s == SortKey(a)
           t == SortKey(b)
<1>1. /\ s \in [1 .. 4 -> Int] /\ t \in [1 .. 4 -> Int]
      /\ s[1] = a.time /\ s[2] = a.file /\ s[3] = Number(a.add) /\ s[4] = a.index
      /\ t[1] = b.time /\ t[2] = b.file /\ t[3] = Number(b.add) /\ t[4] = b.index
      BY DEF SortKey, ResolvedEvents, Number
<1>2. Less(a, b) <=> multiless(s, t)
      BY DEF Less
<1> HIDE DEF s, t
<1>3. multiless(s, t) <=> \E k \in 1 .. 4 : s[k] < t[k] /\ \A i \in 1 .. k - 1 : s[i] = t[i]
  <2>1. DOMAIN s = 1 .. 4 /\ \A k \in 1 .. 4 : s[k] \in Int /\ t[k] \in Int
        BY <1>1
  <2>2. ASSUME NEW n \in Nat, n = 4
        PROVE  multiless(s, t)
                  <=> \E k \in 1 .. n : s[k] < t[k] /\ \A i \in 1 .. k - 1 : s[i] = t[i]
    <3>1. DOMAIN s = 1 .. n /\ \A k \in 1 .. n : s[k] \in Int /\ t[k] \in Int
          BY <2>1, <2>2
    <3> HIDE <2>2
    <3> QED BY <3>1, FirstDifference
  <2> QED BY <2>2
<1>4. (\E k \in 1 .. 4 : s[k] < t[k] /\ \A i \in 1 .. k - 1 : s[i] = t[i])
         <=> \/ s[1] < t[1]
             \/ s[1] = t[1] /\ s[2] < t[2]
             \/ s[1] = t[1] /\ s[2] = t[2] /\ s[3] < t[3]
             \/ s[1] = t[1] /\ s[2] = t[2] /\ s[3] = t[3] /\ s[4] < t[4]
  <2>1. \A k \in Int : k \in 1 .. 4 <=> k = 1 \/ k = 2 \/ k = 3 \/ k = 4
        OBVIOUS
  <2>2. /\ \A i \in Int : i \in 1 .. 1 - 1 <=> FALSE
        /\ \A i \in Int : i \in 1 .. 2 - 1 <=> i = 1
        /\ \A i \in Int : i \in 1 .. 3 - 1 <=> i = 1 \/ i = 2
        /\ \A i \in Int : i \in 1 .. 4 - 1 <=> i = 1 \/ i = 2 \/ i = 3
        OBVIOUS
  <2> QED BY <2>1, <2>2
<1> QED BY <1>1, <1>2, <1>3, <1>4 DEF Before

\* The events of a set with one event per page are in a total order.
LEMMA TotalOrder ==
    ASSUME NEW set \in SUBSET ResolvedEvents, OncePerPage(set)
    PROVE  /\ \A a \in set : ~Less(a, a)
           /\ \A a, b, c \in set : Less(a, b) /\ Less(b, c) => Less(a, c)
           /\ \A a, b \in set : a = b \/ Less(a, b) \/ Less(b, a)
<1>1. \A a \in set : a.time \in Int /\ a.file \in Int /\ Number(a.add) \in Int
         /\ a.index \in Int
      BY DEF ResolvedEvents, Number
<1>2. \A a, b \in set : Less(a, b) <=> Before(a, b)
      BY LessIsBefore
<1>3. \A a \in set : ~Before(a, a)
      BY <1>1 DEF Before
<1>4. ASSUME NEW a \in set, NEW b \in set, NEW c \in set, Before(a, b), Before(b, c)
      PROVE  Before(a, c)
      BY <1>1, <1>4 DEF Before
<1>5. ASSUME NEW a \in set, NEW b \in set, ~Before(a, b), ~Before(b, a)
      PROVE  a = b
  <2>1. a.file = b.file /\ Number(a.add) = Number(b.add) /\ a.index = b.index
        BY <1>1, <1>5 DEF Before
  <2>2. KeyIgnoringTimestamp(a) = KeyIgnoringTimestamp(b)
        BY <2>1 DEF KeyIgnoringTimestamp
  <2> QED BY <2>2 DEF OncePerPage
<1> QED BY <1>2, <1>3, <1>4, <1>5

Place(set, event) == Cardinality({x \in set : Less(x, event)}) + 1

\* Sorting keeps the events, each once, and puts each before every later one: the
\* places that the smaller events of the merged set leave are all taken.
THEOREM Sorted ==
    ASSUME NEW set \in SUBSET ResolvedEvents, OncePerPage(set), IsFiniteSet(set)
    PROVE  /\ Sort(set) \in Seq(ResolvedEvents)
           /\ ToSet(Sort(set)) = set
           /\ \A j, k \in DOMAIN Sort(set) : j < k => Less(Sort(set)[j], Sort(set)[k])
<1> DEFINE n == Cardinality(set)
           below(e) == {x \in set : Less(x, e)}
           place == [e \in set |-> Place(set, e)]
<1>1. n \in Nat /\ IsFiniteSet(1 .. n) /\ Cardinality(1 .. n) = n
  <2>1. n \in Nat
        BY FS_CardinalityType
  <2>2. 1 \in Int /\ n \in Int
        BY <2>1
  <2> HIDE DEF n
  <2>3. IsFiniteSet(1 .. n) /\ Cardinality(1 .. n) = IF 1 > n THEN 0 ELSE n - 1 + 1
        BY <2>2, FS_Interval
  <2> QED BY <2>1, <2>3
<1>2. \A e \in set : IsFiniteSet(below(e)) /\ Cardinality(below(e)) \in Nat
  <2> TAKE e \in set
  <2>1. below(e) \in SUBSET set
        OBVIOUS
  <2> HIDE DEF below
  <2> QED BY <2>1, FS_Subset, FS_CardinalityType
<1>3. ASSUME NEW e \in set
      PROVE  Place(set, e) \in 1 .. n
  <2>1. below(e) \in SUBSET (set \ {e})
        BY TotalOrder
  <2>2. IsFiniteSet(set \ {e}) /\ Cardinality(set \ {e}) = n - 1
        BY FS_RemoveElement
  <2>3. Cardinality(below(e)) <= n - 1
    <3> HIDE DEF below
    <3> QED BY <2>1, <2>2, FS_Subset
  <2>4. Place(set, e) = Cardinality(below(e)) + 1
        BY DEF Place
  <2> HIDE DEF below, n
  <2> QED BY <1>1, <1>2, <2>3, <2>4
<1>4. ASSUME NEW a \in set, NEW b \in set, Less(a, b)
      PROVE  Place(set, a) < Place(set, b)
  <2>1. below(a) \cup {a} \in SUBSET below(b) /\ a \notin below(a)
        BY <1>4, TotalOrder
  <2>2. Place(set, a) = Cardinality(below(a)) + 1 /\ Place(set, b) = Cardinality(below(b)) + 1
        BY DEF Place
  <2> HIDE DEF below
  <2>3. Cardinality(below(a) \cup {a}) = Cardinality(below(a)) + 1
        BY <1>2, <2>1, FS_AddElement
  <2>4. Cardinality(below(a) \cup {a}) <= Cardinality(below(b))
        BY <1>2, <2>1, FS_Subset
  <2> QED BY <1>2, <2>2, <2>3, <2>4
<1>5. \A a, b \in set : a = b \/ Place(set, a) < Place(set, b) \/ Place(set, b) < Place(set, a)
      BY <1>4, TotalOrder
<1> HIDE DEF n
<1>6. \A a, b \in set : Place(set, a) = Place(set, b) => a = b
      BY <1>3, <1>5
<1>7. \A k \in 1 .. n : \E e \in set : Place(set, e) = k
  <2>1. place \in [set -> 1 .. n] /\ \A a, b \in set : place[a] = place[b] => a = b
        BY <1>3, <1>6
  <2> HIDE DEF place
  <2>2. place \in Injection(set, 1 .. n)
        BY <2>1 DEF Injection, IsInjective
  <2>3. place \in Surjection(set, 1 .. n)
        BY <1>1, <2>2, FS_Injection DEF n
  <2>4. \A k \in 1 .. n : \E e \in set : place[e] = k
        BY <2>3 DEF Surjection
  <2> QED BY <2>4 DEF place
<1>8. Sort(set) = [k \in 1 .. n |-> CHOOSE e \in set : Place(set, e) = k]
      BY DEF Sort, Place, n
<1>9. /\ DOMAIN Sort(set) = 1 .. n
      /\ \A k \in 1 .. n : Sort(set)[k] \in set /\ Place(set, Sort(set)[k]) = k
  <2>1. DOMAIN Sort(set) = 1 .. n
           /\ \A k \in 1 .. n : Sort(set)[k] = CHOOSE e \in set : Place(set, e) = k
        BY <1>8
  <2> QED BY <1>7, <2>1
<1>10. Sort(set) \in Seq(ResolvedEvents)
  <2>1. Sort(set) = [k \in 1 .. n |-> Sort(set)[k]]
        BY <1>8
  <2>2. Sort(set) \in [1 .. n -> ResolvedEvents]
        BY <1>9, <2>1
  <2> QED BY <1>1, <2>2
<1>11. ToSet(Sort(set)) = set
  <2>1. \A e \in set : Sort(set)[Place(set, e)] = e /\ Place(set, e) \in 1 .. n
        BY <1>3, <1>6, <1>9
  <2> QED BY <1>9, <2>1 DEF ToSet
<1>12. ASSUME NEW j \in 1 .. n, NEW k \in 1 .. n, j < k
       PROVE  Less(Sort(set)[j], Sort(set)[k])
  <2>1. ~Less(Sort(set)[k], Sort(set)[j]) /\ Sort(set)[k] # Sort(set)[j]
        BY <1>1, <1>4, <1>9, <1>12
  <2> QED BY <1>9, <2>1, TotalOrder
<1> QED BY <1>9, <1>10, <1>11, <1>12

-----------------------------------------------------------------------------
(* The additions and the names of the trace file                           *)

\* What is kept of a sequence: its additions, in their order.
KeptOf(adds, events, j) ==
    /\ adds \in Seq(ResolvedEvents)
    /\ ToSet(adds) = {e \in {events[i] : i \in 1 .. j} : e.add}
    /\ \A k \in DOMAIN adds : \E b \in 1 .. j : adds[k] = events[b]
    /\ \A h, k \in DOMAIN adds : h < k =>
          \E a, b \in 1 .. j : a < b /\ adds[h] = events[a] /\ adds[k] = events[b]

\* One more event of the sequence.
LEMMA KeptNext ==
    ASSUME NEW events, NEW j \in Nat, events[j + 1] \in ResolvedEvents,
           NEW adds, KeptOf(adds, events, j)
    PROVE  KeptOf(KeepAdded(adds, events[j + 1]), events, j + 1)
<1> DEFINE e == events[j + 1]
           more == Append(adds, e)
<1>1. 1 .. j + 1 = (1 .. j) \cup {j + 1}
      OBVIOUS
<1>2. CASE ~e.add
  <2>1. KeepAdded(adds, e) = adds
        BY <1>2 DEF KeepAdded
  <2>2. {x \in {events[i] : i \in 1 .. j + 1} : x.add}
           = {x \in {events[i] : i \in 1 .. j} : x.add}
        BY <1>1, <1>2
  <2> QED BY <1>1, <2>1, <2>2 DEF KeptOf
<1>3. CASE e.add
  <2>1. KeepAdded(adds, e) = more
        BY <1>3 DEF KeepAdded
  <2>2. adds \in Seq(ResolvedEvents) /\ e \in ResolvedEvents
        BY DEF KeptOf
  <2>3. more \in Seq(ResolvedEvents) /\ ToSet(more) = ToSet(adds) \cup {e}
        BY <2>2, ToSetAppend
  <2>4. {x \in {events[i] : i \in 1 .. j + 1} : x.add}
           = {x \in {events[i] : i \in 1 .. j} : x.add} \cup {e}
        BY <1>1, <1>3
  <2>5. /\ Len(adds) \in Nat /\ DOMAIN adds = 1 .. Len(adds) /\ DOMAIN more = 1 .. Len(adds) + 1
        /\ more[Len(adds) + 1] = e /\ \A k \in 1 .. Len(adds) : more[k] = adds[k]
        BY <2>2
  <2> HIDE DEF more, e
  <2>6. ASSUME NEW k \in DOMAIN more
        PROVE  \E b \in 1 .. j + 1 : more[k] = events[b]
    <3>1. CASE k = Len(adds) + 1
          BY <1>1, <2>5, <3>1 DEF e
    <3>2. CASE k \in DOMAIN adds
          BY <1>1, <2>5, <3>2 DEF KeptOf
    <3> QED BY <2>5, <3>1, <3>2
  <2>7. ASSUME NEW h \in DOMAIN more, NEW k \in DOMAIN more, h < k
        PROVE  \E a, b \in 1 .. j + 1 : a < b /\ more[h] = events[a] /\ more[k] = events[b]
    <3>1. h \in DOMAIN adds /\ more[h] = adds[h]
          BY <2>5, <2>7
    <3>2. CASE k = Len(adds) + 1
      <4>1. PICK a \in 1 .. j : adds[h] = events[a]
            BY <3>1 DEF KeptOf
      <4>2. a < j + 1 /\ a \in 1 .. j + 1 /\ j + 1 \in 1 .. j + 1
            OBVIOUS
      <4> QED BY <2>5, <3>1, <3>2, <4>1, <4>2 DEF e
    <3>3. CASE k \in DOMAIN adds
          BY <1>1, <2>5, <2>7, <3>1, <3>3 DEF KeptOf
    <3> QED BY <2>5, <3>2, <3>3
  <2>8. ToSet(more) = {x \in {events[i] : i \in 1 .. j + 1} : x.add}
        BY <2>3, <2>4 DEF KeptOf
  <2> QED BY <2>1, <2>3, <2>6, <2>7, <2>8 DEF KeptOf, e
<1> QED BY <1>2, <1>3

\* All of them.
LEMMA Kept ==
    ASSUME NEW events \in Seq(ResolvedEvents)
    PROVE  KeptOf(Additions(events), events, Len(events))
<1> DEFINE n == Len(events)
<1>1. n \in Nat /\ \A j \in 1 .. n : events[j] \in ResolvedEvents
      OBVIOUS
<1>2. PICK it : KeepingSteps(it, events)
      BY KeepingIsFold
<1> DEFINE A == {j \in Nat : j <= n => KeptOf(it[1 .. j], events, j)}
<1>3. 0 \in A
  <2>1. it[1 .. 0] = <<>> /\ <<>> \in Seq(ResolvedEvents)
        BY <1>2 DEF KeepingSteps
  <2>2. ToSet(<<>>) = {} /\ 1 .. 0 = {} /\ DOMAIN <<>> = {}
        BY DEF ToSet
  <2>3. KeptOf(<<>>, events, 0)
        BY <2>1, <2>2 DEF KeptOf
  <2> QED BY <2>1, <2>3
<1>4. ASSUME NEW j \in Nat, j \in A
      PROVE  j + 1 \in A
  <2> SUFFICES ASSUME j + 1 <= n
               PROVE  KeptOf(it[1 .. j + 1], events, j + 1)
      OBVIOUS
  <2>1. KeptOf(it[1 .. j], events, j) /\ j + 1 \in 1 .. n
        BY <1>1, <1>4
  <2>2. it[1 .. j + 1] = KeepAdded(it[1 .. j], events[j + 1])
    <3>1. \A i \in 1 .. n : it[1 .. i] = KeepAdded(it[1 .. i - 1], events[i])
          BY <1>2 DEF KeepingSteps
    <3>2. it[1 .. j + 1] = KeepAdded(it[1 .. (j + 1) - 1], events[j + 1])
          BY <2>1, <3>1
    <3>3. 1 .. (j + 1) - 1 = 1 .. j
          OBVIOUS
    <3> QED BY <3>2, <3>3
  <2>3. KeptOf(KeepAdded(it[1 .. j], events[j + 1]), events, j + 1)
        BY <1>1, <2>1, KeptNext
  <2> QED BY <2>2, <2>3
<1>5. n \in A
  <2> HIDE DEF A
  <2> QED BY <1>1, <1>3, <1>4, Induction
<1> QED BY <1>1, <1>2, <1>5 DEF KeepingSteps

\* The names of a sequence's files, each once.
NamesOf(names, events, j) ==
    /\ names \in Seq(Nat)
    /\ ToSet(names) = {e.file : e \in {events[i] : i \in 1 .. j}}
    /\ \A h, k \in DOMAIN names : names[h] = names[k] => h = k

\* One more event of the sequence.
LEMMA NamesNext ==
    ASSUME NEW events, NEW j \in Nat, events[j + 1] \in ResolvedEvents,
           NEW names, NamesOf(names, events, j)
    PROVE  NamesOf(NameOnce(names, events[j + 1]), events, j + 1)
<1> DEFINE file == events[j + 1].file
           more == Append(names, file)
<1>1. {e.file : e \in {events[i] : i \in 1 .. j + 1}}
         = {e.file : e \in {events[i] : i \in 1 .. j}} \cup {file}
  <2>1. 1 .. j + 1 = (1 .. j) \cup {j + 1}
        OBVIOUS
  <2> QED BY <2>1
<1>2. CASE file \in ToSet(names)
  <2>1. NameOnce(names, events[j + 1]) = names
        BY <1>2 DEF NameOnce
  <2> QED BY <1>1, <1>2, <2>1 DEF NamesOf
<1>3. CASE file \notin ToSet(names)
  <2>1. NameOnce(names, events[j + 1]) = more
        BY <1>3 DEF NameOnce
  <2>2. names \in Seq(Nat) /\ file \in Nat
        BY DEF NamesOf, ResolvedEvents
  <2>3. more \in Seq(Nat) /\ ToSet(more) = ToSet(names) \cup {file}
        BY <2>2, ToSetAppend
  <2>4. /\ Len(names) \in Nat /\ DOMAIN names = 1 .. Len(names)
        /\ DOMAIN more = 1 .. Len(names) + 1
        /\ more[Len(names) + 1] = file /\ \A k \in 1 .. Len(names) : more[k] = names[k]
        BY <2>2
  <2> HIDE DEF more, file
  <2>5. \A k \in 1 .. Len(names) : more[k] # file
        BY <1>3, <2>4 DEF ToSet
  <2>6. \A h, k \in DOMAIN more : more[h] = more[k] => h = k
    <3> TAKE h, k \in DOMAIN more
    <3> HAVE more[h] = more[k]
    <3>1. CASE h = Len(names) + 1 \/ k = Len(names) + 1
          BY <2>4, <2>5, <3>1
    <3>2. CASE h \in 1 .. Len(names) /\ k \in 1 .. Len(names)
          BY <2>4, <3>2 DEF NamesOf
    <3> QED BY <2>4, <3>1, <3>2
  <2>7. ToSet(more) = {e.file : e \in {events[i] : i \in 1 .. j + 1}}
        BY <1>1, <2>3 DEF NamesOf
  <2> QED BY <2>1, <2>3, <2>6, <2>7 DEF NamesOf
<1> QED BY <1>2, <1>3

\* All of them.
LEMMA NamesOnce ==
    ASSUME NEW events \in Seq(ResolvedEvents)
    PROVE  NamesOf(FileNames(events), events, Len(events))
<1> DEFINE n == Len(events)
<1>1. n \in Nat /\ \A j \in 1 .. n : events[j] \in ResolvedEvents
      OBVIOUS
<1>2. PICK it : NamingSteps(it, events)
      BY NamingIsFold
<1> DEFINE A == {j \in Nat : j <= n => NamesOf(it[1 .. j], events, j)}
<1>3. 0 \in A
  <2>1. it[1 .. 0] = <<>> /\ <<>> \in Seq(Nat)
        BY <1>2 DEF NamingSteps
  <2>2. ToSet(<<>>) = {} /\ 1 .. 0 = {} /\ DOMAIN <<>> = {}
        BY DEF ToSet
  <2>3. NamesOf(<<>>, events, 0)
        BY <2>1, <2>2 DEF NamesOf
  <2> QED BY <2>1, <2>3
<1>4. ASSUME NEW j \in Nat, j \in A
      PROVE  j + 1 \in A
  <2> SUFFICES ASSUME j + 1 <= n
               PROVE  NamesOf(it[1 .. j + 1], events, j + 1)
      OBVIOUS
  <2>1. NamesOf(it[1 .. j], events, j) /\ j + 1 \in 1 .. n
        BY <1>1, <1>4
  <2>2. it[1 .. j + 1] = NameOnce(it[1 .. j], events[j + 1])
    <3>1. \A i \in 1 .. n : it[1 .. i] = NameOnce(it[1 .. i - 1], events[i])
          BY <1>2 DEF NamingSteps
    <3>2. it[1 .. j + 1] = NameOnce(it[1 .. (j + 1) - 1], events[j + 1])
          BY <2>1, <3>1
    <3>3. 1 .. (j + 1) - 1 = 1 .. j
          OBVIOUS
    <3> QED BY <3>2, <3>3
  <2>3. NamesOf(NameOnce(it[1 .. j], events[j + 1]), events, j + 1)
        BY <1>1, <2>1, NamesNext
  <2> QED BY <2>2, <2>3
<1>5. n \in A
  <2> HIDE DEF A
  <2> QED BY <1>1, <1>3, <1>4, Induction
<1> QED BY <1>1, <1>2, <1>5 DEF NamingSteps

-----------------------------------------------------------------------------
(* The pages of an input                                                   *)

\* An event as a page of the output.
PageOf(event) == [file |-> event.file, index |-> event.index, time |-> event.time]
Added(events) == {e \in events : e.add}

\* What an input gives to the merge.
Fed(k) == ToSet(Resolve(EventsOf(k), InodeMap, command.blacklist))

\* The names of the answers are numbers.
LEMMA MapType ==
    ASSUME answers \subseteq Answers
    PROVE  \A i \in DOMAIN InodeMap : InodeMap[i] \in Nat
<1> DEFINE found == {a \in answers : a.error = ""}
<1>1. \A a \in found : a.name \in Nat
      BY CompilationAssumption
<1>2. InodeMap = [i \in {a.inode : a \in found} |-> (CHOOSE a \in found : a.inode = i).name]
      BY DEF InodeMap, ReduceResolvedInodesToMap
<1> HIDE DEF found
<1>3. \A i \in {a.inode : a \in found} : (CHOOSE a \in found : a.inode = i) \in found
      OBVIOUS
<1> QED BY <1>1, <1>2, <1>3

\* The inputs of a command are sequences of packets.
LEMMA InputType ==
    ASSUME command \in Commands, NEW k \in DOMAIN Traces
    PROVE  Traces[k] \in Seq(Packets) /\ command.limits[k] \in Nat
<1>1. command.limits \in Seq(Nat) /\ Traces \in Seq(Seq(Packets))
         /\ DOMAIN command.limits = DOMAIN Traces
      BY CompilationAssumption DEF Traces
<1> QED BY <1>1

\* What an input gives to the merge is a sequence of events of files.
LEMMA FedType ==
    ASSUME command \in Commands, answers \subseteq Answers, NEW k \in DOMAIN Traces
    PROVE  /\ Resolve(EventsOf(k), InodeMap, command.blacklist) \in Seq(ResolvedEvents)
           /\ EventsOf(k) \in Seq(SelectedEvents)
           /\ Fed(k) = {OfFile(InodeMap, e) : e \in {e \in ToSet(EventsOf(k)) :
                                                        Named(InodeMap, command.blacklist, e)}}
<1>1. EventsOf(k) \in Seq(SelectedEvents)
      BY InputType, TraceSelected DEF EventsOf
<1> QED BY <1>1, MapType, Resolved DEF Fed

\* What the passes over an input leave, the selection of events, the names of their
\* inodes and the blacklist, are exactly the pages that were added in it, with the
\* times and the names that the definition without passes gives them.
THEOREM PagesAreFed ==
    ASSUME command \in Commands, answers \subseteq Answers, NEW k \in DOMAIN Traces
    PROVE  {PageOf(e) : e \in Added(Fed(k))}
              = {p \in PagesOf(k) : p.file \notin command.blacklist}
<1> DEFINE trace == Traces[k]
           limit == command.limits[k]
           start == GetStartTimestamp(trace)
           At(e) == trace[e[1]].events[e[2]]
           places == UNION {{p} \X DOMAIN trace[p].events : p \in DOMAIN trace}
           added == {e \in places : /\ At(e).op = "add" /\ At(e).timestamp <= limit
                                    /\ At(e).inode \in DOMAIN InodeMap}
           Page(e) == [file |-> InodeMap[At(e).inode], index |-> At(e).index,
                       time |-> Relative(StampOf(trace[e[1]], e[2]), start)]
<1>1. trace \in Seq(Packets) /\ limit \in Nat
      BY InputType
<1>2. ASSUME NEW p \in DOMAIN trace
      PROVE  /\ trace[p] \in Packets /\ DOMAIN trace[p].events = 1 .. Len(trace[p].events)
             /\ \A i \in DOMAIN trace[p].events : trace[p].events[i] \in Events
  <2>1. trace[p] \in Packets
        BY <1>1
  <2> QED BY <2>1 DEF Packets
<1>3. PagesOf(k) = {Page(e) : e \in added}
      BY DEF PagesOf
<1>4. ToSet(EventsOf(k)) = UNION {SelectedOf(trace[p], start, limit, Len(trace[p].events))
                                  : p \in DOMAIN trace}
      BY <1>1, TraceSelected DEF EventsOf
<1>5. \A p \in DOMAIN trace : \A i \in DOMAIN trace[p].events : <<p, i>> \in places
      OBVIOUS
<1>6. \A e \in places : /\ e = <<e[1], e[2]>> /\ e[1] \in DOMAIN trace
                        /\ e[2] \in DOMAIN trace[e[1]].events
      OBVIOUS
<1> HIDE DEF trace, limit, start, places
<1>7. ASSUME NEW x \in Added(Fed(k))
      PROVE  PageOf(x) \in PagesOf(k) /\ PageOf(x).file \notin command.blacklist
  <2>1. PICK e \in ToSet(EventsOf(k)) : /\ Named(InodeMap, command.blacklist, e)
                                        /\ x = OfFile(InodeMap, e) /\ x.add
        BY FedType DEF Added
  <2>2. PICK p \in DOMAIN trace : e \in SelectedOf(trace[p], start, limit, Len(trace[p].events))
        BY <1>4
  <2>3. PICK i \in 1 .. Len(trace[p].events) : /\ Chosen(trace[p], limit, i)
                                               /\ e = Outcome(trace[p], start, i)
        BY <2>2 DEF SelectedOf
  <2>4. <<p, i>> \in places /\ At(<<p, i>>) = trace[p].events[i]
           /\ trace[p].events[i] \in Events
        BY <1>2, <1>5
  <2>5. e.add = (trace[p].events[i].op = "add")
        BY <2>3 DEF Outcome
  <2>6. At(<<p, i>>).op = "add" /\ At(<<p, i>>).inode \in DOMAIN InodeMap
        BY <2>1, <2>3, <2>4, <2>5 DEF OfFile, Outcome, Named
  <2>7. At(<<p, i>>).timestamp <= limit
        BY <1>1, <2>3, <2>4 DEF Chosen, NoStamp
  <2>8. PageOf(x) = Page(<<p, i>>)
        BY <2>1, <2>3, <2>4 DEF PageOf, OfFile, Outcome
  <2>9. <<p, i>> \in added
        BY <2>4, <2>6, <2>7
  <2>10. PageOf(x).file \notin command.blacklist
        BY <2>1 DEF PageOf, OfFile, Named
  <2> HIDE DEF Page, added
  <2> QED BY <1>3, <2>8, <2>9, <2>10
<1>8. ASSUME NEW q \in PagesOf(k), q.file \notin command.blacklist
      PROVE  \E x \in Added(Fed(k)) : q = PageOf(x)
  <2>1. PICK c \in added : q = Page(c)
        BY <1>3
  <2> DEFINE p == c[1]
             i == c[2]
             e == Outcome(trace[p], start, i)
             x == OfFile(InodeMap, e)
  <2>2. /\ p \in DOMAIN trace /\ i \in 1 .. Len(trace[p].events)
        /\ At(c) = trace[p].events[i] /\ At(c) \in Events
        BY <1>2, <1>6
  <2>3. Chosen(trace[p], limit, i)
        BY <2>2 DEF Chosen
  <2>4. e \in SelectedOf(trace[p], start, limit, Len(trace[p].events))
        BY <2>2, <2>3 DEF SelectedOf
  <2>5. e \in ToSet(EventsOf(k))
        BY <1>4, <2>2, <2>4
  <2>6. q = PageOf(x) /\ x.add /\ x.file = q.file
        BY <2>1, <2>2 DEF PageOf, OfFile, Outcome
  <2>7. Named(InodeMap, command.blacklist, e)
        BY <1>8, <2>1, <2>2, <2>6 DEF Named, Outcome, OfFile
  <2> HIDE DEF x, e
  <2>8. x \in Fed(k)
        BY FedType, <2>5, <2>7 DEF x
  <2> QED BY <2>6, <2>8 DEF Added
<1> QED BY <1>7, <1>8

\* What the trace file says of a sequence of events.
LEMMA TraceFileIs ==
    ASSUME NEW events \in Seq(ResolvedEvents)
    PROVE  LET t == TraceFile(events)
               adds == Additions(events)
               names == FileNames(adds)
           IN /\ Len(t.index) = Len(names) /\ DOMAIN t.index = 1 .. Len(names)
              /\ \A n \in DOMAIN t.index : t.index[n].id = n - 1
                    /\ t.index[n].file_name = names[n]
              /\ DOMAIN t.list = DOMAIN adds
              /\ \A k \in DOMAIN adds :
                    /\ t.list[k].index_id + 1 \in DOMAIN t.index
                    /\ t.index[t.list[k].index_id + 1].file_name = adds[k].file
                    /\ t.list[k].file_offset \div kPageSize = adds[k].index
<1> DEFINE t == TraceFile(events)
           adds == Additions(events)
           names == FileNames(adds)
           id(file) == (CHOOSE n \in DOMAIN names : names[n] = file) - 1
<1>1. adds \in Seq(ResolvedEvents)
      BY Kept DEF KeptOf
<1>2. NamesOf(names, adds, Len(adds))
  <2> HIDE DEF adds
  <2> QED BY <1>1, NamesOnce
<1>3. names \in Seq(Nat) /\ DOMAIN names = 1 .. Len(names) /\ Len(names) \in Nat
      BY <1>2 DEF NamesOf
<1>4. t = [index |-> [n \in DOMAIN names |-> [id |-> n - 1, file_name |-> names[n]]],
           list |-> [k \in DOMAIN adds |->
                       [index_id |-> id(adds[k].file),
                        file_offset |-> adds[k].index * kPageSize,
                        file_length |-> kPageSize]]]
      BY DEF TraceFile
<1> HIDE DEF t, adds, names
<1>5. ASSUME NEW k \in DOMAIN adds
      PROVE  id(adds[k].file) + 1 \in DOMAIN names /\ names[id(adds[k].file) + 1] = adds[k].file
  <2>1. adds[k].file \in ToSet(names)
    <3>1. k \in 1 .. Len(adds)
          BY <1>1
    <3> QED BY <1>2, <3>1 DEF NamesOf
  <2>2. \E n \in DOMAIN names : names[n] = adds[k].file
        BY <2>1 DEF ToSet
  <2> DEFINE c == CHOOSE n \in DOMAIN names : names[n] = adds[k].file
  <2>3. c \in DOMAIN names /\ names[c] = adds[k].file
        BY <2>2
  <2> HIDE DEF c
  <2>4. c - 1 + 1 = c
        BY <1>3, <2>3
  <2> QED BY <2>3, <2>4 DEF c
<1>6. \A k \in DOMAIN adds : adds[k].index \in Nat
  <2>1. \A k \in DOMAIN adds : adds[k] \in ResolvedEvents
        BY <1>1
  <2> QED BY <2>1 DEF ResolvedEvents
<1>7. \A m \in Nat : (m * kPageSize) \div kPageSize = m
      BY DEF kPageSize
<1> HIDE DEF id
<1>8. /\ DOMAIN t.index = 1 .. Len(names) /\ DOMAIN t.list = DOMAIN adds
      /\ \A n \in DOMAIN t.index : t.index[n].id = n - 1 /\ t.index[n].file_name = names[n]
      /\ \A k \in DOMAIN adds : /\ t.list[k].index_id = id(adds[k].file)
                                /\ t.list[k].file_offset = adds[k].index * kPageSize
      BY <1>3, <1>4
<1>9. Len(t.index) = Len(names)
      BY <1>3, <1>8
<1>10. ASSUME NEW k \in DOMAIN adds
       PROVE  /\ t.list[k].index_id + 1 \in DOMAIN t.index
              /\ t.index[t.list[k].index_id + 1].file_name = adds[k].file
              /\ t.list[k].file_offset \div kPageSize = adds[k].index
       BY <1>3, <1>5, <1>6, <1>7, <1>8
<1> QED BY <1>8, <1>9, <1>10 DEF t, adds, names

-----------------------------------------------------------------------------
(* A merge and the output that is promised                                 *)

AllFed == UNION {Fed(k) : k \in read_again}

\* The same of all the inputs that were read again.
LEMMA PagesOfAllFed ==
    ASSUME command \in Commands, answers \subseteq Answers, read_again \subseteq DOMAIN Traces
    PROVE  Pages = {PageOf(e) : e \in Added(AllFed)}
<1>1. \A k \in read_again :
         {PageOf(e) : e \in Added(Fed(k))}
            = {p \in PagesOf(k) : p.file \notin command.blacklist}
      BY PagesAreFed
<1>2. Pages = UNION {{p \in PagesOf(k) : p.file \notin command.blacklist} : k \in read_again}
      BY DEF Pages
<1>3. Pages = UNION {{PageOf(e) : e \in Added(Fed(k))} : k \in read_again}
      BY <1>1, <1>2
<1> HIDE DEF Pages
<1>4. UNION {{PageOf(e) : e \in Added(Fed(k))} : k \in read_again}
         = {PageOf(e) : e \in Added(AllFed)}
      BY DEF Added, AllFed
<1> QED BY <1>3, <1>4

\* The order of the output, from the order of the sorted events.
LEMMA OrderOfThree ==
    ASSUME NEW a1 \in Int, NEW a2 \in Int, NEW a3 \in Int,
           NEW b1 \in Int, NEW b2 \in Int, NEW b3 \in Int,
           \/ a1 < b1
           \/ a1 = b1 /\ a2 < b2
           \/ a1 = b1 /\ a2 = b2 /\ a3 < b3
    PROVE  multiless(<<a1, a2, a3>>, <<b1, b2, b3>>)
<1> DEFINE s == <<a1, a2, a3>>
           t == <<b1, b2, b3>>
<1>1. /\ s[1] = a1 /\ s[2] = a2 /\ s[3] = a3 /\ DOMAIN s = 1 .. 3
      /\ t[1] = b1 /\ t[2] = b2 /\ t[3] = b3
      OBVIOUS
<1> DEFINE differ == {k \in DOMAIN s : s[k] # t[k]}
<1>2. \A k : k \in differ <=> (k = 1 /\ a1 # b1) \/ (k = 2 /\ a2 # b2) \/ (k = 3 /\ a3 # b3)
      BY <1>1
<1>3. multiless(s, t) <=> differ # {} /\ s[Min(differ)] < t[Min(differ)]
      BY DEF multiless
<1> HIDE DEF s, t, differ
<1>4. differ \subseteq Int
      BY <1>2
<1>5. ASSUME NEW k \in differ, \A y \in differ : k <= y, s[k] < t[k]
      PROVE  multiless(s, t)
      BY <1>3, <1>4, <1>5, MinIs
<1>6. ASSUME a1 < b1
      PROVE  multiless(s, t)
  <2>1. 1 \in differ /\ \A y \in differ : 1 <= y
        BY <1>2, <1>6
  <2> QED BY <1>1, <1>5, <1>6, <2>1
<1>7. ASSUME a1 = b1 /\ a2 < b2
      PROVE  multiless(s, t)
  <2>1. 2 \in differ /\ \A y \in differ : 2 <= y
        BY <1>2, <1>7
  <2> QED BY <1>1, <1>5, <1>7, <2>1
<1>8. ASSUME a1 = b1 /\ a2 = b2 /\ a3 < b3
      PROVE  multiless(s, t)
  <2>1. 3 \in differ /\ \A y \in differ : 3 <= y
        BY <1>2, <1>8
  <2> QED BY <1>1, <1>5, <1>8, <2>1
<1>9. multiless(s, t)
      BY <1>6, <1>7, <1>8
<1> QED BY <1>9 DEF s, t

\* A merge of all that was fed, sorted and numbered, is the output that is promised.
LEMMA MergeGivesOrder ==
    ASSUME command \in Commands, answers \subseteq Answers, read_again \subseteq DOMAIN Traces,
           AllFed \subseteq ResolvedEvents, Keeps(merged, AllFed),
           output.content = TraceFile(Sort(merged))
    PROVE  OutputIsEarliestFirst
<1> DEFINE events == Sort(merged)
           adds == Additions(events)
           names == FileNames(adds)
           index == output.content.index
           entries == output.content.list
           file(k) == index[entries[k].index_id + 1].file_name
           page(k) == entries[k].file_offset \div kPageSize
<1>1. /\ merged \in SUBSET ResolvedEvents /\ OncePerPage(merged) /\ IsFiniteSet(merged)
      /\ merged \subseteq AllFed
      BY DEF Keeps
<1>2. /\ events \in Seq(ResolvedEvents) /\ ToSet(events) = merged
      /\ \A j, k \in DOMAIN events : j < k => Less(events[j], events[k])
      BY <1>1, Sorted
<1>3. DOMAIN events = 1 .. Len(events) /\ \A k \in DOMAIN events : events[k] \in merged
      BY <1>2 DEF ToSet
<1> HIDE DEF events
<1>4. /\ KeptOf(adds, events, Len(events)) /\ adds \in Seq(ResolvedEvents)
      BY <1>2, Kept DEF KeptOf
<1>5. DOMAIN adds = 1 .. Len(adds) /\ Len(adds) \in Nat
      BY <1>4
<1> HIDE DEF adds
<1>6. NamesOf(names, adds, Len(adds))
      BY <1>4, NamesOnce
<1>7. /\ Len(index) = Len(names) /\ DOMAIN index = 1 .. Len(names)
      /\ \A n \in DOMAIN index : index[n].id = n - 1 /\ index[n].file_name = names[n]
      /\ DOMAIN entries = DOMAIN adds
      /\ \A k \in DOMAIN adds : /\ entries[k].index_id + 1 \in DOMAIN index
                                /\ file(k) = adds[k].file /\ page(k) = adds[k].index
      BY <1>2, TraceFileIs DEF adds, events
<1>8. ToSet(adds) = Added(merged)
  <2>1. {events[i] : i \in 1 .. Len(events)} = merged
        BY <1>2, <1>3 DEF ToSet
  <2> QED BY <1>4, <2>1 DEF KeptOf, Added
<1>9. \A k \in DOMAIN adds : adds[k] \in merged /\ adds[k].add
      BY <1>8 DEF ToSet, Added
<1>10. Pages = {PageOf(e) : e \in Added(AllFed)}
       BY PagesOfAllFed
<1>11. ASSUME NEW y \in Added(AllFed)
       PROVE  \E x \in Added(merged) : x.file = y.file /\ x.index = y.index /\ x.time <= y.time
  <2>1. PICK x \in merged : KeyIgnoringTimestamp(x) = KeyIgnoringTimestamp(y)
                /\ x.time <= y.time
        BY DEF Keeps, Added
  <2>2. x \in ResolvedEvents /\ y \in ResolvedEvents /\ y.add
        BY <1>1 DEF Added
  <2>3. x.file = y.file /\ Number(x.add) = Number(y.add) /\ x.index = y.index
        BY <2>1 DEF KeyIgnoringTimestamp
  <2>4. x.add
        BY <2>2, <2>3 DEF Number, ResolvedEvents
  <2> QED BY <2>1, <2>3, <2>4 DEF Added
<1>12. ASSUME NEW x \in Added(merged)
       PROVE  Earliest(x.file, x.index) = x.time
  <2> DEFINE times == {p.time : p \in {q \in Pages : q.file = x.file /\ q.index = x.index}}
  <2>1. x \in Added(AllFed) /\ x \in ResolvedEvents
        BY <1>1 DEF Added
  <2>2. PageOf(x) \in Pages /\ PageOf(x).file = x.file /\ PageOf(x).index = x.index
        /\ PageOf(x).time = x.time
        BY <1>10, <2>1 DEF PageOf
  <2>3. x.time \in times
        BY <2>2
  <2>4. ASSUME NEW time \in times
        PROVE  time \in Int /\ x.time <= time
    <3>1. PICK p \in Pages : p.file = x.file /\ p.index = x.index /\ time = p.time
          OBVIOUS
    <3>2. PICK y \in Added(AllFed) : p = PageOf(y)
          BY <1>10
    <3>3. y.file = x.file /\ y.index = x.index /\ time = y.time /\ y \in ResolvedEvents
          BY <3>1, <3>2 DEF PageOf, Added
    <3>4. PICK z \in Added(merged) : z.file = y.file /\ z.index = y.index /\ z.time <= y.time
          BY <1>11
    <3>5. KeyIgnoringTimestamp(z) = KeyIgnoringTimestamp(x)
          BY <3>3, <3>4 DEF KeyIgnoringTimestamp, Added, Number
    <3>6. z = x
          BY <1>1, <3>5 DEF OncePerPage, Added
    <3> QED BY <3>3, <3>4, <3>6 DEF ResolvedEvents
  <2>5. times \subseteq Int /\ \A time \in times : x.time <= time
        BY <2>4
  <2>6. Earliest(x.file, x.index) = Min(times)
        BY DEF Earliest
  <2> HIDE DEF times
  <2> QED BY <2>3, <2>5, <2>6, MinIs
<1>19. /\ \A p \in Pages : \E e \in Added(AllFed) : p.file = e.file /\ p.index = e.index
       /\ \A e \in Added(AllFed) : \E p \in Pages : p.file = e.file /\ p.index = e.index
  <2>1. \A e : PageOf(e).file = e.file /\ PageOf(e).index = e.index
        BY DEF PageOf
  <2> QED BY <1>10, <2>1
<1>13. \A n \in DOMAIN index : index[n].id = n - 1
       BY <1>7
<1>14. \A k \in DOMAIN entries : entries[k].index_id + 1 \in DOMAIN index
       BY <1>7
<1>15. {index[n].file_name : n \in DOMAIN index} = {p.file : p \in Pages}
  <2>1. {index[n].file_name : n \in DOMAIN index} = ToSet(names)
    <3>1. DOMAIN names = DOMAIN index
          BY <1>6, <1>7 DEF NamesOf
    <3> QED BY <1>7, <3>1 DEF ToSet
  <2>2. {adds[i] : i \in 1 .. Len(adds)} = Added(merged)
        BY <1>5, <1>8 DEF ToSet
  <2>3. ToSet(names) = {e.file : e \in Added(merged)}
        BY <1>6, <2>2 DEF NamesOf
  <2>4. {e.file : e \in Added(merged)} = {e.file : e \in Added(AllFed)}
    <3>1. Added(merged) \subseteq Added(AllFed)
          BY <1>1 DEF Added
    <3> QED BY <1>11, <3>1
  <2>5. {p.file : p \in Pages} = {e.file : e \in Added(AllFed)}
        BY <1>19
  <2> QED BY <2>1, <2>3, <2>4, <2>5
<1>16. Cardinality({p.file : p \in Pages}) = Len(index)
  <2> DEFINE files == {p.file : p \in Pages}
             name == [n \in 1 .. Len(names) |-> names[n]]
  <2>1. Len(names) \in Nat /\ DOMAIN names = 1 .. Len(names)
        BY <1>6 DEF NamesOf
  <2>2. files = {names[n] : n \in 1 .. Len(names)}
    <3>1. \A n \in DOMAIN index : index[n].file_name = names[n]
          BY <1>7
    <3>2. DOMAIN index = 1 .. Len(names)
          BY <1>7
    <3> QED BY <1>15, <3>1, <3>2
  <2>3. \A h, k \in 1 .. Len(names) : names[h] = names[k] => h = k
        BY <1>6, <2>1 DEF NamesOf
  <2> HIDE DEF files
  <2>4. /\ name \in [1 .. Len(names) -> files]
              /\ \A h, k \in 1 .. Len(names) : name[h] = name[k] => h = k
        /\ \A f \in files : \E n \in 1 .. Len(names) : name[n] = f
        BY <2>2, <2>3
  <2> HIDE DEF name
  <2>5. name \in Bijection(1 .. Len(names), files)
        BY <2>4 DEF Bijection, Injection, Surjection, IsInjective
  <2>6. IsFiniteSet(1 .. Len(names)) /\ Cardinality(1 .. Len(names)) = Len(names)
    <3>1. 1 \in Int /\ Len(names) \in Int
          BY <2>1
    <3>2. /\ IsFiniteSet(1 .. Len(names))
          /\ Cardinality(1 .. Len(names)) = IF 1 > Len(names) THEN 0 ELSE Len(names) - 1 + 1
          BY <3>1, FS_Interval
    <3> QED BY <2>1, <3>2
  <2>7. ExistsBijection(1 .. Len(names), files)
        BY <2>5 DEF ExistsBijection
  <2>8. Cardinality(files) = Cardinality(1 .. Len(names))
        BY <2>6, <2>7, FS_Bijection
  <2> QED BY <1>7, <2>6, <2>8 DEF files
<1>17. {<<file(k), page(k)>> : k \in DOMAIN entries} = {<<p.file, p.index>> : p \in Pages}
  <2>1. {<<file(k), page(k)>> : k \in DOMAIN entries}
           = {<<adds[k].file, adds[k].index>> : k \in DOMAIN adds}
        BY <1>7
  <2>2. {<<adds[k].file, adds[k].index>> : k \in DOMAIN adds}
           = {<<e.file, e.index>> : e \in Added(merged)}
        BY <1>8 DEF ToSet
  <2>3. {<<e.file, e.index>> : e \in Added(merged)}
           = {<<e.file, e.index>> : e \in Added(AllFed)}
    <3>1. Added(merged) \subseteq Added(AllFed)
          BY <1>1 DEF Added
    <3> QED BY <1>11, <3>1
  <2>4. {<<p.file, p.index>> : p \in Pages} = {<<e.file, e.index>> : e \in Added(AllFed)}
        BY <1>19
  <2> QED BY <2>1, <2>2, <2>3, <2>4
<1>18. ASSUME NEW j \in DOMAIN entries, NEW k \in DOMAIN entries, j < k
       PROVE  multiless(Order(file(j), page(j)), Order(file(k), page(k)))
  <2> DEFINE a == adds[j]
             b == adds[k]
             s == Order(file(j), page(j))
             t == Order(file(k), page(k))
  <2>1. a \in Added(merged) /\ b \in Added(merged) /\ a \in ResolvedEvents
           /\ b \in ResolvedEvents
        BY <1>1, <1>7, <1>9 DEF Added
  <2>2. file(j) = a.file /\ page(j) = a.index /\ file(k) = b.file /\ page(k) = b.index
        BY <1>7
  <2>3. s = <<a.time, a.file, a.index>> /\ t = <<b.time, b.file, b.index>>
        BY <1>12, <2>1, <2>2 DEF Order
  <2>4. PICK l, m \in DOMAIN events : l < m /\ a = events[l] /\ b = events[m]
    <3>1. j \in DOMAIN adds /\ k \in DOMAIN adds
          BY <1>7
    <3>2. \E l, m \in 1 .. Len(events) : l < m /\ adds[j] = events[l] /\ adds[k] = events[m]
          BY <1>4, <1>18, <3>1 DEF KeptOf
    <3> QED BY <1>3, <3>2
  <2>5. Before(a, b)
        BY <1>2, <2>1, <2>4, LessIsBefore
  <2> HIDE DEF a, b, s, t
  <2>6. a.add /\ b.add
        BY <2>1 DEF Added
  <2>7. Number(a.add) = 1 /\ Number(b.add) = 1
        BY <2>6 DEF Number
  <2>8. /\ a.time \in Int /\ a.file \in Int /\ a.index \in Int
        /\ b.time \in Int /\ b.file \in Int /\ b.index \in Int
        BY <2>1 DEF ResolvedEvents
  <2>9. \/ a.time < b.time
        \/ a.time = b.time /\ a.file < b.file
        \/ a.time = b.time /\ a.file = b.file /\ a.index < b.index
        BY <2>5, <2>7, <2>8 DEF Before
  <2>10. multiless(<<a.time, a.file, a.index>>, <<b.time, b.file, b.index>>)
        BY <2>8, <2>9, OrderOfThree
  <2> QED BY <2>3, <2>10 DEF s, t
<1> QED BY <1>13, <1>14, <1>15, <1>16, <1>17, <1>18 DEF OutputIsEarliestFirst

-----------------------------------------------------------------------------
(* What is known at each stage.                                            *)

InodesOf(k) == DistinctInodes(EventsOf(k))

\* The stages in order, and the resolver's part in them.
StagesInOrder ==
    /\ pc \in {"open", "select", "resolve", "combine", "write", "sync", "done", "aborted"}
    /\ pc \in {"open", "select"} => outcome = "none" /\ read_again = {}
    /\ pc \in {"combine", "write", "sync"} => outcome = "completed"
    /\ pc \in {"open", "select", "resolve", "combine"} /\ Proto => output = Old
    /\ Proto /\ output # Old => outcome = "completed"
    /\ request = "find"
    /\ outcome = "completed" => Resolver!Answered = list

\* The inodes of what the first reading got, and then what is asked for.
NothingNew ==
    /\ command \in Commands /\ readable \subseteq DOMAIN Traces /\ position \in Nat
    /\ selected = UNION {InodesOf(k) : k \in read_first}
    /\ pc = "open" => selected = {} /\ list = {}
    /\ pc \notin {"open", "select"} => list = selected

LEMMA Inputs ==
    ASSUME command \in Commands
    PROVE  DOMAIN Traces = 1 .. Len(Traces) /\ Len(Traces) \in Nat
<1>1. Traces \in Seq(Seq(Packets))
      BY CompilationAssumption DEF Traces
<1> QED BY <1>1

LEMMA InitStages == Init => StagesInOrder /\ NothingNew
<1> SUFFICES ASSUME Init PROVE StagesInOrder /\ NothingNew
    OBVIOUS
<1>1. StagesInOrder
      BY DEF Init, StagesInOrder
<1>2. readable \subseteq DOMAIN Traces
      BY DEF Init, Traces
<1>3. NothingNew
      BY <1>2 DEF Init, NothingNew
<1> QED BY <1>1, <1>3

LEMMA StepStages ==
    ASSUME StagesInOrder, [Next]_vars
    PROVE  StagesInOrder'
<1> USE DEF passVars, diskVars, resolverVars
<1>1. CASE OpenOutput
      BY <1>1 DEF OpenOutput, Return, StagesInOrder, Proto, Resolver!Answered
<1>2. CASE SelectInodes
      BY <1>2 DEF SelectInodes, StagesInOrder, Proto, Resolver!Answered
<1>3. CASE ResolveInodesToFileNames
      BY <1>3 DEF ResolveInodesToFileNames, StagesInOrder, Proto, Resolver!Answered
<1>4. CASE ResolverSteps
  <2>1. /\ pc = "resolve" /\ outcome = "none" /\ UNCHANGED <<command, pc, read_again, output>>
        /\ UNCHANGED <<request, list>>
        BY <1>4 DEF ResolverSteps, Resolver!Next, Resolver!Answer, Resolver!Complete,
                    Resolver!Fail
  <2>2. outcome' = "completed" => Resolver!Answered = list /\ UNCHANGED answers
        BY <1>4, <2>1 DEF ResolverSteps, Resolver!Next, Resolver!Answer, Resolver!Complete,
                          Resolver!Fail, StagesInOrder
  <2> QED BY <2>1, <2>2 DEF StagesInOrder, Proto, Resolver!Answered
<1>5. CASE Combine \/ Terminate \/ ResolvePageCacheEntries
      BY <1>5 DEF Combine, Terminate, ResolvePageCacheEntries, StagesInOrder, Proto,
                  Resolver!Answered
<1>6. CASE EmitText \/ WriteFully
      BY <1>6 DEF EmitText, WriteFully, Return, StagesInOrder, Proto, Resolver!Answered
<1>7. CASE MapAndSerialize \/ Sync
      BY <1>7 DEF MapAndSerialize, Sync, Return, StagesInOrder, Proto, Resolver!Answered
<1>8. CASE Purge
      BY <1>8 DEF Purge, StagesInOrder, Proto, Resolver!Answered
<1>9. CASE UNCHANGED vars
      BY <1>9 DEF vars, StagesInOrder, Proto, Resolver!Answered
<1> QED BY <1>1, <1>2, <1>3, <1>4, <1>5, <1>6, <1>7, <1>8, <1>9 DEF Next, Compile

LEMMA StepNothingNew ==
    ASSUME StagesInOrder, NothingNew, [Next]_vars
    PROVE  NothingNew'
<1> USE DEF passVars, diskVars, resolverVars
<1>0. UNCHANGED command
      BY DEF Next, Compile, OpenOutput, SelectInodes, ResolveInodesToFileNames, ResolverSteps,
             Combine, Terminate, ResolvePageCacheEntries, EmitText, WriteFully, MapAndSerialize,
             Sync, Purge, vars
<1>1. Traces' = Traces /\ \A k : InodesOf(k)' = InodesOf(k)
      BY <1>0 DEF Traces, InodesOf, EventsOf
<1>2. ASSUME UNCHANGED read_first
      PROVE  UNION {InodesOf(k)' : k \in read_first'} = UNION {InodesOf(k) : k \in read_first}
      BY <1>1, <1>2
<1>3. CASE OpenOutput
  <2>1. /\ pc = "open" /\ outcome = "none"
        /\ pc' = "select" \/ pc' = "done"
        /\ UNCHANGED <<readable, position, selected, list, read_first>>
        BY <1>3 DEF OpenOutput, Return, StagesInOrder
  <2> QED BY <1>0, <1>1, <1>2, <2>1 DEF NothingNew
<1>4. CASE SelectInodes
  <2>1. /\ pc = "select" /\ pc' = "select" /\ position' = position + 1
        /\ UNCHANGED <<readable, list>>
        /\ \/ /\ selected' = selected \cup InodesOf(position)
              /\ read_first' = read_first \cup {position}
           \/ UNCHANGED <<selected, read_first>>
        BY <1>4 DEF SelectInodes, Dropped, InodesOf
  <2>2. selected' = UNION {InodesOf(k)' : k \in read_first'}
    <3>1. CASE UNCHANGED <<selected, read_first>>
          BY <1>2, <3>1 DEF NothingNew
    <3>2. CASE /\ selected' = selected \cup InodesOf(position)
               /\ read_first' = read_first \cup {position}
          BY <1>1, <3>2 DEF NothingNew
    <3> QED BY <2>1, <3>1, <3>2
  <2> QED BY <1>0, <1>1, <2>1, <2>2 DEF NothingNew
<1>5. CASE ResolveInodesToFileNames
  <2>1. /\ pc' = "resolve" /\ list' = selected
        /\ UNCHANGED <<readable, position, selected, read_first>>
        BY <1>5 DEF ResolveInodesToFileNames
  <2> QED BY <1>0, <1>1, <1>2, <2>1 DEF NothingNew
<1>6. CASE ResolverSteps
  <2>1. UNCHANGED <<pc, readable, position, selected, list, read_first>>
        BY <1>6 DEF ResolverSteps, Resolver!Next, Resolver!Answer, Resolver!Complete,
                    Resolver!Fail
  <2> QED BY <1>0, <1>1, <1>2, <2>1 DEF NothingNew
<1>7. CASE Combine \/ Terminate
  <2>1. /\ pc = "resolve" /\ pc' \in {"combine", "aborted"} /\ position' \in Nat
        /\ UNCHANGED <<readable, selected, list, read_first>>
        BY <1>7 DEF Combine, Terminate, NothingNew
  <2> QED BY <1>0, <1>1, <1>2, <2>1 DEF NothingNew
<1>8. CASE ResolvePageCacheEntries
  <2>1. /\ pc = "combine" /\ pc' = "combine" /\ position' = position + 1
        /\ UNCHANGED <<readable, selected, list, read_first>>
        BY <1>8 DEF ResolvePageCacheEntries
  <2> QED BY <1>0, <1>1, <1>2, <2>1 DEF NothingNew
<1>9. CASE EmitText \/ WriteFully \/ MapAndSerialize \/ Sync
  <2>1. /\ pc \in {"combine", "write", "sync"}
        /\ pc' \in {"write", "sync", "done", "aborted"}
        /\ UNCHANGED <<readable, position, selected, list, read_first>>
        BY <1>9 DEF EmitText, WriteFully, MapAndSerialize, Sync, Return
  <2> QED BY <1>0, <1>1, <1>2, <2>1 DEF NothingNew
<1>10. CASE Purge
  <2>1. /\ readable' \subseteq readable
        /\ UNCHANGED <<pc, position, selected, list, read_first>>
        BY <1>10 DEF Purge
  <2> QED BY <1>0, <1>1, <1>2, <2>1 DEF NothingNew
<1>11. CASE UNCHANGED vars
      BY <1>0, <1>1, <1>2, <1>11 DEF vars, NothingNew
<1> QED BY <1>3, <1>4, <1>5, <1>6, <1>7, <1>8, <1>9, <1>10, <1>11 DEF Next, Compile

\* As long as no reading drops an input that is there, the inputs that are there now
\* were there when the first reading came to them.
SecondReading ==
    /\ drops \in Nat
    /\ pc = "open" => position = 1
    /\ drops = 0 =>
          /\ pc = "select" => \A k \in readable : k < position => k \in read_first
          /\ pc \notin {"open", "select", "done"} => readable \subseteq read_first
          /\ read_again \subseteq read_first

LEMMA InitSecondReading == Init => SecondReading
BY DEF Init, SecondReading

LEMMA StepSecondReading ==
    ASSUME StagesInOrder, NothingNew, SecondReading, [Next]_vars
    PROVE  SecondReading'
<1> USE DEF passVars, diskVars, resolverVars
<1>0. /\ DOMAIN Traces = 1 .. Len(Traces) /\ Len(Traces) \in Nat
      /\ readable \subseteq DOMAIN Traces /\ position \in Nat
      BY Inputs DEF NothingNew
<1>1. CASE OpenOutput
  <2>1. /\ pc = "open" /\ pc' \in {"select", "done"}
        /\ UNCHANGED <<readable, drops, position, read_first, read_again>>
        BY <1>1 DEF OpenOutput, Return
  <2>2. \A k \in readable : ~(k < position)
        BY <1>0, <2>1 DEF SecondReading
  <2> QED BY <2>1, <2>2 DEF SecondReading
<1>2. CASE SelectInodes
  <2>1. /\ pc = "select" /\ pc' = "select" /\ position' = position + 1
        /\ UNCHANGED <<readable, read_again>> /\ read_again = {}
        /\ \/ position \in readable /\ UNCHANGED drops /\ read_first' = read_first \cup {position}
           \/ position \notin readable /\ UNCHANGED drops /\ UNCHANGED read_first
           \/ drops' = drops + 1
        BY <1>2 DEF SelectInodes, Dropped, StagesInOrder
  <2>2. \A k \in readable : k < position + 1 => k < position \/ k = position
        BY <1>0
  <2>3. drops' \in Nat /\ (drops' = 0 => drops' = drops)
        BY <2>1 DEF SecondReading
  <2> QED BY <2>1, <2>2, <2>3 DEF SecondReading
<1>3. CASE ResolveInodesToFileNames
  <2>1. /\ pc = "select" /\ pc' = "resolve" /\ ~MoreInputs
        /\ UNCHANGED <<readable, drops, position, read_first, read_again>>
        BY <1>3 DEF ResolveInodesToFileNames
  <2>2. \A k \in readable : k < position
        BY <1>0, <2>1 DEF MoreInputs
  <2> QED BY <2>1, <2>2 DEF SecondReading
<1>4. CASE ResolverSteps
  <2>1. pc = "resolve" /\ UNCHANGED <<pc, readable, drops, position, read_first, read_again>>
        BY <1>4 DEF ResolverSteps
  <2> QED BY <2>1 DEF SecondReading
<1>5. CASE Combine \/ Terminate
  <2>1. /\ pc = "resolve" /\ pc' \in {"combine", "aborted"}
        /\ UNCHANGED <<readable, drops, read_first, read_again>>
        BY <1>5 DEF Combine, Terminate
  <2> QED BY <2>1 DEF SecondReading
<1>6. CASE ResolvePageCacheEntries
  <2>1. /\ pc = "combine" /\ pc' = "combine" /\ UNCHANGED <<readable, read_first>>
        /\ \/ /\ position \in readable /\ UNCHANGED drops
              /\ read_again' = read_again \cup {position}
           \/ UNCHANGED <<drops, read_again>>
           \/ drops' = drops + 1
        BY <1>6 DEF ResolvePageCacheEntries, Dropped
  <2>2. drops' \in Nat /\ (drops' = 0 => drops' = drops)
        BY <2>1 DEF SecondReading
  <2> QED BY <2>1, <2>2 DEF SecondReading
<1>7. CASE EmitText \/ WriteFully \/ MapAndSerialize \/ Sync
  <2>1. /\ pc \in {"combine", "write", "sync"}
        /\ pc' \in {"write", "sync", "done", "aborted"}
        /\ UNCHANGED <<readable, drops, read_first, read_again>>
        BY <1>7 DEF EmitText, WriteFully, MapAndSerialize, Sync, Return
  <2> QED BY <2>1 DEF SecondReading
<1>8. CASE Purge
  <2>1. /\ readable' \subseteq readable
        /\ UNCHANGED <<pc, drops, position, read_first, read_again>>
        BY <1>8 DEF Purge
  <2> QED BY <2>1 DEF SecondReading
<1>9. CASE UNCHANGED vars
      BY <1>9 DEF vars, SecondReading
<1> QED BY <1>1, <1>2, <1>3, <1>4, <1>5, <1>6, <1>7, <1>8, <1>9 DEF Next, Compile

\* The trace file is touched only when every inode of the inputs that the first
\* reading got was answered, and without a reading that fails on an input that is
\* there the second reading gets only those, whatever is purged in between.
THEOREM FullAnswer == Spec => []WrittenFromFullAnswer
<1>1. Init => StagesInOrder /\ NothingNew /\ SecondReading
      BY InitStages, InitSecondReading
<1>2. StagesInOrder /\ NothingNew /\ SecondReading /\ [Next]_vars
        => (StagesInOrder /\ NothingNew /\ SecondReading)'
      BY StepStages, StepNothingNew, StepSecondReading
<1>3. StagesInOrder /\ NothingNew /\ SecondReading => WrittenFromFullAnswer
  <2> SUFFICES ASSUME StagesInOrder, NothingNew, SecondReading, Proto, output # Old
               PROVE  WrittenFromFullAnswer
      BY DEF WrittenFromFullAnswer
  <2>1. outcome = "completed" /\ Resolver!Answered = list /\ list = selected
        BY DEF StagesInOrder, NothingNew
  <2>2. selected = UNION {InodesOf(k) : k \in read_first}
        BY DEF NothingNew
  <2>3. drops = 0 => read_again \subseteq read_first
        BY DEF SecondReading
  <2> QED BY <2>1, <2>2, <2>3 DEF WrittenFromFullAnswer, InodesOf
<1> QED BY <1>1, <1>2, <1>3, PTL DEF Spec

-----------------------------------------------------------------------------
(* What the merge holds                                                    *)

MergedInv ==
    /\ answers \subseteq Answers /\ read_again \subseteq DOMAIN Traces
    /\ pc \in {"open", "select", "resolve"} => read_again = {} /\ merged = {}
    /\ Keeps(merged, AllFed)
    /\ output.kind = "trace" => pc \in {"sync", "done"} /\ output.content = Message

\* What an input gives depends on the command and the answers only.
LEMMA FedSame ==
    ASSUME UNCHANGED <<command, answers>>
    PROVE  Traces' = Traces /\ \A k : Fed(k)' = Fed(k)
<1>1. Traces' = Traces /\ \A k : EventsOf(k)' = EventsOf(k)
      BY DEF Traces, EventsOf
<1>2. InodeMap' = InodeMap
      BY DEF InodeMap
<1> QED BY <1>1, <1>2 DEF Fed

\* Before the second reading the merge is empty.
LEMMA NothingFed ==
    ASSUME read_again = {}, merged = {}
    PROVE  Keeps(merged, AllFed)
<1>1. AllFed = {}
      BY DEF AllFed
<1> QED BY <1>1, FS_EmptySet DEF Keeps, OncePerPage

\* All that was fed are events of files.
LEMMA AllFedType ==
    ASSUME command \in Commands, answers \subseteq Answers, read_again \subseteq DOMAIN Traces
    PROVE  AllFed \subseteq ResolvedEvents
<1>1. ASSUME NEW k \in read_again PROVE Fed(k) \subseteq ResolvedEvents
  <2>1. Resolve(EventsOf(k), InodeMap, command.blacklist) \in Seq(ResolvedEvents)
        BY FedType
  <2> QED BY <2>1 DEF Fed, ToSet
<1> QED BY <1>1 DEF AllFed

LEMMA InitMerged == Init => MergedInv
<1> SUFFICES ASSUME Init PROVE MergedInv
    OBVIOUS
<1>1. Keeps(merged, AllFed)
      BY NothingFed DEF Init
<1> QED BY <1>1 DEF Init, MergedInv, Old

LEMMA StepMerged ==
    ASSUME StagesInOrder, NothingNew, MergedInv, [Next]_vars
    PROVE  MergedInv'
<1> USE DEF passVars, diskVars, resolverVars
<1>1. UNCHANGED command
      BY DEF Next, Compile, OpenOutput, SelectInodes, ResolveInodesToFileNames, ResolverSteps,
             Combine, Terminate, ResolvePageCacheEntries, EmitText, WriteFully, MapAndSerialize,
             Sync, Purge, vars
<1>2. DOMAIN Traces = 1 .. Len(Traces) /\ Len(Traces) \in Nat
      BY Inputs DEF NothingNew
<1>3. UNCHANGED answers => Traces' = Traces /\ \A k : Fed(k)' = Fed(k)
      BY <1>1, FedSame
<1>4. ASSUME UNCHANGED <<answers, read_again, merged>>
      PROVE  /\ answers' \subseteq Answers /\ read_again' \subseteq DOMAIN Traces'
             /\ Keeps(merged, AllFed)' /\ Message' = Message
  <2>1. AllFed' = AllFed
        BY <1>3, <1>4 DEF AllFed
  <2>2. Message' = Message
        BY <1>4 DEF Message
  <2> QED BY <1>3, <1>4, <2>1, <2>2 DEF MergedInv, Keeps
<1>5. CASE OpenOutput
  <2>1. /\ pc = "open" /\ pc' \in {"select", "done"}
              /\ UNCHANGED <<answers, read_again, merged>>
        /\ output' = output \/ output'.kind = "empty"
        BY <1>5 DEF OpenOutput, Return
  <2> QED BY <1>4, <2>1 DEF MergedInv
<1>6. CASE SelectInodes \/ ResolveInodesToFileNames
  <2>1. /\ pc = "select" /\ pc' \in {"select", "resolve"}
        /\ UNCHANGED <<answers, read_again, merged, output>>
        BY <1>6 DEF SelectInodes, ResolveInodesToFileNames
  <2> QED BY <1>4, <2>1 DEF MergedInv
<1>7. CASE ResolverSteps
  <2>1. pc = "resolve" /\ UNCHANGED <<pc, read_again, merged, output>>
        BY <1>7 DEF ResolverSteps
  <2>2. answers' \subseteq Answers
        BY <1>7 DEF ResolverSteps, Resolver!Next, Resolver!Answer, Resolver!Complete,
                    Resolver!Fail, MergedInv
  <2>3. Keeps(merged, AllFed)'
    <3>1. read_again' = {} /\ merged' = {}
          BY <2>1 DEF MergedInv
    <3>2. AllFed' = {}
          BY <3>1 DEF AllFed
    <3> QED BY <3>1, <3>2, FS_EmptySet DEF Keeps, OncePerPage
  <2> QED BY <2>1, <2>2, <2>3 DEF MergedInv
<1>8. CASE Combine \/ Terminate
  <2>1. /\ pc = "resolve" /\ pc' \in {"combine", "aborted"}
        /\ UNCHANGED <<answers, read_again, merged, output>>
        BY <1>8 DEF Combine, Terminate
  <2> QED BY <1>4, <2>1 DEF MergedInv
<1>9. CASE ResolvePageCacheEntries
  <2>1. pc = "combine" /\ UNCHANGED <<pc, answers, output>>
        BY <1>9 DEF ResolvePageCacheEntries
  <2>2. CASE UNCHANGED <<merged, read_again>>
        BY <1>4, <2>1, <2>2 DEF MergedInv
  <2> DEFINE events == Resolve(EventsOf(position), InodeMap, command.blacklist)
  <2>3. CASE /\ position \in readable
             /\ merged' = Merge(merged, events) /\ read_again' = read_again \cup {position}
    <3>1. merged' = Merge(merged, events) /\ read_again' = read_again \cup {position}
          BY <2>3
    <3>2. position \in DOMAIN Traces
          BY <2>3 DEF NothingNew
    <3>3. events \in Seq(ResolvedEvents)
          BY <3>2, FedType DEF NothingNew, MergedInv
    <3>4. AllFed \subseteq ResolvedEvents
          BY AllFedType DEF NothingNew, MergedInv
    <3>5. Keeps(Merge(merged, events), AllFed \cup ToSet(events))
          BY <3>3, <3>4, Merged DEF MergedInv
    <3>6. AllFed' = AllFed \cup ToSet(events)
      <4>1. AllFed' = UNION {Fed(k) : k \in read_again \cup {position}}
            BY <1>3, <2>1, <3>1 DEF AllFed
      <4>2. ToSet(events) = Fed(position)
            BY DEF Fed
      <4> HIDE DEF events
      <4> QED BY <4>1, <4>2 DEF AllFed
    <3>7. Keeps(merged, AllFed)'
          BY <3>1, <3>5, <3>6 DEF Keeps
    <3>8. read_again' \subseteq DOMAIN Traces' /\ answers' \subseteq Answers
          BY <1>3, <2>1, <3>1, <3>2 DEF MergedInv
    <3> QED BY <2>1, <3>7, <3>8 DEF MergedInv
  <2> QED BY <1>9, <2>2, <2>3 DEF ResolvePageCacheEntries, Dropped, InodeMap
<1>10. CASE EmitText \/ WriteFully
  <2>1. /\ pc = "combine" /\ UNCHANGED <<answers, read_again, merged>>
        /\ pc' \in {"write", "done"}
        /\ output' = output \/ output'.kind \in {"text", "empty"}
        BY <1>10 DEF EmitText, WriteFully, Return
  <2>2. output.kind # "trace"
        BY <2>1 DEF MergedInv
  <2>3. output'.kind # "trace"
    <3>1. CASE output' = output
          BY <2>2, <3>1
    <3>2. CASE output'.kind \in {"text", "empty"}
          BY <3>2
    <3> QED BY <2>1, <3>1, <3>2
  <2> QED BY <1>4, <2>1, <2>3 DEF MergedInv
<1>11. CASE MapAndSerialize
  <2>1. /\ pc = "write" /\ UNCHANGED <<answers, read_again, merged>>
        /\ \/ output' = output \/ output'.kind = "zeroed"
           \/ pc' = "sync" /\ output'.content = Message
        /\ pc' \in {"sync", "done", "aborted"}
        BY <1>11 DEF MapAndSerialize, Return
  <2>2. /\ answers' \subseteq Answers /\ read_again' \subseteq DOMAIN Traces'
        /\ Keeps(merged, AllFed)' /\ Message' = Message
        BY <1>4, <2>1
  <2>3. output.kind # "trace"
        BY <2>1 DEF MergedInv
  <2>4. output'.kind = "trace" => pc' \in {"sync", "done"} /\ output'.content = Message'
    <3>1. CASE output' = output
          BY <2>3, <3>1
    <3>2. CASE output'.kind = "zeroed"
          BY <3>2
    <3>3. CASE pc' = "sync" /\ output'.content = Message
          BY <2>2, <3>3
    <3> QED BY <2>1, <3>1, <3>2, <3>3
  <2> QED BY <2>1, <2>2, <2>4 DEF MergedInv
<1>12. CASE Sync
  <2>1. pc = "sync" /\ pc' = "done" /\ UNCHANGED <<answers, read_again, merged, output>>
        BY <1>12 DEF Sync, Return
  <2> QED BY <1>4, <2>1 DEF MergedInv
<1>13. CASE Purge \/ UNCHANGED vars
  <2>1. UNCHANGED <<pc, answers, read_again, merged, output>>
        BY <1>13 DEF Purge, vars
  <2> QED BY <1>4, <2>1 DEF MergedInv
<1> QED BY <1>5, <1>6, <1>7, <1>8, <1>9, <1>10, <1>11, <1>12, <1>13 DEF Next, Compile

\* The trace file holds every page that was added in an input the second reading got
\* and whose inode has a name, once, in the order of their earliest times.
THEOREM EarliestFirst == Spec => []OutputIsEarliestFirst
<1> DEFINE Inv == StagesInOrder /\ NothingNew /\ MergedInv
<1>1. Init => Inv
      BY InitStages, InitMerged
<1>2. Inv /\ [Next]_vars => Inv'
      BY StepStages, StepNothingNew, StepMerged
<1>3. Inv => OutputIsEarliestFirst
  <2> SUFFICES ASSUME Inv PROVE OutputIsEarliestFirst
      OBVIOUS
  <2>1. CASE output.kind = "trace"
    <3>1. AllFed \subseteq ResolvedEvents
          BY AllFedType DEF NothingNew, MergedInv
    <3> QED BY <2>1, <3>1, MergeGivesOrder DEF NothingNew, MergedInv, Message
  <2>2. CASE output.kind # "trace"
        BY <2>2 DEF OutputIsEarliestFirst
  <2> QED BY <2>1, <2>2
<1> HIDE DEF Inv
<1> QED BY <1>1, <1>2, <1>3, PTL DEF Spec
=============================================================================
