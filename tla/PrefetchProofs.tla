---------------------------- MODULE PrefetchProofs ----------------------------
(***************************************************************************)
(* IInv of PrefetchInv is an invariant of Prefetch, and with it: commands  *)
(* meet their sessions, nothing outlives its session, and the sessions     *)
(* mirror the tasks.                                                       *)
(*                                                                         *)
(* The proof goes from the sessions of a service, through the commands of  *)
(* a trace file, the order of what is on its way, the descriptors that a   *)
(* read pairs with commands, and the pipe, to a lemma for each action.     *)
(* What the commands of a trace file make of a session then comes from a   *)
(* lemma for each kind of command on a service that holds some sessions,   *)
(* and an induction over the places of the file; and what has arrived,     *)
(* with what is on its way, follows what is promised, action by action.    *)
(***************************************************************************)
EXTENDS PrefetchInv, FiniteSetTheorems, NaturalsInduction, WellFoundedInduction, TLAPS

-----------------------------------------------------------------------------
(* The sessions of a service, one lemma per call *)

\* A process that has just begun has no sessions.
LEMMA NoServiceTidy == Tidy(NoService) /\ DOMAIN NoService.sessions = {}
  BY DEF Tidy, NoService

\* A new session has nothing yet.
LEMMA CreateTidy ==
    ASSUME NEW s, Tidy(s), NEW sid
    PROVE  /\ Tidy(CreateSession(s, sid))
           /\ DOMAIN CreateSession(s, sid).sessions = DOMAIN s.sessions \cup {sid}
           /\ CreateSession(s, sid).leaked = s.leaked
<1>1. CASE sid \in DOMAIN s.sessions
  BY <1>1 DEF CreateSession
<1>2. CASE sid \notin DOMAIN s.sessions
  <2> DEFINE after == Insert(s.sessions, sid, NewSession)
  <2>1. CreateSession(s, sid)
          = [sessions |-> after, open |-> s.open, mapped |-> s.mapped, leaked |-> s.leaked]
    BY <1>2 DEF CreateSession, Tidy
  <2>2. IsSession(NewSession)
    BY DEF IsSession, NewSession
  <2>3. /\ DOMAIN after = DOMAIN s.sessions \cup {sid}
        /\ after[sid] = NewSession
        /\ \A k \in DOMAIN s.sessions : after[k] = s.sessions[k]
        /\ after = [k \in DOMAIN after |-> after[k]]
    BY <1>2 DEF Insert
  <2> HIDE DEF after
  <2> DEFINE t == CreateSession(s, sid)
  <2>4. t.sessions = after /\ t.open = s.open /\ t.mapped = s.mapped /\ t.leaked = s.leaked
    BY <2>1
  <2>5. t = [sessions |-> t.sessions, open |-> t.open, mapped |-> t.mapped,
              leaked |-> t.leaked]
    BY <2>1
  <2> HIDE DEF t
  <2>6. \A k \in DOMAIN after : IsSession(after[k])
    BY <2>2, <2>3 DEF Tidy
  <2>7. /\ \A o \in s.open : o[1] \in DOMAIN after /\ o[2] \in DOMAIN after[o[1]].path_map
        /\ \A m \in s.mapped : m[1] \in DOMAIN after /\ m[2] \in after[m[1]].entries
    BY <2>3 DEF Tidy
  <2>8. Tidy(t) /\ DOMAIN t.sessions = DOMAIN s.sessions \cup {sid} /\ t.leaked = s.leaked
    BY <2>3, <2>4, <2>5, <2>6, <2>7 DEF Tidy
  <2>9. QED
    BY <2>8 DEF t
<1>3. QED
  BY <1>1, <1>2

\* A path is registered in its session, and its descriptor belongs to it.
LEMMA RegisterTidy ==
    ASSUME NEW s, Tidy(s), NEW sid, NEW id, NEW name
    PROVE  /\ Tidy(RegisterFilePath(s, sid, id, name))
           /\ DOMAIN RegisterFilePath(s, sid, id, name).sessions = DOMAIN s.sessions
           /\ s.leaked \subseteq RegisterFilePath(s, sid, id, name).leaked
<1>1. CASE sid \notin DOMAIN s.sessions
  BY <1>1 DEF RegisterFilePath
<1>3. CASE sid \in DOMAIN s.sessions /\ id \in DOMAIN s.sessions[sid].path_map
  <2> DEFINE leaked == s.leaked \cup {o \in {<<sid, id>>} : name \in Existing}
             t == [sessions |-> s.sessions, open |-> s.open, mapped |-> s.mapped,
                   leaked |-> leaked]
  <2>1. RegisterFilePath(s, sid, id, name) = t
    BY <1>3 DEF RegisterFilePath, Tidy
  <2>2. s.leaked \subseteq leaked
    OBVIOUS
  <2> HIDE DEF leaked
  <2>3. Tidy(t)
    BY DEF Tidy
  <2>4. QED
    BY <2>1, <2>2, <2>3
<1>2. CASE sid \in DOMAIN s.sessions /\ id \notin DOMAIN s.sessions[sid].path_map
  <2> DEFINE x == s.sessions[sid]
             paths == Insert(x.path_map, id, name)
             y == [path_map |-> paths, entries |-> x.entries]
             after == [s.sessions EXCEPT ![sid] = y]
             open == s.open \cup {o \in {<<sid, id>>} : name \in Existing}
  <2>1. IsSession(x)
    BY <1>2 DEF Tidy
  <2>2. [x EXCEPT !.path_map = paths] = y
    BY <2>1 DEF IsSession
  <2>3. RegisterFilePath(s, sid, id, name)
          = [sessions |-> after, open |-> open, mapped |-> s.mapped, leaked |-> s.leaked]
    BY <1>2, <2>2 DEF RegisterFilePath, Tidy
  <2>4. /\ DOMAIN paths = DOMAIN x.path_map \cup {id}
        /\ paths = [k \in DOMAIN paths |-> paths[k]]
    BY DEF Insert
  <2>5. IsSession(y) /\ y.entries = x.entries /\ y.path_map = paths
    BY <2>4 DEF IsSession
  <2>6. /\ DOMAIN after = DOMAIN s.sessions
        /\ after[sid] = y
        /\ \A k \in DOMAIN s.sessions : k # sid => after[k] = s.sessions[k]
        /\ after = [k \in DOMAIN after |-> after[k]]
    BY <1>2 DEF Tidy
  <2>7. \A o \in open : o \in s.open \/ (o[1] = sid /\ o[2] = id)
    OBVIOUS
  <2> HIDE DEF after, open, y, paths
  <2>8. \A o \in open : o[1] \in DOMAIN after /\ o[2] \in DOMAIN after[o[1]].path_map
    BY <1>2, <2>4, <2>5, <2>6, <2>7 DEF Tidy
  <2>9. \A m \in s.mapped : m[1] \in DOMAIN after /\ m[2] \in after[m[1]].entries
    BY <2>5, <2>6 DEF Tidy
  <2>10. \A t \in DOMAIN after : IsSession(after[t])
    BY <2>5, <2>6 DEF Tidy
  <2>11. QED
    BY <2>3, <2>6, <2>8, <2>9, <2>10 DEF Tidy
<1>4. QED
  BY <1>1, <1>2, <1>3

\* An entry is read ahead in its session, and its mapping belongs to it.
LEMMA ReadAheadTidy ==
    ASSUME NEW s, Tidy(s), NEW sid, NEW kind, NEW entry
    PROVE  /\ Tidy(ReadAhead(s, sid, kind, entry))
           /\ DOMAIN ReadAhead(s, sid, kind, entry).sessions = DOMAIN s.sessions
           /\ ReadAhead(s, sid, kind, entry).leaked = s.leaked
<1>1. CASE \/ sid \notin DOMAIN s.sessions
           \/ entry.index_id \notin DOMAIN s.sessions[sid].path_map
  BY <1>1 DEF ReadAhead
<1>2. CASE /\ sid \in DOMAIN s.sessions
           /\ entry.index_id \in DOMAIN s.sessions[sid].path_map
  <2> DEFINE x == s.sessions[sid]
             y == [path_map |-> x.path_map, entries |-> x.entries \cup {entry}]
             after == [s.sessions EXCEPT ![sid] = y]
             mapped == s.mapped \cup {m \in {<<sid, entry>>} :
                                        /\ <<sid, entry.index_id>> \in s.open
                                        /\ kind # "kFadvise"}
  <2>1. IsSession(x)
    BY <1>2 DEF Tidy
  <2>2. [x EXCEPT !.entries = x.entries \cup {entry}] = y
    BY <2>1 DEF IsSession
  <2>3. ReadAhead(s, sid, kind, entry)
          = [sessions |-> after, open |-> s.open, mapped |-> mapped, leaked |-> s.leaked]
    BY <1>2, <2>2 DEF ReadAhead, Tidy
  <2>5. /\ IsSession(y) /\ y.path_map = x.path_map /\ y.entries = x.entries \cup {entry}
    BY <2>1 DEF IsSession
  <2>6. /\ DOMAIN after = DOMAIN s.sessions
        /\ after[sid] = y
        /\ \A k \in DOMAIN s.sessions : k # sid => after[k] = s.sessions[k]
        /\ after = [k \in DOMAIN after |-> after[k]]
    BY <1>2 DEF Tidy
  <2>7. \A m \in mapped : m \in s.mapped \/ (m[1] = sid /\ m[2] = entry)
    OBVIOUS
  <2> HIDE DEF after, mapped, y
  <2>8. \A o \in s.open : o[1] \in DOMAIN after /\ o[2] \in DOMAIN after[o[1]].path_map
    BY <2>5, <2>6 DEF Tidy
  <2>9. \A m \in mapped : m[1] \in DOMAIN after /\ m[2] \in after[m[1]].entries
    BY <1>2, <2>5, <2>6, <2>7 DEF Tidy
  <2>10. \A t \in DOMAIN after : IsSession(after[t])
    BY <2>5, <2>6 DEF Tidy
  <2>11. QED
    BY <2>3, <2>6, <2>8, <2>9, <2>10 DEF Tidy
<1>3. QED
  BY <1>1, <1>2

\* With a session goes everything it had: its entries are all of its mappings.
LEMMA DestroyTidy ==
    ASSUME NEW s, Tidy(s), NEW sid \in DOMAIN s.sessions
    PROVE  /\ Tidy(DestroySession(s, sid))
           /\ DOMAIN DestroySession(s, sid).sessions = DOMAIN s.sessions \ {sid}
           /\ DestroySession(s, sid).leaked = s.leaked
<1> DEFINE after == [t \in DOMAIN s.sessions \ {sid} |-> s.sessions[t]]
           open == {o \in s.open : o[1] # sid}
           mapped == {m \in s.mapped : ~(m[1] = sid /\ m[2] \in s.sessions[sid].entries)}
<1>1. DestroySession(s, sid)
        = [sessions |-> after, open |-> open, mapped |-> mapped, leaked |-> s.leaked]
  <2>1. s = [sessions |-> s.sessions, open |-> s.open, mapped |-> s.mapped,
          leaked |-> s.leaked]
    BY DEF Tidy
  <2>2. DestroySession(s, sid)
          = [s EXCEPT !.sessions = after, !.open = open, !.mapped = mapped]
    BY DEF DestroySession
  <2> HIDE DEF after, open, mapped
  <2>3. QED
    BY <2>1, <2>2
<1>2. /\ DOMAIN after = DOMAIN s.sessions \ {sid}
      /\ \A t \in DOMAIN after : after[t] = s.sessions[t]
      /\ after = [t \in DOMAIN after |-> after[t]]
  OBVIOUS
<1>3. \A m \in mapped : m \in s.mapped /\ m[1] # sid
  BY DEF Tidy
<1>4. \A o \in open : o \in s.open /\ o[1] # sid
  OBVIOUS
<1> HIDE DEF after, mapped, open
<1> DEFINE t == DestroySession(s, sid)
<1>5. t.sessions = after /\ t.open = open /\ t.mapped = mapped /\ t.leaked = s.leaked
  BY <1>1
<1>6. t = [sessions |-> t.sessions, open |-> t.open, mapped |-> t.mapped,
           leaked |-> t.leaked]
  BY <1>1
<1> HIDE DEF t
<1>7. \A k \in DOMAIN after : IsSession(after[k])
  BY <1>2 DEF Tidy
<1>8. /\ \A o \in open : o[1] \in DOMAIN after /\ o[2] \in DOMAIN after[o[1]].path_map
      /\ \A m \in mapped : m[1] \in DOMAIN after /\ m[2] \in after[m[1]].entries
  BY <1>2, <1>3, <1>4 DEF Tidy
<1>9. Tidy(t) /\ DOMAIN t.sessions = DOMAIN s.sessions \ {sid} /\ t.leaked = s.leaked
  BY <1>2, <1>5, <1>6, <1>7, <1>8 DEF Tidy
<1>10. QED
  BY <1>9 DEF t

-----------------------------------------------------------------------------
(* Induction, for sets: the theorems of the library take an operator *)

\* A set that has 0 and with each natural the next has all of them.
LEMMA Induction ==
    ASSUME NEW T, 0 \in T, \A n \in Nat : n \in T => n + 1 \in T
    PROVE  Nat \subseteq T
<1> SUFFICES ASSUME Nat \ T # {}
             PROVE  FALSE
  OBVIOUS
<1>1. PICK m \in Nat \ T : \A k \in Nat \ T : ~(<<k, m>> \in OpToRel(<, Nat))
  BY WFMin, NatLessThanWellFounded
<1>2. \A k \in Nat : k < m => k \in T
  BY <1>1 DEF OpToRel
<1>3. m # 0 /\ m - 1 \in Nat /\ m - 1 < m
  OBVIOUS
<1>4. m - 1 \in T
  BY <1>2, <1>3
<1>5. (m - 1) + 1 = m
  OBVIOUS
<1>6. QED
  BY <1>3, <1>4, <1>5

\* The state after each of the calls of ProcessFd is defined by the one before.
LEMMA CallsFold ==
    ASSUME NEW s, NEW calls, Len(calls) \in Nat
    PROVE  /\ AfterCalls(s, calls)[0] = s
           /\ \A n \in 1 .. Len(calls) :
                 AfterCalls(s, calls)[n] = Basic(AfterCalls(s, calls)[n - 1], calls[n])
<1> DEFINE N == Len(calls)
           Defines(f, m) ==
               f = [n \in 0 .. m |-> IF n = 0 THEN s ELSE Basic(f[n - 1], calls[n])]
           Good == {m \in Nat : m <= N => \E f : Defines(f, m)}
<1>1. 0 \in Good
  <2>1. Defines([n \in 0 .. 0 |-> s], 0)
    OBVIOUS
  <2>2. QED
    BY <2>1
<1>2. ASSUME NEW m \in Nat, m \in Good
      PROVE  m + 1 \in Good
  <2>1. SUFFICES ASSUME m + 1 <= N
                 PROVE  \E f : Defines(f, m + 1)
    OBVIOUS
  <2>2. PICK f : Defines(f, m)
    BY <1>2, <2>1
  <2> DEFINE g == [n \in 0 .. m + 1 |-> IF n <= m THEN f[n] ELSE Basic(f[m], calls[m + 1])]
  <2>3. \A n \in 0 .. m : f[n] = IF n = 0 THEN s ELSE Basic(f[n - 1], calls[n])
    BY <2>2
  <2>4. DOMAIN g = 0 .. m + 1 /\ \A n \in 0 .. m : g[n] = f[n]
    OBVIOUS
  <2>5. g[m + 1] = Basic(f[m], calls[m + 1])
    OBVIOUS
  <2>6. g = [n \in 0 .. m + 1 |-> g[n]]
    OBVIOUS
  <2> HIDE DEF g
  <2>7. \A n \in 0 .. m + 1 : g[n] = IF n = 0 THEN s ELSE Basic(g[n - 1], calls[n])
    <3> SUFFICES ASSUME NEW n \in 0 .. m + 1
                 PROVE  g[n] = IF n = 0 THEN s ELSE Basic(g[n - 1], calls[n])
      OBVIOUS
    <3>1. CASE n = m + 1
      <4>1. n - 1 = m /\ n # 0
        BY <3>1
      <4>2. QED
        BY <2>4, <2>5, <3>1, <4>1
    <3>2. CASE n \in 0 .. m
      BY <2>3, <2>4, <3>2
    <3>3. QED
      BY <3>1, <3>2
  <2>8. Defines(g, m + 1)
    BY <2>6, <2>7
  <2>9. QED
    BY <2>8
<1>3. N \in Good
  <2> HIDE DEF Good
  <2>1. Nat \subseteq Good
    BY <1>1, <1>2, Induction
  <2>2. QED
    BY <2>1
<1> DEFINE after == CHOOSE f : Defines(f, N)
<1>4. \E f : Defines(f, N)
  BY <1>3
<1>5. Defines(after, N)
  BY <1>4
<1> HIDE DEF after
<1>6. /\ after[0] = s
      /\ \A n \in 1 .. N : after[n] = Basic(after[n - 1], calls[n])
  BY <1>5
<1>7. QED
  BY <1>6 DEF after, AfterCalls

-----------------------------------------------------------------------------
(* Sequences *)

\* A function on 1 .. n is a sequence.
LEMMA FunctionIsSequence ==
    ASSUME NEW S, NEW n \in Nat, NEW f, f = [i \in 1 .. n |-> f[i]],
           \A i \in 1 .. n : f[i] \in S
    PROVE  f \in Seq(S) /\ Len(f) = n
  OBVIOUS

\* A sequence has finitely many places.
LEMMA FinitelyManyPlaces ==
    ASSUME NEW S, NEW s \in Seq(S)
    PROVE  IsFiniteSet(DOMAIN s)
<1>1. DOMAIN s = 1 .. Len(s) /\ Len(s) \in Int
  OBVIOUS
<1>2. QED
  BY <1>1, FS_Interval

-----------------------------------------------------------------------------
(* The commands of a trace file *)

\* What passes is counted by a natural number.
LEMMA GoodEntries ==
    ASSUME NEW file \in TraceFiles
    PROVE  /\ \E n \in Nat : DOMAIN GoodIndex[file] = 1 .. n
           /\ \E n \in Nat : DOMAIN GoodList[file] = 1 .. n
<1>1. /\ Index[file] \in Seq([id : Int, file_name : STRING])
      /\ List[file] \in Seq([index_id : Int, length : Int, offset : Int])
  BY PrefetchAssumption
<1> DEFINE at == {i \in DOMAIN Index[file] : Index[file][i].id >= 0}
           of == {i \in DOMAIN List[file] : List[file][i].length >= 0 /\ List[file][i].offset >= 0}
<1>2. Cardinality(at) \in Nat
  <2>1. IsFiniteSet(DOMAIN Index[file])
    BY <1>1, FinitelyManyPlaces
  <2>2. at \subseteq DOMAIN Index[file]
    OBVIOUS
  <2> HIDE DEF at
  <2>3. IsFiniteSet(at)
    BY <2>1, <2>2, FS_Subset
  <2>4. QED
    BY <2>3, FS_CardinalityType
<1>3. Cardinality(of) \in Nat
  <2>1. IsFiniteSet(DOMAIN List[file])
    BY <1>1, FinitelyManyPlaces
  <2>2. of \subseteq DOMAIN List[file]
    OBVIOUS
  <2> HIDE DEF of
  <2>3. IsFiniteSet(of)
    BY <2>1, <2>2, FS_Subset
  <2>4. QED
    BY <2>3, FS_CardinalityType
<1>4. DOMAIN GoodIndex[file] = 1 .. Cardinality(at)
  BY DEF GoodIndex, Passing
<1>5. DOMAIN GoodList[file] = 1 .. Cardinality(of)
  BY DEF GoodList, Passing
<1>6. QED
  BY <1>2, <1>3, <1>4, <1>5

\* They register files and read them ahead, in one session.
LEMMA PrefetchingCalls ==
    ASSUME NEW t, NEW file \in TraceFiles, NEW kind
    PROVE  /\ Prefetching(t, file, kind) \in Seq(Range(Prefetching(t, file, kind)))
           /\ \A i \in DOMAIN Prefetching(t, file, kind) :
                 LET c == Prefetching(t, file, kind)[i] IN
                 /\ c.choice \in {"kRegisterFilePath", "kReadAhead"}
                 /\ c.session_id = t
<1> DEFINE r == Registrations(t, file)
           a == ReadAheads(t, file, kind)
           S == {r[i] : i \in DOMAIN r} \cup {a[i] : i \in DOMAIN a}
<1>1. \A i \in DOMAIN r : r[i].choice = "kRegisterFilePath" /\ r[i].session_id = t
  BY DEF Registrations
<1>2. \A i \in DOMAIN a : a[i].choice = "kReadAhead" /\ a[i].session_id = t
  BY DEF ReadAheads
<1>3. PICK m \in Nat : DOMAIN r = 1 .. m
  BY GoodEntries DEF Registrations
<1>4. PICK n \in Nat : DOMAIN a = 1 .. n
  BY GoodEntries DEF ReadAheads
<1>5. r = [i \in 1 .. m |-> r[i]] /\ a = [i \in 1 .. n |-> a[i]]
  BY <1>3, <1>4 DEF Registrations, ReadAheads
<1> HIDE DEF r, a
<1>6. r \in Seq(S) /\ a \in Seq(S)
  <2>1. (\A i \in 1 .. m : r[i] \in S) /\ (\A i \in 1 .. n : a[i] \in S)
    BY <1>3, <1>4
  <2> HIDE DEF S
  <2>2. QED
    BY <1>5, <2>1, FunctionIsSequence
<1>7. \A c \in S : c.choice \in {"kRegisterFilePath", "kReadAhead"} /\ c.session_id = t
  BY <1>1, <1>2
<1> HIDE DEF S
<1> DEFINE p == r \o a
<1>8. p \in Seq(S) /\ DOMAIN p = 1 .. Len(p)
  BY <1>6
<1>9. \A i \in DOMAIN p : p[i] \in S
  BY <1>8
<1>10. Prefetching(t, file, kind) = p
  BY DEF Prefetching, r, a
<1> HIDE DEF p
<1>11. p \in Seq(Range(p))
  BY <1>8 DEF Range
<1>12. QED
  BY <1>7, <1>9, <1>10, <1>11

-----------------------------------------------------------------------------
(* Carrying out a command *)

\* The sessions there are after a command.
After(D, c) ==
    IF Creates(c) THEN D \cup {c.session_id}
    ELSE IF Destroys(c) THEN D \ {c.session_id} ELSE D

\* The same for each command but the one with a descriptor.
LEMMA BasicTidy ==
    ASSUME NEW s, Tidy(s), NEW c, c.choice # "kCreateFdSession"
    PROVE  /\ Tidy(Basic(s, c))
           /\ DOMAIN Basic(s, c).sessions = After(DOMAIN s.sessions, c)
           /\ s.leaked \subseteq Basic(s, c).leaked
<1>1. CASE c.choice = "kCreateSession"
  BY <1>1, CreateTidy DEF Basic, After, Creates
<1>2. CASE c.choice = "kRegisterFilePath"
  BY <1>2, RegisterTidy DEF Basic, After, Creates, Destroys
<1>3. CASE c.choice = "kReadAhead"
  BY <1>3, ReadAheadTidy DEF Basic, After, Creates, Destroys
<1>4. CASE c.choice = "kDestroySession"
  BY <1>4, DestroyTidy DEF Basic, After, Creates, Destroys
<1>5. CASE c.choice \notin {"kCreateSession", "kRegisterFilePath", "kReadAhead",
                            "kDestroySession"}
  BY <1>5 DEF Basic, After, Creates, Destroys
<1>6. QED
  BY <1>1, <1>2, <1>3, <1>4, <1>5

\* The calls for a whole trace file neither begin nor end a session.
LEMMA ProcessFdTidy ==
    ASSUME NEW s, Tidy(s), NEW t, NEW file \in OnDisk
    PROVE  /\ Tidy(ProcessFd(s, t, file))
           /\ DOMAIN ProcessFd(s, t, file).sessions = DOMAIN s.sessions
           /\ s.leaked \subseteq ProcessFd(s, t, file).leaked
<1> DEFINE calls == Prefetching(t, file, "kFadvise")
           after == AfterCalls(s, calls)
<1>1. CASE file = Corrupt
  BY <1>1 DEF ProcessFd
<1>2. CASE file # Corrupt
  <2>1. file \in TraceFiles
    BY <1>2 DEF OnDisk
  <2>2. /\ Len(calls) \in Nat
        /\ \A i \in 1 .. Len(calls) : calls[i].choice \in {"kRegisterFilePath", "kReadAhead"}
    BY <2>1, PrefetchingCalls
  <2>3. /\ after[0] = s
        /\ \A n \in 1 .. Len(calls) : after[n] = Basic(after[n - 1], calls[n])
    BY <2>2, CallsFold
  <2>4. ProcessFd(s, t, file) = after[Len(calls)]
    BY <1>2 DEF ProcessFd
  <2> HIDE DEF after, calls
  <2> DEFINE Same(x) == /\ Tidy(x) /\ DOMAIN x.sessions = DOMAIN s.sessions
                        /\ s.leaked \subseteq x.leaked
             T == {n \in Nat : n <= Len(calls) => Same(after[n])}
  <2>5. 0 \in T
    BY <2>3
  <2>6. ASSUME NEW n \in Nat, n \in T
        PROVE  n + 1 \in T
    <3> SUFFICES ASSUME n + 1 <= Len(calls)
                 PROVE  Same(after[n + 1])
      OBVIOUS
    <3>1. Same(after[n])
      BY <2>2, <2>6
    <3> DEFINE c == calls[n + 1]
    <3>2. n + 1 \in 1 .. Len(calls) /\ (n + 1) - 1 = n
      BY <2>2
    <3>3. after[n + 1] = Basic(after[n], c)
      BY <2>3, <3>2
    <3>4. c.choice \in {"kRegisterFilePath", "kReadAhead"}
      BY <2>2, <3>2
    <3> HIDE DEF c
    <3>5. Tidy(Basic(after[n], c)) /\ after[n].leaked \subseteq Basic(after[n], c).leaked
      BY <3>1, <3>4, BasicTidy
    <3>6. DOMAIN Basic(after[n], c).sessions = DOMAIN after[n].sessions
      BY <3>1, <3>4, BasicTidy DEF After, Creates, Destroys
    <3>7. QED
      BY <3>1, <3>3, <3>5, <3>6
  <2>7. Len(calls) \in T
    <3> HIDE DEF T
    <3>1. QED
      BY <2>2, <2>5, <2>6, Induction
  <2>8. QED
    BY <2>4, <2>7
<1>3. QED
  BY <1>1, <1>2

\* Every command keeps the sessions tidy, creates and ends what it says, and gives
\* nothing back that was leaked.
LEMMA ApplyTidy ==
    ASSUME NEW s, Tidy(s), NEW c, c.choice = "kCreateFdSession" => c.fd \in OnDisk
    PROVE  /\ Tidy(Apply(s, c))
           /\ DOMAIN Apply(s, c).sessions = After(DOMAIN s.sessions, c)
           /\ s.leaked \subseteq Apply(s, c).leaked
<1>1. CASE c.choice # "kCreateFdSession"
  BY <1>1, BasicTidy DEF Apply
<1>2. CASE c.choice = "kCreateFdSession" /\ c.session_id \in DOMAIN s.sessions
  BY <1>2 DEF Apply, After, Creates
<1>3. CASE c.choice = "kCreateFdSession" /\ c.session_id \notin DOMAIN s.sessions
  <2> DEFINE u == CreateSession(s, c.session_id)
  <2>1. /\ Tidy(u) /\ DOMAIN u.sessions = DOMAIN s.sessions \cup {c.session_id}
        /\ u.leaked = s.leaked
    BY CreateTidy
  <2>2. Apply(s, c) = ProcessFd(u, c.session_id, c.fd)
    BY <1>3 DEF Apply
  <2> HIDE DEF u
  <2>3. QED
    BY <1>3, <2>1, <2>2, ProcessFdTidy DEF After, Creates
<1>4. QED
  BY <1>1, <1>2, <1>3

-----------------------------------------------------------------------------
(* What is on its way, when a command is added and when one is carried out *)

\* A command may be sent: to create a session that is not known yet, or for
\* one that is to stay until this command at least.
MayFollow(c, w, D) ==
    \/ c.choice = "kExit"
    \/ Creates(c) /\ Fresh(c.session_id, w, D)
    \/ ~Creates(c) /\ Live(c.session_id, w, D)

\* The places of a sequence of commands that one was added to.
LEMMA AddedPlaces ==
    ASSUME NEW w \in Seq(Commands), NEW c \in Commands
    PROVE  /\ Append(w, c) \in Seq(Commands)
           /\ Len(w) \in Nat
           /\ DOMAIN w = 1 .. Len(w)
           /\ DOMAIN Append(w, c) = DOMAIN w \cup {Len(w) + 1}
           /\ \A i \in DOMAIN w : Append(w, c)[i] = w[i] /\ i < Len(w) + 1
           /\ Append(w, c)[Len(w) + 1] = c
  OBVIOUS

\* What is sent when it may be leaves the whole in order.
LEMMA AddedOrder ==
    ASSUME NEW w \in Seq(Commands), NEW D, NEW c \in Commands, Ordered(w, D),
           MayFollow(c, w, D)
    PROVE  Ordered(Append(w, c), D)
<1> DEFINE u == Append(w, c)
           n == Len(w) + 1
<1>1. /\ DOMAIN u = DOMAIN w \cup {n}
      /\ \A i \in DOMAIN w : u[i] = w[i] /\ i < n /\ i \in Nat
      /\ u[n] = c /\ n \in Nat
  BY AddedPlaces
<1> HIDE DEF u, n
<1>2. \A i, j \in DOMAIN u :
         i < j /\ u[i].choice # "kExit" /\ IsFor(u[j], u[i].session_id)
         => ~Creates(u[j]) /\ ~Destroys(u[i])
  <2> SUFFICES ASSUME NEW i \in DOMAIN u, NEW j \in DOMAIN u, i < j,
                      u[i].choice # "kExit", IsFor(u[j], u[i].session_id)
               PROVE  ~Creates(u[j]) /\ ~Destroys(u[i])
    OBVIOUS
  <2>1. i \in DOMAIN w
    BY <1>1
  <2>2. CASE j \in DOMAIN w
    BY <1>1, <2>1, <2>2 DEF Ordered
  <2>3. CASE j = n
    <3>1. IsFor(w[i], c.session_id) /\ c.choice # "kExit"
      BY <1>1, <2>1, <2>3 DEF IsFor
    <3>2. ~Fresh(c.session_id, w, D)
      BY <2>1, <3>1 DEF Fresh
    <3>3. ~Creates(c) /\ ~Destroys(w[i])
      BY <2>1, <3>1, <3>2 DEF MayFollow, Live
    <3>4. QED
      BY <1>1, <2>1, <2>3, <3>3
  <2>4. QED
    BY <1>1, <2>2, <2>3
<1>3. \A j \in DOMAIN u : Creates(u[j]) => u[j].session_id \notin D
  BY <1>1 DEF Ordered, MayFollow, Fresh, Creates
<1>4. \A j \in DOMAIN u : u[j].choice # "kExit" /\ ~Creates(u[j]) =>
         \/ u[j].session_id \in D
         \/ \E i \in DOMAIN u : i < j /\ Creates(u[i]) /\ u[i].session_id = u[j].session_id
  <2> SUFFICES ASSUME NEW j \in DOMAIN u, u[j].choice # "kExit", ~Creates(u[j]),
                      u[j].session_id \notin D
               PROVE  \E i \in DOMAIN u :
                         i < j /\ Creates(u[i]) /\ u[i].session_id = u[j].session_id
    OBVIOUS
  <2>1. CASE j \in DOMAIN w
    <3>1. PICK i \in DOMAIN w : i < j /\ Creates(w[i]) /\ w[i].session_id = w[j].session_id
      BY <1>1, <2>1 DEF Ordered
    <3>2. QED
      BY <1>1, <2>1, <3>1
  <2>2. CASE j = n
    <3>1. Live(c.session_id, w, D)
      BY <1>1, <2>2 DEF MayFollow
    <3>2. PICK i \in DOMAIN w : Creates(w[i]) /\ w[i].session_id = c.session_id
      BY <1>1, <2>2, <3>1 DEF Live
    <3>3. QED
      BY <1>1, <2>2, <3>2
  <2>3. QED
    BY <1>1, <2>1, <2>2
<1>5. QED
  BY <1>2, <1>3, <1>4 DEF Ordered, u

\* For other tasks nothing changes; for its own it is live unless destroyed.
LEMMA AddedStatus ==
    ASSUME NEW w \in Seq(Commands), NEW D, NEW c \in Commands, NEW t
    PROVE  /\ Fresh(t, w, D) /\ ~IsFor(c, t) => Fresh(t, Append(w, c), D)
           /\ Live(t, w, D) /\ ~(IsFor(c, t) /\ Destroys(c)) => Live(t, Append(w, c), D)
           /\ Creates(c) /\ c.session_id = t /\ Fresh(t, w, D) => Live(t, Append(w, c), D)
<1> DEFINE u == Append(w, c)
           n == Len(w) + 1
<1>1. /\ DOMAIN u = DOMAIN w \cup {n}
      /\ \A i \in DOMAIN w : u[i] = w[i]
      /\ u[n] = c
  BY AddedPlaces
<1> HIDE DEF u, n
<1>2. Fresh(t, w, D) /\ ~IsFor(c, t) => Fresh(t, u, D)
  BY <1>1 DEF Fresh
<1>3. Live(t, w, D) /\ ~(IsFor(c, t) /\ Destroys(c)) => Live(t, u, D)
  BY <1>1 DEF Live
<1>4. Creates(c) /\ c.session_id = t /\ Fresh(t, w, D) => Live(t, u, D)
  BY <1>1 DEF Live, Fresh, Creates, Destroys
<1>5. QED
  BY <1>2, <1>3, <1>4 DEF u

\* The places of what is left when the first command is gone.
LEMMA LeftPlaces ==
    ASSUME NEW w \in Seq(Commands), w # <<>>
    PROVE  /\ Tail(w) \in Seq(Commands)
           /\ Head(w) = w[1] /\ w[1] \in Commands
           /\ 1 \in DOMAIN w
           /\ \A i \in DOMAIN w : i \in Nat /\ (i = 1 \/ (i > 1 /\ i - 1 \in DOMAIN Tail(w)))
           /\ \A i \in DOMAIN Tail(w) : i \in Nat /\ i >= 1 /\ i + 1 \in DOMAIN w
                                          /\ Tail(w)[i] = w[i + 1]
  OBVIOUS

\* The first command meets its session, and what is left is in order.
LEMMA LeftOrder ==
    ASSUME NEW w \in Seq(Commands), NEW D, w # <<>>, Head(w).choice # "kExit", Ordered(w, D)
    PROVE  /\ Ordered(Tail(w), After(D, Head(w)))
           /\ Head(w).session_id \in D <=> ~Creates(Head(w))
<1> DEFINE u == Tail(w)
           c == w[1]
           E == After(D, c)
<1>1. /\ Head(w) = c /\ c.choice # "kExit" /\ 1 \in DOMAIN w
      /\ \A i \in DOMAIN w : i \in Nat /\ (i = 1 \/ (i > 1 /\ i - 1 \in DOMAIN u))
      /\ \A i \in DOMAIN u : i \in Nat /\ i >= 1 /\ i + 1 \in DOMAIN w /\ u[i] = w[i + 1]
  BY LeftPlaces
<1> HIDE DEF u
<1>2. c.session_id \in D <=> ~Creates(c)
  <2>1. ~\E i \in DOMAIN w : i < 1
    BY <1>1
  <2>2. QED
    BY <1>1, <2>1 DEF Ordered
<1>3. \A i, j \in DOMAIN u :
         i < j /\ u[i].choice # "kExit" /\ IsFor(u[j], u[i].session_id)
         => ~Creates(u[j]) /\ ~Destroys(u[i])
  <2> SUFFICES ASSUME NEW i \in DOMAIN u, NEW j \in DOMAIN u, i < j,
                      u[i].choice # "kExit", IsFor(u[j], u[i].session_id)
               PROVE  ~Creates(u[j]) /\ ~Destroys(u[i])
    OBVIOUS
  <2>1. i + 1 \in DOMAIN w /\ j + 1 \in DOMAIN w /\ i + 1 < j + 1
    BY <1>1
  <2>2. u[i] = w[i + 1] /\ u[j] = w[j + 1]
    BY <1>1
  <2>3. QED
    BY <2>1, <2>2 DEF Ordered
\* Nothing after the first command creates its session again.
<1>4. \A j \in DOMAIN u : IsFor(u[j], c.session_id) => ~Creates(u[j]) /\ ~Destroys(c)
  <2> SUFFICES ASSUME NEW j \in DOMAIN u, IsFor(u[j], c.session_id)
               PROVE  ~Creates(u[j]) /\ ~Destroys(c)
    OBVIOUS
  <2>1. j + 1 \in DOMAIN w /\ 1 < j + 1 /\ u[j] = w[j + 1]
    BY <1>1
  <2>2. QED
    BY <1>1, <2>1 DEF Ordered
<1>5. \A j \in DOMAIN u : Creates(u[j]) => u[j].session_id \notin E
  <2> SUFFICES ASSUME NEW j \in DOMAIN u, Creates(u[j])
               PROVE  u[j].session_id \notin E
    OBVIOUS
  <2>1. u[j].session_id \notin D
    BY <1>1 DEF Ordered
  <2>2. u[j].session_id # c.session_id
    BY <1>4 DEF IsFor, Creates
  <2>3. QED
    BY <2>1, <2>2 DEF After
<1>6. \A j \in DOMAIN u : u[j].choice # "kExit" /\ ~Creates(u[j]) =>
         \/ u[j].session_id \in E
         \/ \E i \in DOMAIN u : i < j /\ Creates(u[i]) /\ u[i].session_id = u[j].session_id
  <2> SUFFICES ASSUME NEW j \in DOMAIN u, u[j].choice # "kExit", ~Creates(u[j]),
                      u[j].session_id \notin E
               PROVE  \E i \in DOMAIN u :
                         i < j /\ Creates(u[i]) /\ u[i].session_id = u[j].session_id
    OBVIOUS
  <2>1. j + 1 \in DOMAIN w /\ u[j] = w[j + 1] /\ j \in Nat
    BY <1>1
  <2>2. u[j].session_id \notin D
    <3>1. Destroys(c) => u[j].session_id # c.session_id
      BY <1>4 DEF IsFor
    <3>2. QED
      BY <3>1 DEF After
  <2>3. PICK i \in DOMAIN w : i < j + 1 /\ Creates(w[i]) /\ w[i].session_id = w[j + 1].session_id
    BY <2>1, <2>2 DEF Ordered
  <2>4. i # 1
    <3>1. Creates(c) => c.session_id \in E
      BY DEF After
    <3>2. QED
      BY <2>1, <2>3, <3>1
  <2>5. i - 1 \in DOMAIN u /\ u[i - 1] = w[i] /\ i - 1 < j
    <3>1. i \in Nat /\ i - 1 \in DOMAIN u
      BY <1>1, <2>4
    <3>2. u[i - 1] = w[(i - 1) + 1] /\ (i - 1) + 1 = i
      BY <1>1, <3>1
    <3>3. QED
      BY <2>1, <2>3, <3>1, <3>2
  <2>6. QED
    BY <2>1, <2>3, <2>5
<1>7. Ordered(u, E)
  BY <1>3, <1>5, <1>6 DEF Ordered
<1>8. QED
  BY <1>1, <1>2, <1>7 DEF u

\* Carrying out the first command changes nothing for who waits for it.
LEMMA LeftStatus ==
    ASSUME NEW w \in Seq(Commands), NEW D, w # <<>>, Head(w).choice # "kExit", NEW t
    PROVE  /\ Fresh(t, w, D) => Fresh(t, Tail(w), After(D, Head(w)))
           /\ Live(t, w, D) => Live(t, Tail(w), After(D, Head(w)))
<1> DEFINE u == Tail(w)
           c == w[1]
           E == After(D, c)
<1>1. /\ Head(w) = c /\ c.choice # "kExit" /\ 1 \in DOMAIN w
      /\ \A i \in DOMAIN w : i \in Nat /\ (i = 1 \/ (i > 1 /\ i - 1 \in DOMAIN u))
      /\ \A i \in DOMAIN u : i \in Nat /\ i >= 1 /\ i + 1 \in DOMAIN w /\ u[i] = w[i + 1]
  BY LeftPlaces
<1> HIDE DEF u
<1>2. Fresh(t, w, D) => Fresh(t, u, E)
  BY <1>1 DEF Fresh, After, IsFor
<1>3. ASSUME Live(t, w, D)
      PROVE  Live(t, u, E)
  <2>1. \A j \in DOMAIN u : IsFor(u[j], t) => ~Destroys(u[j])
    BY <1>1, <1>3 DEF Live
  <2>2. t \in D => t \in E
    BY <1>1, <1>3 DEF Live, After, IsFor
  <2>3. ASSUME NEW j \in DOMAIN w, Creates(w[j]), w[j].session_id = t
        PROVE  t \in E \/ \E i \in DOMAIN u : Creates(u[i]) /\ u[i].session_id = t
    <3>1. CASE j = 1
      BY <2>3, <3>1 DEF After
    <3>2. CASE j # 1
      <4>1. j \in Nat /\ j - 1 \in DOMAIN u
        BY <1>1, <3>2
      <4>2. u[j - 1] = w[(j - 1) + 1] /\ (j - 1) + 1 = j
        BY <1>1, <4>1
      <4>3. QED
        BY <2>3, <4>1, <4>2
    <3>3. QED
      BY <3>1, <3>2
  <2>4. QED
    BY <1>3, <2>1, <2>2, <2>3 DEF Live
<1>4. QED
  BY <1>1, <1>2, <1>3 DEF u

-----------------------------------------------------------------------------
(* Counting the descriptors of a part of the stream *)

Carriers(s) == {i \in DOMAIN s : CarriesFd(s[i])}
CarriersTo(s, n) == {i \in Carriers(s) : i <= n}
Rank(s, n) == Cardinality(CarriersTo(s, n))

\* The places before n that carry a descriptor are finitely many.
LEMMA CarriersFinite ==
    ASSUME NEW s \in Seq(Chunks), NEW n \in Nat
    PROVE  /\ IsFiniteSet(Carriers(s)) /\ Cardinality(Carriers(s)) \in Nat
           /\ IsFiniteSet(CarriersTo(s, n)) /\ Rank(s, n) \in Nat
           /\ Rank(s, n) <= Cardinality(Carriers(s))
<1>1. IsFiniteSet(DOMAIN s)
  BY FinitelyManyPlaces
<1>2. IsFiniteSet(Carriers(s))
  <2>1. Carriers(s) \subseteq DOMAIN s
    BY DEF Carriers
  <2>2. QED
    BY <1>1, <2>1, FS_Subset
<1>3. /\ IsFiniteSet(CarriersTo(s, n))
      /\ Cardinality(CarriersTo(s, n)) <= Cardinality(Carriers(s))
  <2>1. CarriersTo(s, n) \subseteq Carriers(s)
    BY DEF CarriersTo
  <2>2. QED
    BY <1>2, <2>1, FS_Subset
<1>4. QED
  BY <1>2, <1>3, FS_CardinalityType DEF Rank

\* A place that carries a descriptor is counted, any other is not.
LEMMA RankNext ==
    ASSUME NEW s \in Seq(Chunks), NEW n \in Nat
    PROVE  Rank(s, n + 1) = IF n + 1 \in Carriers(s) THEN Rank(s, n) + 1 ELSE Rank(s, n)
<1>1. IsFiniteSet(CarriersTo(s, n)) /\ n + 1 \notin CarriersTo(s, n)
  BY CarriersFinite DEF CarriersTo
<1>2. \A i \in Carriers(s) : i \in Nat
  BY DEF Carriers
<1>3. CASE n + 1 \in Carriers(s)
  <2>1. CarriersTo(s, n + 1) = CarriersTo(s, n) \cup {n + 1}
    BY <1>2, <1>3 DEF CarriersTo
  <2>2. QED
    BY <1>1, <1>3, <2>1, FS_AddElement DEF Rank
<1>4. CASE n + 1 \notin Carriers(s)
  <2>1. CarriersTo(s, n + 1) = CarriersTo(s, n)
    BY <1>2, <1>4 DEF CarriersTo
  <2>2. QED
    BY <1>4, <2>1 DEF Rank
<1>5. QED
  BY <1>3, <1>4

\* Nothing is counted before the first place.
LEMMA RankZero ==
    ASSUME NEW s \in Seq(Chunks)
    PROVE  Rank(s, 0) = 0
<1>1. CarriersTo(s, 0) = {}
  BY DEF CarriersTo, Carriers
<1>2. QED
  BY <1>1, FS_EmptySet DEF Rank

\* All are counted at the last place.
LEMMA RankAll ==
    ASSUME NEW s \in Seq(Chunks)
    PROVE  Rank(s, Len(s)) = Cardinality(Carriers(s))
<1>1. CarriersTo(s, Len(s)) = Carriers(s)
  BY DEF CarriersTo, Carriers
<1>2. QED
  BY <1>1 DEF Rank

\* A later place that carries a descriptor has a greater rank.
LEMMA RankGrows ==
    ASSUME NEW s \in Seq(Chunks), NEW m \in Nat, NEW n \in Carriers(s), m < n
    PROVE  Rank(s, m) < Rank(s, n)
<1>1. n \in Nat /\ n - 1 \in Nat /\ m <= n - 1 /\ (n - 1) + 1 = n
  BY DEF Carriers
<1>2. Rank(s, m) <= Rank(s, n - 1)
  <2>1. CarriersTo(s, m) \subseteq CarriersTo(s, n - 1)
    BY <1>1 DEF CarriersTo, Carriers
  <2>2. IsFiniteSet(CarriersTo(s, n - 1))
    BY <1>1, CarriersFinite
  <2>3. QED
    BY <2>1, <2>2, FS_Subset DEF Rank
<1>3. Rank(s, n) = Rank(s, n - 1) + 1
  BY <1>1, RankNext
<1>4. Rank(s, m) \in Nat /\ Rank(s, n - 1) \in Nat
  BY <1>1, CarriersFinite
<1>5. QED
  BY <1>2, <1>3, <1>4

\* The descriptor of a place is at its rank.
LEMMA FdsProperties ==
    ASSUME NEW s \in Seq(Chunks)
    PROVE  /\ Fds(s) \in Seq(Range(Fds(s)))
           /\ Len(Fds(s)) = Cardinality(Carriers(s))
           /\ \A i \in Carriers(s) :
                 /\ Rank(s, i) \in 1 .. Cardinality(Carriers(s))
                 /\ Fds(s)[Rank(s, i)] = s[i].command.fd
<1> DEFINE N == Cardinality(Carriers(s))
           Nth(k) == CHOOSE i \in Carriers(s) : Rank(s, i) = k
<1>1. N \in Nat
  BY CarriersFinite
<1>2. Fds(s) = [k \in 1 .. N |-> s[Nth(k)].command.fd]
  BY DEF Fds, Passing, Rank, CarriersTo, Carriers
<1>3. Fds(s) \in Seq(Range(Fds(s))) /\ Len(Fds(s)) = N
  <2> DEFINE f == Fds(s)
  <2>1. f = [k \in 1 .. N |-> f[k]] /\ \A k \in 1 .. N : f[k] \in Range(f)
    BY <1>2 DEF Range
  <2> HIDE DEF f, N
  <2>2. f \in Seq(Range(f)) /\ Len(f) = N
    BY <1>1, <2>1, FunctionIsSequence
  <2>3. QED
    BY <2>2 DEF f
<1>4. ASSUME NEW i \in Carriers(s)
      PROVE  Rank(s, i) \in 1 .. N /\ Nth(Rank(s, i)) = i
  <2>1. i \in Nat /\ i > 0
    BY DEF Carriers
  <2>2. Rank(s, i) \in Nat /\ Rank(s, i) <= N
    BY <2>1, CarriersFinite
  <2>3. Rank(s, i) > 0
    BY <2>1, <2>2, RankGrows, RankZero
  <2>4. \A j \in Carriers(s) : Rank(s, j) = Rank(s, i) => j = i
    <3> SUFFICES ASSUME NEW j \in Carriers(s), Rank(s, j) = Rank(s, i)
                 PROVE  j = i
      OBVIOUS
    <3>1. j \in Nat /\ Rank(s, j) \in Nat
      BY <2>2 DEF Carriers
    <3>2. ~(i < j) /\ ~(j < i)
      BY <2>1, <2>2, <3>1, RankGrows
    <3>3. QED
      BY <2>1, <3>1, <3>2
  <2>5. Nth(Rank(s, i)) = i
    BY <2>4
  <2>6. Rank(s, i) \in 1 .. N
    <3> DEFINE r == Rank(s, i)
    <3>1. r \in Nat /\ r > 0 /\ r <= N
      BY <2>2, <2>3
    <3> HIDE DEF N, r
    <3>2. r \in 1 .. N
      BY <1>1, <3>1
    <3>3. QED
      BY <3>2 DEF r
  <2>7. QED
    BY <2>5, <2>6
<1>5. \A i \in Carriers(s) : Rank(s, i) \in 1 .. N
  BY <1>4
<1>6. ASSUME NEW i \in Carriers(s)
      PROVE  Fds(s)[Rank(s, i)] = s[i].command.fd
  <2>1. Rank(s, i) \in 1 .. N /\ Nth(Rank(s, i)) = i
    BY <1>4
  <2> HIDE DEF N, Nth
  <2>2. Fds(s)[Rank(s, i)] = s[Nth(Rank(s, i))].command.fd
    BY <1>2, <2>1
  <2>3. QED
    BY <2>1, <2>2
<1>7. QED
  BY <1>3, <1>5, <1>6

\* The ranks of a part that follows another go on from there.
LEMMA RankConcat ==
    ASSUME NEW l \in Seq(Chunks), NEW p \in Seq(Chunks), NEW n \in Nat
    PROVE  Rank(l \o p, Len(l) + n) = Cardinality(Carriers(l)) + Rank(p, n)
<1> DEFINE b == Len(l)
           s == l \o p
           T == {i \in Nat : Rank(s, b + i) = Cardinality(Carriers(l)) + Rank(p, i)}
<1>1. /\ s \in Seq(Chunks) /\ b \in Nat
      /\ DOMAIN s = 1 .. b + Len(p) /\ DOMAIN l = 1 .. b /\ DOMAIN p = 1 .. Len(p)
      /\ \A i \in 1 .. b : s[i] = l[i]
      /\ \A i \in 1 .. Len(p) : s[b + i] = p[i]
  OBVIOUS
<1> HIDE DEF s, b
<1>2. Cardinality(Carriers(l)) \in Nat /\ \A i \in Nat : Rank(p, i) \in Nat
  BY CarriersFinite
<1>3. 0 \in T
  <2>1. CarriersTo(s, b) = Carriers(l)
    BY <1>1 DEF CarriersTo, Carriers
  <2>2. Rank(s, b + 0) = Cardinality(Carriers(l))
    BY <1>1, <2>1 DEF Rank
  <2>3. QED
    BY <1>2, <2>2, RankZero
<1>4. ASSUME NEW i \in Nat, i \in T
      PROVE  i + 1 \in T
  <2> DEFINE m == b + i
  <2>1. m \in Nat /\ m + 1 = b + (i + 1)
    BY <1>1
  <2>2. m + 1 \in Carriers(s) <=> i + 1 \in Carriers(p)
    <3>1. b + (i + 1) \in DOMAIN s <=> i + 1 \in DOMAIN p
      BY <1>1
    <3>2. i + 1 \in DOMAIN p => s[b + (i + 1)] = p[i + 1]
      BY <1>1
    <3>3. QED
      BY <2>1, <3>1, <3>2 DEF Carriers
  <2>3. Rank(s, m) = Cardinality(Carriers(l)) + Rank(p, i)
    BY <1>4
  <2> HIDE DEF m, T
  <2>4. Rank(s, m + 1) = IF m + 1 \in Carriers(s) THEN Rank(s, m) + 1 ELSE Rank(s, m)
    BY <1>1, <2>1, RankNext
  <2>5. Rank(p, i + 1) = IF i + 1 \in Carriers(p) THEN Rank(p, i) + 1 ELSE Rank(p, i)
    BY RankNext
  <2>6. Rank(p, i) \in Nat
    BY <1>2
  <2>7. Rank(s, m + 1) = Cardinality(Carriers(l)) + Rank(p, i + 1)
    <3> DEFINE x == Rank(s, m + 1)
               y == Rank(s, m)
               u == Rank(p, i + 1)
               v == Rank(p, i)
               q == Cardinality(Carriers(l))
    <3>1. y = q + v /\ q \in Nat /\ v \in Nat
      BY <1>2, <2>3, <2>6
    <3>2. CASE m + 1 \in Carriers(s)
      <4>1. x = y + 1 /\ u = v + 1
        BY <2>2, <2>4, <2>5, <3>2
      <4> HIDE DEF x, y, u, v, q
      <4>2. x = q + u
        BY <3>1, <4>1
      <4>3. QED
        BY <4>2 DEF x, u, q
    <3>3. CASE m + 1 \notin Carriers(s)
      BY <2>2, <2>4, <2>5, <3>1, <3>3
    <3>4. QED
      BY <3>2, <3>3
  <2>8. QED
    BY <2>1, <2>7 DEF T
<1>5. Nat \subseteq T
  <2> HIDE DEF T
  <2>1. QED
    BY <1>3, <1>4, Induction
<1>6. QED
  BY <1>5 DEF s, b

\* The halves of the commands of s follow each other.
Halved(s) ==
    \A i \in Nat : 2 * i + 1 \in DOMAIN s =>
        /\ s[2 * i + 1].half = 1
        /\ 2 * i + 2 \in DOMAIN s => /\ s[2 * i + 2].half = 2
                                     /\ s[2 * i + 2].command = s[2 * i + 1].command

\* The descriptors that whole commands need are those that came with them.
LEMMA NeededByWhole ==
    ASSUME NEW s \in Seq(Chunks), Halved(s), NEW m \in Nat, 2 * m <= Len(s)
    PROVE  FdsNeeded(s, m) = Rank(s, 2 * m)
<1> DEFINE Needing(n) == {j \in 1 .. n : RequiresFd(s[2 * j].command)}
           T == {n \in Nat : 2 * n <= Len(s) => FdsNeeded(s, n) = Rank(s, 2 * n)}
<1>1. \A n \in Nat : FdsNeeded(s, n) = Cardinality(Needing(n)) /\ IsFiniteSet(Needing(n))
  <2> SUFFICES ASSUME NEW n \in Nat
               PROVE  FdsNeeded(s, n) = Cardinality(Needing(n)) /\ IsFiniteSet(Needing(n))
    OBVIOUS
  <2>1. IsFiniteSet(1 .. n)
    BY FS_Interval
  <2>2. Needing(n) \subseteq 1 .. n
    OBVIOUS
  <2>3. FdsNeeded(s, n) = Cardinality(Needing(n))
    BY DEF FdsNeeded
  <2> HIDE DEF Needing
  <2>4. QED
    BY <2>1, <2>2, <2>3, FS_Subset
<1>2. 0 \in T
  <2>1. Needing(0) = {}
    OBVIOUS
  <2>2. FdsNeeded(s, 0) = 0
    BY <1>1, <2>1, FS_EmptySet
  <2>3. QED
    BY <2>2, RankZero
<1>3. ASSUME NEW n \in Nat, n \in T
      PROVE  n + 1 \in T
  <2> SUFFICES ASSUME 2 * (n + 1) <= Len(s)
               PROVE  FdsNeeded(s, n + 1) = Rank(s, 2 * (n + 1))
    OBVIOUS
  <2>1. /\ 2 * n + 1 \in DOMAIN s /\ 2 * n + 2 \in DOMAIN s
        /\ 2 * (n + 1) = 2 * n + 2 /\ (2 * n + 1) + 1 = 2 * n + 2
        /\ 2 * n <= Len(s) /\ 2 * n \in Nat /\ 2 * n + 1 \in Nat
    OBVIOUS
  <2>2. /\ s[2 * n + 1].half = 1 /\ s[2 * n + 2].half = 2
        /\ s[2 * n + 2].command = s[2 * n + 1].command
    BY <2>1 DEF Halved
  <2>3. /\ 2 * n + 1 \in Carriers(s) <=> RequiresFd(s[2 * (n + 1)].command)
        /\ 2 * n + 2 \notin Carriers(s)
    BY <2>1, <2>2 DEF Carriers, CarriesFd
  <2>4. Rank(s, 2 * (n + 1)) = IF RequiresFd(s[2 * (n + 1)].command) THEN Rank(s, 2 * n) + 1
                               ELSE Rank(s, 2 * n)
    <3>1. Rank(s, (2 * n + 1) + 1) = Rank(s, 2 * n + 1)
      BY <2>1, <2>3, RankNext
    <3>2. Rank(s, 2 * n + 1) = IF 2 * n + 1 \in Carriers(s) THEN Rank(s, 2 * n) + 1
                               ELSE Rank(s, 2 * n)
      BY <2>1, RankNext
    <3>3. QED
      BY <2>1, <2>3, <3>1, <3>2
  <2>5. FdsNeeded(s, n) = Rank(s, 2 * n)
    BY <1>3, <2>1
  <2>6. n + 1 \notin Needing(n) /\ IsFiniteSet(Needing(n))
    BY <1>1
  <2>7. CASE RequiresFd(s[2 * (n + 1)].command)
    <3>1. Needing(n + 1) = Needing(n) \cup {n + 1}
      BY <2>7
    <3> HIDE DEF Needing
    <3>2. Cardinality(Needing(n + 1)) = Cardinality(Needing(n)) + 1
      BY <2>6, <3>1, FS_AddElement
    <3>3. QED
      BY <1>1, <2>4, <2>5, <2>7, <3>2
  <2>8. CASE ~RequiresFd(s[2 * (n + 1)].command)
    <3>1. Needing(n + 1) = Needing(n)
      BY <2>8
    <3> HIDE DEF Needing
    <3>2. QED
      BY <1>1, <2>4, <2>5, <2>8, <3>1
  <2>9. QED
    BY <2>7, <2>8
<1>4. Nat \subseteq T
  <2> HIDE DEF T
  <2>1. QED
    BY <1>2, <1>3, Induction
<1>5. QED
  BY <1>4

-----------------------------------------------------------------------------
(* A read of the child *)

\* What was read of a stream of whole commands is in order too.
LEMMA PrefixHalved ==
    ASSUME NEW s \in Seq(Chunks), Paired(s), NEW b \in Seq(Chunks), Len(b) <= Len(s),
           \A i \in DOMAIN b : b[i] = s[i]
    PROVE  Halved(b)
<1> SUFFICES ASSUME NEW i \in Nat, 2 * i + 1 \in DOMAIN b
             PROVE  /\ b[2 * i + 1].half = 1
                    /\ 2 * i + 2 \in DOMAIN b => /\ b[2 * i + 2].half = 2
                                                 /\ b[2 * i + 2].command = b[2 * i + 1].command
  BY DEF Halved
<1> DEFINE k == 2 * i + 1
<1>1. k % 2 = 1 /\ k \in DOMAIN s /\ k + 1 = 2 * i + 2
  OBVIOUS
<1>2. s[k].half = 1 /\ s[k + 1].half = 2 /\ s[k + 1].command = s[k].command
  <2> HIDE DEF k
  <2>1. QED
    BY <1>1 DEF Paired
<1>3. b[k] = s[k] /\ (k + 1 \in DOMAIN b => b[k + 1] = s[k + 1])
  OBVIOUS
<1>4. QED
  BY <1>1, <1>2, <1>3

\* The places of one sequence after another.
LEMMA ConcatPlaces ==
    ASSUME NEW S, NEW k \in Seq(S), NEW f \in Seq(S)
    PROVE  /\ k \o f \in Seq(S) /\ Len(k \o f) = Len(k) + Len(f)
           /\ \A i \in 1 .. Len(k) : (k \o f)[i] = k[i]
           /\ \A i \in 1 .. Len(f) : (k \o f)[Len(k) + i] = f[i]
  OBVIOUS

\* The descriptor kept and those just read are the ones of the buffer.
LEMMA FdsOfRead ==
    ASSUME NEW l \in Seq(Chunks), Len(l) <= 1, NEW p \in Seq(Chunks)
    PROVE  LET fds == KeptFds(l) \o Fds(p) IN
           /\ \E S : fds \in Seq(S)
           /\ Len(fds) = Cardinality(Carriers(l \o p))
           /\ \A i \in Carriers(l \o p) : fds[Rank(l \o p, i)] = (l \o p)[i].command.fd
<1> DEFINE s == l \o p
           k == KeptFds(l)
           f == Fds(p)
           fds == k \o f
           S == Range(f) \cup {l[1].command.fd}
           m == Cardinality(Carriers(l))
<1>1. /\ s \in Seq(Chunks) /\ Len(l) \in Nat /\ Len(p) \in Nat
      /\ Len(s) = Len(l) + Len(p)
      /\ \A i \in DOMAIN l : s[i] = l[i]
      /\ \A i \in DOMAIN p : s[Len(l) + i] = p[i]
  OBVIOUS
<1>2. f \in Seq(S) /\ Len(f) = Cardinality(Carriers(p))
  <2>1. f \in Seq(Range(f)) /\ Len(f) = Cardinality(Carriers(p))
    BY FdsProperties
  <2>2. Range(f) \subseteq S
    OBVIOUS
  <2> HIDE DEF f, S
  <2> DEFINE Q == Range(f)
  <2>3. f \in Seq(Q) /\ Q \subseteq S
    BY <2>1, <2>2
  <2> HIDE DEF Q
  <2>4. QED
    BY <2>1, <2>3
<1>3. k \in Seq(S) /\ Len(k) = m /\ m \in Nat
  <2>1. CASE l # <<>> /\ CarriesFd(l[1])
    <3>1. k = <<l[1].command.fd>>
      BY <2>1 DEF KeptFds
    <3>2. Carriers(l) = {1}
      <4>1. DOMAIN l = 1 .. Len(l) /\ Len(l) \in Nat /\ Len(l) # 0
        BY <2>1
      <4>2. DOMAIN l = {1}
        BY <4>1
      <4>3. QED
        BY <2>1, <4>2 DEF Carriers
    <3>3. m = 1
      BY <3>2, FS_Singleton
    <3>4. l[1].command.fd \in S
      OBVIOUS
    <3> HIDE DEF S, m, k
    <3>5. QED
      BY <3>1, <3>3, <3>4
  <2>2. CASE ~(l # <<>> /\ CarriesFd(l[1]))
    <3>1. k = <<>>
      BY <2>2 DEF KeptFds
    <3>2. Carriers(l) = {}
      <4>1. DOMAIN l \subseteq {1} /\ (l = <<>> => DOMAIN l = {})
        OBVIOUS
      <4>2. QED
        BY <2>2, <4>1 DEF Carriers
    <3>3. m = 0
      BY <3>2, FS_EmptySet
    <3> HIDE DEF S, m, k
    <3>4. QED
      BY <3>1, <3>3
  <2>3. QED
    BY <2>1, <2>2
<1>4. Rank(s, Len(l) + Len(p)) = m + Rank(p, Len(p))
  BY <1>1, RankConcat
<1>5. Cardinality(Carriers(s)) = m + Cardinality(Carriers(p))
  <2>1. Rank(s, Len(s)) = Cardinality(Carriers(s))
    BY <1>1, RankAll
  <2>2. Rank(p, Len(p)) = Cardinality(Carriers(p))
    BY RankAll
  <2> HIDE DEF s, m
  <2>3. QED
    BY <1>1, <1>4, <2>1, <2>2
<1>6. /\ fds \in Seq(S) /\ Len(fds) = Len(k) + Len(f)
      /\ \A i \in 1 .. Len(k) : fds[i] = k[i]
      /\ \A i \in 1 .. Len(f) : fds[Len(k) + i] = f[i]
  <2>1. f \in Seq(S) /\ k \in Seq(S)
    BY <1>2, <1>3
  <2> HIDE DEF f, k, S
  <2>2. /\ k \o f \in Seq(S) /\ Len(k \o f) = Len(k) + Len(f)
        /\ \A i \in 1 .. Len(k) : (k \o f)[i] = k[i]
        /\ \A i \in 1 .. Len(f) : (k \o f)[Len(k) + i] = f[i]
    BY <2>1, ConcatPlaces
  <2>3. QED
    BY <2>2
<1>7. ASSUME NEW i \in Carriers(s)
      PROVE  fds[Rank(s, i)] = s[i].command.fd
  <2>1. i \in DOMAIN s /\ CarriesFd(s[i])
    BY DEF Carriers
  <2>2. CASE i \in DOMAIN l
    <3>1. i = 1 /\ l # <<>> /\ s[i] = l[1]
      BY <1>1, <2>2
    <3>2. k = <<l[1].command.fd>>
      BY <2>1, <3>1 DEF KeptFds
    <3>3. Rank(s, 1) = 1
      <4>1. Rank(s, 0) = 0
        BY <1>1, RankZero
      <4>2. 0 + 1 \in Carriers(s)
        BY <3>1
      <4>3. Rank(s, 0 + 1) = Rank(s, 0) + 1
        BY <1>1, <4>2, RankNext
      <4>4. QED
        BY <4>1, <4>3
    <3>4. 1 \in 1 .. Len(k) /\ k[1] = l[1].command.fd
      BY <3>2
    <3> HIDE DEF fds, k, s
    <3>5. QED
      BY <1>6, <3>1, <3>3, <3>4
  <2>3. CASE i \notin DOMAIN l
    <3> DEFINE j == i - Len(l)
    <3>1. j \in DOMAIN p /\ j \in Nat /\ i = Len(l) + j
      BY <1>1, <2>1, <2>3
    <3> HIDE DEF j
    <3>2. s[i] = p[j]
      BY <1>1, <3>1
    <3>3. j \in Carriers(p)
      BY <2>1, <3>1, <3>2 DEF Carriers
    <3>4. Rank(s, Len(l) + j) = m + Rank(p, j)
      BY <3>1, RankConcat
    <3>5. /\ Rank(p, j) \in 1 .. Cardinality(Carriers(p))
          /\ f[Rank(p, j)] = p[j].command.fd
      BY <3>3, FdsProperties
    <3> DEFINE q == Rank(p, j)
    <3>6. Rank(s, i) = Len(k) + q /\ q \in 1 .. Len(f) /\ f[q] = s[i].command.fd
      BY <1>2, <1>3, <3>1, <3>2, <3>4, <3>5
    <3> HIDE DEF fds, k, s, f, q
    <3>7. QED
      BY <1>6, <3>6
  <2>4. QED
    BY <2>2, <2>3
<1>8. Len(fds) = Cardinality(Carriers(s))
  <2> HIDE DEF fds, k, s, f, m
  <2>1. QED
    BY <1>2, <1>3, <1>5, <1>6
<1>9. QED
  BY <1>6, <1>7, <1>8

-----------------------------------------------------------------------------
(* The kinds of commands *)

\* Registrations and read-aheads are for a session of a task.
LEMMA EntryCommands ==
    ASSUME NEW c \in OfEntries
    PROVE  c.choice \in {"kRegisterFilePath", "kReadAhead"} /\ c.session_id \in Tasks
<1>1. PICK t \in Tasks, file \in TraceFiles, kind \in ReadAheadKinds :
         c \in Range(Prefetching(t, file, kind))
  BY DEF OfEntries
<1> DEFINE p == Prefetching(t, file, kind)
<1>2. \E i \in DOMAIN p : c = p[i]
  BY <1>1 DEF Range
<1>3. \A i \in DOMAIN p : p[i].choice \in {"kRegisterFilePath", "kReadAhead"}
                          /\ p[i].session_id = t
  BY PrefetchingCalls
<1> HIDE DEF p
<1>4. QED
  BY <1>2, <1>3

\* Every command but kExit is for a task; a descriptor is of a file.
LEMMA CommandKinds ==
    ASSUME NEW c \in Commands
    PROVE  /\ c.choice # "kExit" => c.session_id \in Tasks
           /\ c.choice = "kCreateFdSession" => c \in OfDescriptors /\ c.fd \in OnDisk
<1>1. CASE c \in OfSessions
  BY <1>1 DEF OfSessions
<1>2. CASE c \in OfDescriptors
  BY <1>2 DEF OfDescriptors
<1>3. CASE c \in OfEntries
  BY <1>3, EntryCommands
<1>4. CASE c \in [choice : {"kExit"}]
  BY <1>4
<1>5. QED
  BY <1>1, <1>2, <1>3, <1>4 DEF Commands

-----------------------------------------------------------------------------
(* Parsing what was read *)

\* A part that ends before it begins is empty.
LEMMA SubSeqNone ==
    ASSUME NEW S, NEW s \in Seq(S), NEW m \in Nat
    PROVE  SubSeq(s, m + 1, m) = <<>>
  OBVIOUS

\* A part that ends where it begins is one element.
LEMMA SubSeqOne ==
    ASSUME NEW S, NEW s \in Seq(S), NEW m \in 1 .. Len(s)
    PROVE  SubSeq(s, m, m) = <<s[m]>>
<1> DEFINE t == SubSeq(s, m, m)
           u == <<s[m]>>
<1>1. t \in Seq(S) /\ Len(t) = 1 /\ t[1] = s[m]
  OBVIOUS
<1>2. u \in Seq(S) /\ Len(u) = 1 /\ u[1] = s[m]
  OBVIOUS
<1> HIDE DEF t, u
<1>3. t = u
  BY <1>1, <1>2
<1>4. QED
  BY <1>3 DEF t, u

\* Each whole command gets its own descriptor, not another one's.
LEMMA ParseIsWhole ==
    ASSUME NEW b \in Seq(Chunks), Halved(b), NEW fds,
           \A i \in Carriers(b) : fds[Rank(b, i)] = b[i].command.fd
    PROVE  Parse(b, fds) = Whole(b)
<1> DEFINE w == Len(b) \div 2
           Parsed(i) == IF RequiresFd(b[2 * i].command)
                        THEN [b[2 * i].command EXCEPT !.fd = fds[FdsNeeded(b, i)]]
                        ELSE b[2 * i].command
<1>1. w \in Nat
  OBVIOUS
<1>2. ASSUME NEW i \in 1 .. w
      PROVE  Parsed(i) = b[2 * i].command
  <2> DEFINE c == b[2 * i].command
             n == 2 * (i - 1)
  <2>1. /\ n \in Nat /\ n + 1 \in DOMAIN b /\ n + 2 \in DOMAIN b /\ n + 2 = 2 * i
        /\ (n + 1) + 1 = 2 * i /\ i - 1 \in Nat /\ i \in Nat /\ 2 * i <= Len(b)
        /\ n + 1 \in Nat
    OBVIOUS
  <2>2. /\ b[n + 1].half = 1 /\ b[n + 2].half = 2 /\ b[n + 2].command = b[n + 1].command
    BY <2>1 DEF Halved
  <2>3. c \in Commands
    <3>1. b[n + 2] \in Chunks
      BY <2>1
    <3>2. b[n + 2].command \in Commands
      BY <3>1 DEF Chunks
    <3>3. QED
      BY <2>1, <3>2
  <2>4. CASE RequiresFd(c)
    <3>1. n + 1 \in Carriers(b) /\ 2 * i \notin Carriers(b)
      BY <2>1, <2>2, <2>4 DEF Carriers, CarriesFd
    <3>2. FdsNeeded(b, i) = Rank(b, 2 * i)
      BY <2>1, NeededByWhole
    <3> HIDE DEF c, n
    <3>3. Rank(b, (n + 1) + 1) = Rank(b, n + 1)
      <4> DEFINE m == n + 1
      <4>1. m \in Nat /\ m + 1 \notin Carriers(b)
        BY <2>1, <3>1
      <4> HIDE DEF m
      <4>2. Rank(b, m + 1) = Rank(b, m)
        BY <4>1, RankNext
      <4>3. QED
        BY <4>2 DEF m
    <3>4. fds[FdsNeeded(b, i)] = c.fd
      <4>1. fds[Rank(b, n + 1)] = b[n + 1].command.fd
        BY <3>1
      <4>2. b[n + 1].command = c
        BY <2>1, <2>2 DEF c
      <4>3. FdsNeeded(b, i) = Rank(b, n + 1)
        BY <2>1, <3>2, <3>3
      <4>4. QED
        BY <4>1, <4>2, <4>3
    <3>5. c \in OfDescriptors
      BY <2>3, <2>4, CommandKinds DEF RequiresFd
    <3>6. [c EXCEPT !.fd = c.fd] = c
      BY <3>5 DEF OfDescriptors
    <3>7. Parsed(i) = [c EXCEPT !.fd = fds[FdsNeeded(b, i)]]
      BY <2>4 DEF c
    <3>8. QED
      BY <3>4, <3>6, <3>7 DEF c
  <2>5. CASE ~RequiresFd(c)
    BY <2>5
  <2>6. QED
    BY <2>4, <2>5
<1>3. Parse(b, fds) = [i \in 1 .. w |-> Parsed(i)]
  BY DEF Parse
<1>4. Whole(b) = [i \in 1 .. w |-> b[2 * i].command]
  BY DEF Whole
<1> HIDE DEF Parsed, w
<1>5. QED
  BY <1>2, <1>3, <1>4

\* What is left of the descriptors is the one of the half that is kept.
LEMMA KeptAfterRead ==
    ASSUME NEW b \in Seq(Chunks), Halved(b), NEW S, NEW fds \in Seq(S),
           Len(fds) = Cardinality(Carriers(b)),
           \A i \in Carriers(b) : fds[Rank(b, i)] = b[i].command.fd
    PROVE  LET w == Len(b) \div 2
               kept == SubSeq(b, 2 * w + 1, Len(b))
           IN  /\ kept \in Seq(Chunks) /\ Len(kept) <= 1
               /\ SubSeq(fds, FdsNeeded(b, w) + 1, Len(fds)) = KeptFds(kept)
<1> DEFINE w == Len(b) \div 2
           kept == SubSeq(b, 2 * w + 1, Len(b))
           n == 2 * w
           L == Len(fds)
<1>1. w \in Nat /\ n \in Nat /\ n <= Len(b) /\ (Len(b) = n \/ Len(b) = n + 1)
  OBVIOUS
<1>2. FdsNeeded(b, w) = Rank(b, n)
  BY <1>1, NeededByWhole
<1>3. L = Rank(b, Len(b)) /\ Rank(b, n) \in Nat /\ L \in Nat
  BY <1>1, RankAll, CarriersFinite
<1>4. CASE Len(b) = n
  <2>1. kept = <<>>
    BY <1>1, <1>4
  <2>2. Rank(b, n) = L
    BY <1>3, <1>4
  <2>3. SubSeq(fds, L + 1, L) = <<>>
    OBVIOUS
  <2>4. KeptFds(kept) = <<>>
    BY <2>1 DEF KeptFds
  <2>5. SubSeq(fds, FdsNeeded(b, w) + 1, L) = <<>>
    <3> HIDE DEF n, w, L
    <3>1. QED
      BY <1>2, <2>2, <2>3
  <2>6. kept \in Seq(Chunks) /\ Len(kept) <= 1
    <3> HIDE DEF kept
    <3>1. QED
      BY <2>1
  <2> HIDE DEF kept
  <2>7. QED
    BY <2>4, <2>5, <2>6 DEF kept
<1>5. CASE Len(b) = n + 1
  <2>1. kept = <<b[n + 1]>> /\ n + 1 \in DOMAIN b /\ b[n + 1] \in Chunks
    <3>1. n + 1 \in 1 .. Len(b)
      BY <1>1, <1>5
    <3>2. SubSeq(b, n + 1, n + 1) = <<b[n + 1]>>
      <4> DEFINE m == n + 1
      <4>1. m \in 1 .. Len(b)
        BY <3>1
      <4> HIDE DEF m
      <4>2. SubSeq(b, m, m) = <<b[m]>>
        BY <4>1, SubSeqOne
      <4>3. QED
        BY <4>2 DEF m
    <3>3. QED
      BY <1>5, <3>1, <3>2
  <2>2. b[n + 1].half = 1
    BY <1>1, <2>1 DEF Halved
  <2>3. kept # <<>> /\ kept[1] = b[n + 1] /\ kept \in Seq(Chunks) /\ Len(kept) = 1
    <3> HIDE DEF kept
    <3>1. QED
      BY <2>1
  <2>4. L = IF n + 1 \in Carriers(b) THEN Rank(b, n) + 1 ELSE Rank(b, n)
    <3> HIDE DEF n, L
    <3>1. QED
      BY <1>1, <1>3, <1>5, RankNext
  <2>5. CASE CarriesFd(b[n + 1])
    <3>1. n + 1 \in Carriers(b)
      BY <2>1, <2>5 DEF Carriers
    <3>2. KeptFds(kept) = <<b[n + 1].command.fd>>
      BY <2>3, <2>5 DEF KeptFds
    <3>3. fds[L] = b[n + 1].command.fd
      <4>1. fds[Rank(b, n + 1)] = b[n + 1].command.fd
        BY <3>1
      <4>2. QED
        BY <1>3, <1>5, <4>1
    <3>4. L = Rank(b, n) + 1 /\ L \in 1 .. Len(fds)
      BY <1>3, <2>4, <3>1
    <3>5. SubSeq(fds, L, L) = <<fds[L]>>
      <4> HIDE DEF n, w, L
      <4>1. QED
        BY <3>4, SubSeqOne
    <3>6. SubSeq(fds, FdsNeeded(b, w) + 1, L) = <<b[n + 1].command.fd>>
      <4> HIDE DEF n, w, L
      <4>1. QED
        BY <1>2, <3>3, <3>4, <3>5
    <3>7. kept \in Seq(Chunks) /\ Len(kept) <= 1
      BY <2>3
    <3> HIDE DEF kept
    <3>8. QED
      BY <3>2, <3>6, <3>7 DEF kept
  <2>6. CASE ~CarriesFd(b[n + 1])
    <3>1. n + 1 \notin Carriers(b)
      BY <2>6 DEF Carriers
    <3>2. KeptFds(kept) = <<>>
      BY <2>3, <2>6 DEF KeptFds
    <3>3. L = Rank(b, n)
      BY <2>4, <3>1
    <3>4. SubSeq(fds, L + 1, L) = <<>>
      OBVIOUS
    <3>5. SubSeq(fds, FdsNeeded(b, w) + 1, L) = <<>>
      <4> HIDE DEF n, w, L
      <4>1. QED
        BY <1>2, <3>3, <3>4
    <3>6. kept \in Seq(Chunks) /\ Len(kept) <= 1
      BY <2>3
    <3> HIDE DEF kept
    <3>7. QED
      BY <3>2, <3>5, <3>6 DEF kept
  <2>7. QED
    BY <2>5, <2>6
<1>6. QED
  BY <1>1, <1>4, <1>5

-----------------------------------------------------------------------------
(* What is on its way, when the child reads and when iorapd writes *)

\* The whole commands of a stream, and where they are in it.
LEMMA WholeSequence ==
    ASSUME NEW s \in Seq(Chunks)
    PROVE  /\ Whole(s) \in Seq(Commands)
           /\ Len(Whole(s)) = Len(s) \div 2 /\ Len(s) \div 2 \in Nat
           /\ \A j \in 1 .. Len(s) \div 2 : Whole(s)[j] = s[2 * j].command
<1> DEFINE n == Len(s) \div 2
           f == Whole(s)
<1>1. n \in Nat /\ \A j \in 1 .. n : 2 * j \in DOMAIN s
  OBVIOUS
<1>2. f = [j \in 1 .. n |-> s[2 * j].command]
  BY DEF Whole
<1>3. \A j \in 1 .. n : f[j] = s[2 * j].command /\ f[j] \in Commands
  <2> SUFFICES ASSUME NEW j \in 1 .. n
               PROVE  f[j] = s[2 * j].command /\ f[j] \in Commands
    OBVIOUS
  <2>1. s[2 * j] \in Chunks
    BY <1>1
  <2>2. QED
    BY <1>2, <2>1 DEF Chunks
<1>4. f = [j \in 1 .. n |-> f[j]]
  BY <1>2
<1> HIDE DEF f, n
<1>5. f \in Seq(Commands) /\ Len(f) = n
  BY <1>1, <1>3, <1>4, FunctionIsSequence
<1>6. QED
  BY <1>1, <1>3, <1>5 DEF f, n

\* Sequences that agree in every place are the same.
LEMMA SameSequence ==
    ASSUME NEW S, NEW x \in Seq(S), NEW y \in Seq(S), Len(x) = Len(y),
           \A i \in 1 .. Len(x) : x[i] = y[i]
    PROVE  x = y
  OBVIOUS

\* The end of a sequence.
LEMMA RestPlaces ==
    ASSUME NEW S, NEW s \in Seq(S), NEW n \in Nat, n <= Len(s)
    PROVE  LET t == SubSeq(s, n + 1, Len(s)) IN
           /\ t \in Seq(S) /\ Len(t) = Len(s) - n
           /\ \A i \in 1 .. Len(t) : t[i] = s[n + i]
  OBVIOUS

\* What is read and what stays in the pipe are the stream that there was.
LEMMA RestOfStream ==
    ASSUME NEW b \in Seq(Chunks), NEW r \in Seq(Chunks), Paired(b \o r)
    PROVE  LET kept == SubSeq(b, 2 * (Len(b) \div 2) + 1, Len(b)) IN
           /\ Paired(kept \o r)
           /\ Whole(b) \o Whole(kept \o r) = Whole(b \o r)
<1> DEFINE w == Len(b) \div 2
           kept == SubSeq(b, 2 * w + 1, Len(b))
           s == b \o r
           u == kept \o r
           n == 2 * w
<1>1. w \in Nat /\ n \in Nat /\ n <= Len(b) /\ n = 2 * w
  OBVIOUS
<1>2. /\ kept \in Seq(Chunks) /\ Len(kept) = Len(b) - n
      /\ \A i \in 1 .. Len(kept) : kept[i] = b[n + i]
  <2> HIDE DEF w
  <2>1. QED
    BY <1>1, RestPlaces
<1>3. /\ s \in Seq(Chunks) /\ Len(s) = Len(b) + Len(r)
      /\ \A i \in 1 .. Len(b) : s[i] = b[i]
      /\ \A i \in 1 .. Len(r) : s[Len(b) + i] = r[i]
  BY ConcatPlaces
<1>4. /\ u \in Seq(Chunks) /\ Len(u) = Len(kept) + Len(r)
      /\ \A i \in 1 .. Len(kept) : u[i] = kept[i]
      /\ \A i \in 1 .. Len(r) : u[Len(kept) + i] = r[i]
  <2>1. kept \in Seq(Chunks)
    BY <1>2
  <2> HIDE DEF kept
  <2>2. QED
    BY <2>1, ConcatPlaces
<1> HIDE DEF w, n, kept, s, u
<1>5. /\ Len(u) = Len(s) - n /\ Len(u) \in Nat /\ Len(s) \in Nat
      /\ DOMAIN u = 1 .. Len(u) /\ DOMAIN s = 1 .. Len(s)
  BY <1>1, <1>2, <1>3, <1>4
<1>6. \A i \in 1 .. Len(u) : u[i] = s[n + i]
  <2> SUFFICES ASSUME NEW i \in 1 .. Len(u)
               PROVE  u[i] = s[n + i]
    OBVIOUS
  <2>1. CASE i <= Len(kept)
    <3>1. i \in 1 .. Len(kept) /\ n + i \in 1 .. Len(b)
      BY <1>1, <1>2, <2>1
    <3>2. QED
      BY <1>2, <1>3, <1>4, <3>1
  <2>2. CASE i > Len(kept)
    <3> DEFINE j == i - Len(kept)
    <3>1. j \in 1 .. Len(r) /\ i = Len(kept) + j /\ n + i = Len(b) + j
      BY <1>1, <1>2, <1>4, <2>2
    <3> HIDE DEF j
    <3>2. QED
      BY <1>3, <1>4, <3>1
  <2>3. QED
    BY <1>2, <2>1, <2>2
<1>7. Len(s) % 2 = 0
  BY DEF Paired, s
<1>8. Paired(u)
  <2>1. Len(u) % 2 = 0
    BY <1>1, <1>5, <1>7
  <2>2. ASSUME NEW i \in 1 .. Len(u), i % 2 = 1
        PROVE  u[i].half = 1 /\ u[i + 1].half = 2 /\ u[i + 1].command = u[i].command
    <3>1. n + i \in DOMAIN s /\ (n + i) % 2 = 1 /\ i + 1 \in 1 .. Len(u)
      BY <1>1, <1>5, <2>1, <2>2
    <3>2. /\ s[n + i].half = 1 /\ s[(n + i) + 1].half = 2
          /\ s[(n + i) + 1].command = s[n + i].command
      BY <3>1 DEF Paired, s
    <3>3. u[i] = s[n + i] /\ u[i + 1] = s[(n + i) + 1]
      <4>1. u[i] = s[n + i] /\ u[i + 1] = s[n + (i + 1)]
        BY <1>6, <3>1
      <4>2. n + (i + 1) = (n + i) + 1
        BY <1>1, <2>2
      <4>3. QED
        BY <4>1, <4>2
    <3>4. QED
      BY <3>2, <3>3
  <2>3. QED
    BY <1>5, <2>1, <2>2 DEF Paired
<1> DEFINE x == Whole(b)
           y == Whole(u)
           z == Whole(s)
<1>9. /\ x \in Seq(Commands) /\ Len(x) = w
      /\ \A j \in 1 .. w : x[j] = b[2 * j].command
  BY WholeSequence DEF w
<1>10. /\ y \in Seq(Commands) /\ Len(y) = Len(u) \div 2
       /\ \A j \in 1 .. Len(u) \div 2 : y[j] = u[2 * j].command
  BY <1>4, WholeSequence
<1>11. /\ z \in Seq(Commands) /\ Len(z) = Len(s) \div 2
       /\ \A j \in 1 .. Len(s) \div 2 : z[j] = s[2 * j].command
  BY <1>3, WholeSequence
<1> HIDE DEF x, y, z
<1>12. /\ x \o y \in Seq(Commands) /\ Len(x \o y) = Len(x) + Len(y)
       /\ \A j \in 1 .. Len(x) : (x \o y)[j] = x[j]
       /\ \A j \in 1 .. Len(y) : (x \o y)[Len(x) + j] = y[j]
  <2>1. x \in Seq(Commands) /\ y \in Seq(Commands)
    BY <1>9, <1>10
  <2>2. QED
    BY <2>1, ConcatPlaces
<1>13. Len(x \o y) = Len(z)
  BY <1>1, <1>5, <1>7, <1>9, <1>10, <1>11, <1>12
<1>14. ASSUME NEW j \in 1 .. Len(z)
       PROVE  (x \o y)[j] = z[j]
  <2>1. z[j] = s[2 * j].command
    BY <1>11
  <2>2. CASE j <= w
    <3>1. j \in 1 .. w /\ 2 * j \in 1 .. Len(b)
      BY <1>1, <2>2
    <3>2. s[2 * j] = b[2 * j]
      BY <1>3, <3>1
    <3>3. QED
      BY <1>9, <1>12, <2>1, <3>1, <3>2
  <2>3. CASE j > w
    <3> DEFINE k == j - w
    <3>1. /\ k \in 1 .. Len(y) /\ k \in 1 .. Len(u) \div 2 /\ j = w + k
          /\ 2 * k \in 1 .. Len(u) /\ n + 2 * k = 2 * j
      <4>1. Len(z) = Len(s) \div 2 /\ Len(y) = Len(u) \div 2 /\ Len(u) = Len(s) - n
        BY <1>5, <1>10, <1>11
      <4>2. Len(y) = Len(z) - w
        BY <1>1, <1>5, <1>7, <4>1
      <4>3. j \in Nat /\ j <= Len(z)
        BY <1>5, <4>1
      <4>4. k \in 1 .. Len(y) /\ j = w + k
        BY <1>1, <1>5, <2>3, <4>1, <4>2, <4>3
      <4>5. 2 * k \in 1 .. Len(u) /\ n + 2 * k = 2 * j
        BY <1>1, <1>5, <4>1, <4>4
      <4>6. QED
        BY <4>1, <4>4, <4>5
    <3> HIDE DEF k
    <3>2. u[2 * k] = s[n + 2 * k]
      BY <1>6, <3>1
    <3>3. (x \o y)[j] = y[k] /\ y[k] = u[2 * k].command
      BY <1>9, <1>10, <1>12, <3>1
    <3>4. QED
      BY <2>1, <3>1, <3>2, <3>3
  <2>4. j \in Nat
    BY <1>5, <1>11
  <2>5. j <= w \/ j > w
    BY <1>1, <2>4
  <2>6. QED
    BY <2>2, <2>3, <2>5
<1>15. x \o y = z
  BY <1>11, <1>12, <1>13, <1>14, SameSequence
<1>16. QED
  BY <1>8, <1>15 DEF x, y, z, u, s, kept, w

\* Three sequences one after another.
LEMMA Associative ==
    ASSUME NEW S, NEW x \in Seq(S), NEW y \in Seq(S), NEW z \in Seq(S)
    PROVE  (x \o y) \o z = x \o (y \o z)
<1> DEFINE l == (x \o y) \o z
           r == x \o (y \o z)
<1>1. l \in Seq(S) /\ r \in Seq(S) /\ Len(l) = Len(r)
  OBVIOUS
<1>2. \A i \in 1 .. Len(l) : l[i] = r[i]
  OBVIOUS
<1> HIDE DEF l, r
<1>3. l = r
  BY <1>1, <1>2, SameSequence
<1>4. QED
  BY <1>3 DEF l, r

\* An element at the end of the second of two sequences.
LEMMA AppendConcat ==
    ASSUME NEW S, NEW x \in Seq(S), NEW y \in Seq(S), NEW c \in S
    PROVE  x \o Append(y, c) = Append(x \o y, c)
<1> DEFINE l == x \o Append(y, c)
           r == Append(x \o y, c)
<1>1. l \in Seq(S) /\ r \in Seq(S) /\ Len(l) = Len(r)
  OBVIOUS
<1>2. \A i \in 1 .. Len(l) : l[i] = r[i]
  OBVIOUS
<1> HIDE DEF l, r
<1>3. l = r
  BY <1>1, <1>2, SameSequence
<1>4. QED
  BY <1>3 DEF l, r

\* The first of two sequences loses its head.
LEMMA TailConcat ==
    ASSUME NEW S, NEW x \in Seq(S), NEW y \in Seq(S), x # <<>>
    PROVE  /\ x \o y \in Seq(S) /\ x \o y # <<>>
           /\ Head(x \o y) = Head(x) /\ Tail(x \o y) = Tail(x) \o y
<1> DEFINE l == Tail(x \o y)
           r == Tail(x) \o y
<1>1. l \in Seq(S) /\ r \in Seq(S) /\ Len(l) = Len(r)
  OBVIOUS
<1>2. \A i \in 1 .. Len(l) : l[i] = r[i]
  OBVIOUS
<1>3. x \o y \in Seq(S) /\ x \o y # <<>> /\ Head(x \o y) = Head(x)
  OBVIOUS
<1> HIDE DEF l, r
<1>4. l = r
  BY <1>1, <1>2, SameSequence
<1>5. QED
  BY <1>3, <1>4 DEF l, r

\* The stream is a sequence of halves, what is on its way one of commands.
LEMMA OnWaySequence ==
    ASSUME Sequences
    PROVE  Stream \in Seq(Chunks) /\ OnWay \in Seq(Commands)
<1>1. Stream \in Seq(Chunks)
  BY DEF Sequences, Stream
<1>2. Whole(Stream) \in Seq(Commands)
  BY <1>1, WholeSequence
<1>3. QED
  BY <1>1, <1>2 DEF OnWay, Sequences

\* The two halves of a command make a stream one command longer.
LEMMA WholeAdded ==
    ASSUME NEW s \in Seq(Chunks), Paired(s), NEW c \in Commands
    PROVE  /\ Halves(c) \in Seq(Chunks)
           /\ Paired(s \o Halves(c))
           /\ Whole(s \o Halves(c)) = Append(Whole(s), c)
<1> DEFINE h == Halves(c)
           e == s \o h
           n == Len(s)
<1>1. /\ h \in Seq(Chunks) /\ Len(h) = 2
      /\ h[1].half = 1 /\ h[2].half = 2 /\ h[1].command = c /\ h[2].command = c
  <2>1. [command |-> c, half |-> 1] \in Chunks /\ [command |-> c, half |-> 2] \in Chunks
    BY DEF Chunks
  <2>2. QED
    BY <2>1 DEF Halves
<1>2. n % 2 = 0 /\ n \in Nat
  BY DEF Paired
<1> HIDE DEF h
<1>3. /\ e \in Seq(Chunks) /\ Len(e) = n + 2 /\ DOMAIN e = 1 .. n + 2
      /\ \A i \in 1 .. n : e[i] = s[i]
      /\ e[n + 1] = h[1] /\ e[n + 2] = h[2]
  <2>1. h \in Seq(Chunks)
    BY <1>1
  <2>2. /\ e \in Seq(Chunks) /\ Len(e) = n + Len(h)
        /\ \A i \in 1 .. n : e[i] = s[i]
        /\ \A i \in 1 .. Len(h) : e[n + i] = h[i]
    BY <2>1, ConcatPlaces
  <2> HIDE DEF e
  <2>3. QED
    BY <1>1, <1>2, <2>2
<1>4. DOMAIN s = 1 .. n
  OBVIOUS
<1> HIDE DEF e, n
<1>5. Paired(e)
  <2>1. ASSUME NEW i \in DOMAIN e, i % 2 = 1
        PROVE  e[i].half = 1 /\ e[i + 1].half = 2 /\ e[i + 1].command = e[i].command
    <3>1. CASE i \in 1 .. n
      <4>1. i + 1 \in 1 .. n
        BY <1>2, <2>1, <3>1
      <4>2. s[i].half = 1 /\ s[i + 1].half = 2 /\ s[i + 1].command = s[i].command
        BY <1>4, <2>1, <3>1 DEF Paired
      <4>3. e[i] = s[i] /\ e[i + 1] = s[i + 1]
        BY <1>3, <3>1, <4>1
      <4>4. QED
        BY <4>2, <4>3
    <3>2. CASE i \notin 1 .. n
      <4>1. i = n + 1 \/ i = n + 2
        <5>1. i \in 1 .. n + 2
          BY <1>3, <2>1
        <5>2. QED
          BY <1>2, <3>2, <5>1
      <4>2. i # n + 2
        <5>1. (n + 2) % 2 = 0
          BY <1>2
        <5>2. QED
          BY <2>1, <5>1
      <4>3. i = n + 1 /\ i + 1 = n + 2
        BY <1>2, <4>1, <4>2
      <4>4. QED
        BY <1>1, <1>3, <4>3
    <3>3. QED
      BY <3>1, <3>2
  <2>2. Len(e) % 2 = 0
    BY <1>2, <1>3
  <2>3. QED
    BY <2>1, <2>2 DEF Paired
<1> DEFINE x == Whole(e)
           y == Whole(s)
           w == n \div 2
<1>6. /\ x \in Seq(Commands) /\ Len(x) = Len(e) \div 2
      /\ \A j \in 1 .. Len(e) \div 2 : x[j] = e[2 * j].command
  BY <1>3, WholeSequence
<1>7. y \in Seq(Commands) /\ Len(y) = w /\ \A j \in 1 .. w : y[j] = s[2 * j].command
  BY WholeSequence DEF n
<1>8. w \in Nat /\ Len(e) \div 2 = w + 1 /\ 2 * (w + 1) = n + 2 /\ n = 2 * w
  BY <1>2, <1>3
<1> HIDE DEF x, y, w
<1>9. /\ Append(y, c) \in Seq(Commands) /\ Len(Append(y, c)) = w + 1
      /\ \A j \in 1 .. w : Append(y, c)[j] = y[j]
      /\ Append(y, c)[w + 1] = c
  BY <1>7
<1>10. ASSUME NEW j \in 1 .. w + 1
       PROVE  x[j] = Append(y, c)[j]
  <2>1. CASE j \in 1 .. w
    <3>1. 2 * j \in 1 .. n /\ j \in 1 .. Len(e) \div 2
      BY <1>8, <2>1
    <3>2. QED
      BY <1>3, <1>6, <1>7, <1>9, <2>1, <3>1
  <2>2. CASE j = w + 1
    <3>1. x[w + 1] = e[2 * (w + 1)].command
      BY <1>6, <1>8, <2>2
    <3>2. x[w + 1] = c
      BY <1>1, <1>3, <1>8, <3>1
    <3>3. QED
      BY <1>9, <2>2, <3>2
  <2>3. j \in 1 .. w \/ j = w + 1
    BY <1>8
  <2>4. QED
    BY <2>1, <2>2, <2>3
<1>11. x = Append(y, c)
  <2> DEFINE z == Append(y, c)
  <2>1. x \in Seq(Commands) /\ z \in Seq(Commands) /\ Len(x) = Len(z)
    BY <1>6, <1>8, <1>9
  <2>2. \A j \in 1 .. Len(x) : x[j] = z[j]
    BY <1>6, <1>8, <1>10
  <2> HIDE DEF z
  <2>3. QED
    BY <2>1, <2>2, SameSequence DEF z
<1>12. QED
  BY <1>1, <1>5, <1>11 DEF x, y, e, h

\* A read moves commands from the pipe to Main's loop, and loses nothing.
LEMMA ReadParses ==
    ASSUME Sequences, StreamInv, ReadCommands
    PROVE  Sequences' /\ StreamInv' /\ OnWay' = OnWay /\ Len(longbuf') <= 1
           /\ Len(longbuf_fds') <= 1 /\ Len(channel') <= Len(channel)
<1>1. PICK n \in 1 .. Len(channel) :
         LET buffer == longbuf \o SubSeq(channel, 1, n)
             fds == longbuf_fds \o Fds(SubSeq(channel, 1, n))
             whole == Len(buffer) \div 2
         IN  /\ pending' = Parse(buffer, fds)
             /\ longbuf' = SubSeq(buffer, 2 * whole + 1, Len(buffer))
             /\ longbuf_fds' = SubSeq(fds, FdsNeeded(buffer, whole) + 1, Len(fds))
             /\ channel' = SubSeq(channel, n + 1, Len(channel))
  BY DEF ReadCommands
<1> DEFINE p == SubSeq(channel, 1, n)
           r == SubSeq(channel, n + 1, Len(channel))
           b == longbuf \o p
           f == longbuf_fds \o Fds(p)
           w == Len(b) \div 2
           kept == SubSeq(b, 2 * w + 1, Len(b))
<1>2. /\ pending' = Parse(b, f) /\ longbuf' = kept /\ channel' = r
      /\ longbuf_fds' = SubSeq(f, FdsNeeded(b, w) + 1, Len(f))
  BY <1>1
<1>3. /\ child = "running" /\ pending = <<>> /\ child' = child /\ todo' = todo
      /\ todo \in Seq(Commands) /\ longbuf \in Seq(Chunks) /\ channel \in Seq(Chunks)
      /\ recents' = recents /\ recents \in Seq(Tasks)
  BY DEF ReadCommands, Sequences, callVars, mapVars
<1>4. Paired(Stream) /\ Len(longbuf) <= 1 /\ longbuf_fds = KeptFds(longbuf)
  BY <1>3 DEF StreamInv
<1>5. /\ p \in Seq(Chunks) /\ r \in Seq(Chunks) /\ p \o r = channel
      /\ Len(r) <= Len(channel)
  <2>1. /\ p \in Seq(Chunks) /\ r \in Seq(Chunks) /\ Len(p) = n
        /\ Len(r) = Len(channel) - n /\ Len(channel) \in Nat /\ n \in Nat
        /\ \A i \in 1 .. n : p[i] = channel[i]
        /\ \A i \in 1 .. Len(channel) - n : r[i] = channel[n + i]
    BY <1>3
  <2> HIDE DEF p, r
  <2>2. p \o r \in Seq(Chunks) /\ Len(p \o r) = Len(channel)
    BY <2>1
  <2>3. \A i \in 1 .. Len(channel) : (p \o r)[i] = channel[i]
    <3> SUFFICES ASSUME NEW i \in 1 .. Len(channel)
                 PROVE  (p \o r)[i] = channel[i]
      OBVIOUS
    <3>1. CASE i <= n
      BY <2>1, <3>1
    <3>2. CASE i > n
      <4> DEFINE j == i - n
      <4>1. j \in 1 .. Len(r) /\ i = n + j /\ j \in 1 .. Len(channel) - n
        BY <2>1, <3>2
      <4> HIDE DEF j
      <4>2. (p \o r)[Len(p) + j] = r[j]
        BY <2>1, <4>1, ConcatPlaces
      <4>3. QED
        BY <2>1, <4>1, <4>2
    <3>3. i <= n \/ i > n
      BY <2>1
    <3>4. QED
      BY <3>1, <3>2, <3>3
  <2>4. p \o r = channel
    <3> DEFINE q == p \o r
    <3>1. q \in Seq(Chunks) /\ Len(q) = Len(channel)
          /\ \A i \in 1 .. Len(q) : q[i] = channel[i]
      BY <2>2, <2>3
    <3> HIDE DEF q
    <3>2. q = channel
      BY <1>3, <3>1, SameSequence
    <3>3. QED
      BY <3>2 DEF q
  <2>5. QED
    BY <2>1, <2>4
<1> HIDE DEF p, r
<1>6. b \in Seq(Chunks) /\ Stream = b \o r
  <2>1. b \in Seq(Chunks)
    BY <1>3, <1>5
  <2>2. b \o r = longbuf \o (p \o r)
    <3>1. longbuf \in Seq(Chunks) /\ p \in Seq(Chunks) /\ r \in Seq(Chunks)
      BY <1>3, <1>5
    <3>2. QED
      BY <3>1, Associative
  <2>3. QED
    BY <1>5, <2>1, <2>2 DEF Stream
<1>7. Halved(b)
  <2>1. /\ Len(b) <= Len(b \o r) /\ \A i \in DOMAIN b : b[i] = (b \o r)[i]
        /\ b \o r \in Seq(Chunks)
    <3> HIDE DEF b
    <3>1. QED
      BY <1>5, <1>6
  <2> HIDE DEF b
  <2>2. Paired(b \o r)
    BY <1>4, <1>6
  <2> DEFINE s == b \o r
  <2>3. /\ s \in Seq(Chunks) /\ Paired(s) /\ Len(b) <= Len(s)
        /\ \A i \in DOMAIN b : b[i] = s[i]
    BY <2>1, <2>2
  <2> HIDE DEF s
  <2>4. QED
    BY <1>6, <2>3, PrefixHalved
<1>8. /\ \E S : f \in Seq(S)
      /\ Len(f) = Cardinality(Carriers(b))
      /\ \A i \in Carriers(b) : f[Rank(b, i)] = b[i].command.fd
  BY <1>3, <1>4, <1>5, FdsOfRead
<1>9. PICK S : f \in Seq(S)
  BY <1>8
<1>10. Parse(b, f) = Whole(b)
  <2> HIDE DEF b, f
  <2>1. QED
    BY <1>6, <1>7, <1>8, ParseIsWhole
<1>11. /\ kept \in Seq(Chunks) /\ Len(kept) <= 1
       /\ SubSeq(f, FdsNeeded(b, w) + 1, Len(f)) = KeptFds(kept)
  <2> HIDE DEF b, f
  <2>1. QED
    BY <1>6, <1>7, <1>8, <1>9, KeptAfterRead
<1>12. Paired(kept \o r) /\ Whole(b) \o Whole(kept \o r) = Whole(b \o r)
  <2> HIDE DEF b
  <2>1. Paired(b \o r)
    BY <1>4, <1>6
  <2>2. QED
    BY <1>5, <1>6, <2>1, RestOfStream
<1> HIDE DEF b, f, w, kept
<1>13. Stream' = kept \o r
  BY <1>2 DEF Stream
<1>14. Whole(b) \in Seq(Commands)
  BY <1>6, WholeSequence
<1>15. Sequences'
  BY <1>2, <1>3, <1>5, <1>10, <1>11, <1>14 DEF Sequences
<1>16. OnWay' = OnWay
  <2>1. OnWay' = Whole(b) \o Whole(kept \o r)
    BY <1>2, <1>10, <1>13 DEF OnWay
  <2>2. OnWay = <<>> \o Whole(Stream)
    BY <1>3 DEF OnWay
  <2>3. Whole(Stream) \in Seq(Commands)
    BY OnWaySequence, WholeSequence
  <2>4. OnWay = Whole(Stream)
    BY <2>2, <2>3
  <2>5. QED
    BY <1>6, <1>12, <2>1, <2>4
<1>17. StreamInv'
  BY <1>2, <1>11, <1>12, <1>13 DEF StreamInv
<1>18. Len(KeptFds(kept)) <= 1
  <2>1. \A x : Len(<<x>>) = 1
    OBVIOUS
  <2>2. QED
    BY <2>1 DEF KeptFds
<1>19. QED
  BY <1>2, <1>5, <1>11, <1>15, <1>16, <1>17, <1>18

\* The halves have their places in the stream.
LEMMA StreamHalves ==
    ASSUME Sequences, StreamInv
    PROVE  LET stream == longbuf \o channel
           IN  child = "running" =>
               \A i \in DOMAIN stream : stream[i].half = IF i % 2 = 1 THEN 1 ELSE 2
<1> SUFFICES ASSUME child = "running", NEW i \in DOMAIN Stream
             PROVE  Stream[i].half = IF i % 2 = 1 THEN 1 ELSE 2
  BY DEF Stream
<1>1. Stream \in Seq(Chunks)
  BY OnWaySequence
<1>2. Paired(Stream)
  BY DEF StreamInv
<1>3. CASE i % 2 = 1
  BY <1>2, <1>3 DEF Paired
<1>4. CASE i % 2 # 1
  <2>1. i - 1 \in DOMAIN Stream /\ (i - 1) % 2 = 1 /\ (i - 1) + 1 = i
    BY <1>1, <1>4
  <2>2. QED
    BY <1>2, <1>4, <2>1 DEF Paired
<1>5. QED
  BY <1>3, <1>4

\* What the child carries out is the first thing on its way.
LEMMA ReceiveShifts ==
    ASSUME Sequences, pending # <<>>
    PROVE  /\ OnWay \in Seq(Commands) /\ OnWay # <<>>
           /\ Head(OnWay) = Head(pending) /\ Head(pending) \in Commands
           /\ Tail(OnWay) = Tail(pending) \o Whole(Stream)
           /\ Tail(pending) \in Seq(Commands)
<1>1. Stream \in Seq(Chunks) /\ pending \in Seq(Commands)
  BY OnWaySequence DEF Sequences
<1>2. Whole(Stream) \in Seq(Commands)
  BY <1>1, WholeSequence
<1> DEFINE W == Whole(Stream)
<1>3. OnWay = pending \o W /\ W \in Seq(Commands)
  BY <1>2 DEF OnWay
<1> HIDE DEF W
<1>4. /\ pending \o W \in Seq(Commands) /\ pending \o W # <<>>
      /\ Head(pending \o W) = Head(pending) /\ Tail(pending \o W) = Tail(pending) \o W
  BY <1>1, <1>3, TailConcat
<1>5. Head(pending) \in Commands /\ Tail(pending) \in Seq(Commands)
  BY <1>1
<1>6. QED
  BY <1>3, <1>4, <1>5 DEF W

\* A command that fits goes to the end of what is on its way.
LEMMA PipeTakes ==
    ASSUME Sequences, StreamInv, NEW c \in Commands, ~Direct, SendCommand(c),
           UNCHANGED <<longbuf, longbuf_fds, pending, child>>
    PROVE  /\ channel' \in Seq(Chunks) /\ StreamInv' /\ served' = served
           /\ Len(channel) <= 2 * PipeSize => Len(channel') <= 2 * PipeSize
           /\ child = "running" =>
                 OnWay' = IF Fits(c) THEN Append(OnWay, c) ELSE OnWay
<1>1. /\ served' = served
      /\ channel' = IF Fits(c) THEN channel \o Halves(c) ELSE channel
      /\ Fits(c) => Len(channel) + 2 <= 2 * PipeSize
  BY DEF SendCommand
<1>2. /\ channel \in Seq(Chunks) /\ longbuf \in Seq(Chunks) /\ pending \in Seq(Commands)
      /\ Stream \in Seq(Chunks)
  BY OnWaySequence DEF Sequences
<1>3. CASE ~Fits(c)
  <2>1. channel' = channel
    BY <1>1, <1>3
  <2>2. Stream' = Stream /\ OnWay' = OnWay
    BY <2>1 DEF Stream, OnWay
  <2>3. StreamInv'
    BY <2>2 DEF StreamInv
  <2>4. QED
    BY <1>1, <1>2, <1>3, <2>1, <2>2, <2>3
<1>4. CASE Fits(c)
  <2> DEFINE h == Halves(c)
  <2>1. h \in Seq(Chunks) /\ Len(h) = 2
    <3>1. [command |-> c, half |-> 1] \in Chunks /\ [command |-> c, half |-> 2] \in Chunks
      BY DEF Chunks
    <3>2. QED
      BY <3>1 DEF Halves
  <2>2. channel' = channel \o h
    BY <1>1, <1>4
  <2> HIDE DEF h
  <2>3. channel' \in Seq(Chunks) /\ Len(channel') = Len(channel) + 2
    <3>1. channel \in Seq(Chunks) /\ h \in Seq(Chunks)
      BY <1>2, <2>1
    <3>2. channel \o h \in Seq(Chunks) /\ Len(channel \o h) = Len(channel) + Len(h)
      BY <3>1, ConcatPlaces
    <3>3. QED
      BY <2>1, <2>2, <3>2
  <2>4. Stream' = Stream \o h
    <3>1. longbuf \in Seq(Chunks) /\ channel \in Seq(Chunks) /\ h \in Seq(Chunks)
      BY <1>2, <2>1
    <3>2. (longbuf \o channel) \o h = longbuf \o (channel \o h)
      BY <3>1, Associative
    <3>3. longbuf' = longbuf
      OBVIOUS
    <3>4. QED
      BY <2>2, <3>2, <3>3 DEF Stream
  <2>5. ASSUME child = "running"
        PROVE  Paired(Stream \o h) /\ Whole(Stream \o h) = Append(Whole(Stream), c)
    <3>1. Paired(Stream)
      BY <2>5 DEF StreamInv
    <3>2. QED
      BY <1>2, <3>1, WholeAdded DEF h
  <2>6. StreamInv'
    BY <2>4, <2>5 DEF StreamInv
  <2>7. child = "running" => OnWay' = Append(OnWay, c)
    <3> SUFFICES ASSUME child = "running"
                 PROVE  OnWay' = Append(OnWay, c)
      OBVIOUS
    <3>1. OnWay' = pending \o Append(Whole(Stream), c)
      BY <2>4, <2>5 DEF OnWay
    <3>2. Whole(Stream) \in Seq(Commands)
      BY <1>2, WholeSequence
    <3>3. QED
      BY <1>2, <3>1, <3>2, AppendConcat DEF OnWay
  <2>8. QED
    BY <1>1, <1>4, <2>3, <2>6, <2>7
<1>5. QED
  BY <1>3, <1>4

-----------------------------------------------------------------------------
(* Parts of the invariant *)

\* The types of what iorapd keeps.
TypeCalls ==
    /\ session_kind \in Kinds
    /\ pc \in {"idle", "create", "open", "send", "finish", "exit", "gone", "dead"}
    /\ task \subseteq Tasks /\ Cardinality(task) <= 1
    /\ task # {} <=> pc \in {"create", "open", "send", "finish"}
    /\ trace \in [Tasks -> {Missing} \cup OnDisk]
    /\ strategy \in [Tasks -> ReadAheadKinds]
    /\ begun \subseteq Tasks /\ finished \subseteq begun
    /\ sessions \subseteq begun /\ file_map \subseteq begun \ finished
    /\ Len(recents) <= kRecentDataCount + 1
    /\ child = "none" <=> Direct
    /\ child \in {"none", "running", "exited", "killed"}

\* The types of what goes through the pipe to the sessions.
TypePipe ==
    /\ Len(channel) <= 2 * PipeSize
    /\ Len(longbuf) <= 1 /\ Len(longbuf_fds) <= 1

\* What the sessions are, wherever they live.
Service == DOMAIN served.sessions \subseteq begun /\ Tidy(served)

\* The types, in the parts that the proofs below keep apart.
LEMMA TypeParts ==
    ASSUME Sequences, StreamInv
    PROVE  TypeOK /\ Tidy(served) <=> TypeCalls /\ TypePipe /\ Service
<1>1. LET stream == longbuf \o channel
      IN  child = "running" =>
          \A i \in DOMAIN stream : stream[i].half = IF i % 2 = 1 THEN 1 ELSE 2
  BY StreamHalves
<1>2. TypeOK <=> /\ TypeCalls /\ TypePipe /\ DOMAIN served.sessions \subseteq begun
                 /\ LET stream == longbuf \o channel
                    IN  child = "running" =>
                        \A i \in DOMAIN stream :
                            stream[i].half = IF i % 2 = 1 THEN 1 ELSE 2
  BY DEF TypeOK, TypeCalls, TypePipe
<1>3. QED
  BY <1>1, <1>2 DEF Service

\* The part of the invariant that speaks of the pipe and of the sessions.
PipeInv == TypePipe /\ StreamInv /\ OrderInv /\ Service

\* The invariant, in the same parts.
LEMMA IInvParts ==
    IInv <=> /\ TypeCalls /\ Sequences /\ PipeInv /\ CallInv /\ TodoInv /\ ChildInv
             /\ MirrorInv /\ SessionsMirrorTasks /\ LeakInv
<1>1. CASE Sequences /\ StreamInv
  BY <1>1, TypeParts DEF IInv, PipeInv
<1>2. CASE ~(Sequences /\ StreamInv)
  BY <1>2 DEF IInv, PipeInv
<1>3. QED
  BY <1>1, <1>2

\* What is sent has a session already, unless it begins one.
Sendable(c) ==
    /\ c \in Commands
    /\ c.choice # "kExit" => c.session_id \in begun
    /\ child = "running" => MayFollow(c, OnWay, DOMAIN served.sessions)

\* SendCommand, wherever the sessions live.
LEMMA Sent ==
    ASSUME Sequences, PipeInv, TypeCalls, NEW c, Sendable(c), SendCommand(c), begun' = begun,
           UNCHANGED <<session_kind, longbuf, longbuf_fds, pending, child>>
    PROVE  /\ channel' \in Seq(Chunks) /\ PipeInv'
           /\ child = "running" =>
                 /\ served' = served
                 /\ OnWay' = IF Fits(c) THEN Append(OnWay, c) ELSE OnWay
<1>1. c \in Commands /\ StreamInv /\ TypePipe /\ OrderInv /\ Service
  BY DEF Sendable, PipeInv
<1>2. CASE Direct
  <2>1. child # "running" /\ child' # "running"
    BY <1>2 DEF TypeCalls
  <2>2. served' = Apply(served, c) /\ channel' = channel
    BY <1>2 DEF SendCommand
  <2>3. c.choice = "kCreateFdSession" => c.fd \in OnDisk
    BY <1>1, CommandKinds
  <2>4. /\ Tidy(Apply(served, c))
        /\ DOMAIN Apply(served, c).sessions = After(DOMAIN served.sessions, c)
    BY <1>1, <2>3, ApplyTidy DEF Service
  <2>5. After(DOMAIN served.sessions, c) \subseteq begun
    BY <1>1 DEF After, Service, Sendable, Creates
  <2>6. Service'
    BY <2>2, <2>4, <2>5 DEF Service
  <2>7. channel' \in Seq(Chunks) /\ TypePipe' /\ StreamInv' /\ OrderInv'
    BY <1>1, <2>1, <2>2 DEF Sequences, TypePipe, StreamInv, OrderInv
  <2>8. QED
    BY <2>1, <2>6, <2>7 DEF PipeInv
<1>3. CASE ~Direct
  <2>1. /\ channel' \in Seq(Chunks) /\ StreamInv' /\ served' = served
        /\ Len(channel) <= 2 * PipeSize => Len(channel') <= 2 * PipeSize
        /\ child = "running" => OnWay' = IF Fits(c) THEN Append(OnWay, c) ELSE OnWay
    BY <1>1, <1>3, PipeTakes
  <2>2. TypePipe' /\ Service'
    BY <1>1, <2>1 DEF TypePipe, Service
  <2>3. OrderInv'
    <3> SUFFICES ASSUME child' = "running"
                 PROVE  Ordered(OnWay', DOMAIN served'.sessions)
      BY DEF OrderInv
    <3>1. /\ child = "running" /\ Ordered(OnWay, DOMAIN served.sessions)
          /\ OnWay \in Seq(Commands)
      BY <1>1, OnWaySequence DEF OrderInv
    <3>2. Ordered(Append(OnWay, c), DOMAIN served.sessions)
      BY <1>1, <3>1, AddedOrder DEF Sendable
    <3>3. QED
      BY <2>1, <3>1, <3>2
  <2>4. QED
    BY <2>1, <2>2, <2>3 DEF PipeInv
<1>4. QED
  BY <1>2, <1>3

\* A call that touches neither the pipe nor the sessions.
LEMMA Quiet ==
    ASSUME PipeInv, begun \subseteq begun', UNCHANGED <<pipeVars, child, served>>
    PROVE  PipeInv' /\ OnWay' = OnWay
<1>1. UNCHANGED <<channel, longbuf, longbuf_fds, pending, child, served>>
  BY DEF pipeVars
<1>2. Stream' = Stream /\ OnWay' = OnWay
  BY <1>1 DEF Stream, OnWay
<1>3. TypePipe' /\ Service' /\ StreamInv' /\ OrderInv'
  BY <1>1, <1>2 DEF PipeInv, TypePipe, Service, StreamInv, OrderInv
<1>4. QED
  BY <1>2, <1>3 DEF PipeInv

\* What is sent for a task leaves others as they were.
LEMMA SentStatus ==
    ASSUME Sequences, NEW c \in Commands, child = "running", served' = served,
           OnWay' = IF Fits(c) THEN Append(OnWay, c) ELSE OnWay, NEW t
    PROVE  LET D == DOMAIN served.sessions IN
           /\ DOMAIN served'.sessions = D
           /\ Fresh(t, OnWay, D) /\ ~IsFor(c, t) => Fresh(t, OnWay', D)
           /\ Live(t, OnWay, D) /\ ~(IsFor(c, t) /\ Destroys(c)) => Live(t, OnWay', D)
           /\ Creates(c) /\ c.session_id = t /\ Fresh(t, OnWay, D) => Live(t, OnWay', D)
           /\ \A j \in DOMAIN OnWay' : OnWay'[j] = c \/ \E i \in DOMAIN OnWay : OnWay'[j] = OnWay[i]
<1> DEFINE w == OnWay
           D == DOMAIN served.sessions
<1>1. w \in Seq(Commands)
  BY OnWaySequence
<1>2. Creates(c) => Fits(c)
  BY DEF Creates, Fits
<1> HIDE DEF w, D
<1>3. /\ Fresh(t, w, D) /\ ~IsFor(c, t) => Fresh(t, Append(w, c), D)
      /\ Live(t, w, D) /\ ~(IsFor(c, t) /\ Destroys(c)) => Live(t, Append(w, c), D)
      /\ Creates(c) /\ c.session_id = t /\ Fresh(t, w, D) => Live(t, Append(w, c), D)
  BY <1>1, AddedStatus
<1>4. \A j \in DOMAIN Append(w, c) : Append(w, c)[j] = c \/ \E i \in DOMAIN w : Append(w, c)[j] = w[i]
  BY <1>1, AddedPlaces
<1>5. CASE Fits(c)
  <2>1. OnWay' = Append(w, c)
    BY <1>5 DEF w
  <2>2. QED
    BY <1>3, <1>4, <2>1 DEF w, D
<1>6. CASE ~Fits(c)
  <2>1. OnWay' = w
    BY <1>6 DEF w
  <2>2. QED
    BY <1>2, <1>6, <2>1 DEF w, D
<1>7. QED
  BY <1>5, <1>6

-----------------------------------------------------------------------------
(* The steps of iorapd that send nothing *)

Parts == TypeCalls /\ Sequences /\ PipeInv /\ CallInv /\ TodoInv /\ ChildInv

\* A call is for one task or for none.
LEMMA AtMostOne == Cardinality({}) <= 1 /\ \A x : Cardinality({x}) <= 1
<1>1. Cardinality({}) = 0
  BY FS_EmptySet
<1>2. \A x : Cardinality({x}) = 1
  BY FS_Singleton
<1>3. QED
  BY <1>1, <1>2

\* At first there are no tasks, commands or sessions.
LEMMA InitParts ==
    ASSUME Init
    PROVE  Parts
<1>1. /\ task = {} /\ todo = <<>> /\ pending = <<>> /\ longbuf = <<>> /\ channel = <<>>
      /\ longbuf_fds = <<>> /\ served = NoService /\ sessions = {} /\ begun = {} /\ pc = "idle"
      /\ finished = {} /\ file_map = {} /\ recents = <<>>
  BY DEF Init
<1>2. Sequences
  BY <1>1 DEF Sequences
<1>3. TypeCalls
  <2>1. /\ Cardinality(task) <= 1 /\ Len(recents) <= kRecentDataCount + 1
    BY <1>1, AtMostOne, PrefetchAssumption
  <2>2. child = "none" <=> Direct
    BY DEF Init
  <2>3. child \in {"none", "running", "exited", "killed"}
    BY DEF Init
  <2>4. strategy \in [Tasks -> ReadAheadKinds] /\ trace \in [Tasks -> {Missing} \cup OnDisk]
    BY DEF Init, ReadAheadKinds
  <2>5. session_kind \in Kinds
    BY DEF Init
  <2>6. QED
    BY <1>1, <2>1, <2>2, <2>3, <2>4, <2>5 DEF TypeCalls
<1>4. Stream = <<>> /\ Len(Stream) = 0 /\ DOMAIN Stream = {}
  BY <1>1 DEF Stream
<1>5. OnWay = <<>> /\ DOMAIN OnWay = {}
  <2>1. Stream \in Seq(Chunks)
    BY <1>2, OnWaySequence
  <2>2. Whole(Stream) \in Seq(Commands) /\ Len(Whole(Stream)) = Len(Stream) \div 2
    BY <2>1, WholeSequence
  <2>3. Len(Whole(Stream)) = 0
    BY <1>4, <2>2
  <2> DEFINE W == Whole(Stream)
  <2>4. W \in Seq(Commands) /\ Len(W) = 0
    BY <2>2, <2>3
  <2> HIDE DEF W
  <2>5. W = <<>>
    BY <2>4
  <2>6. OnWay = <<>> \o <<>>
    BY <1>1, <2>5 DEF OnWay, W
  <2>7. QED
    BY <2>6
<1>6. PipeInv
  <2>1. TypePipe
    BY <1>1, PrefetchAssumption DEF TypePipe
  <2>2. StreamInv
    BY <1>1, <1>4 DEF StreamInv, Paired, KeptFds
  <2>3. OrderInv
    BY <1>5 DEF OrderInv, Ordered
  <2>4. Service
    BY <1>1, NoServiceTidy DEF Service
  <2>5. QED
    BY <2>1, <2>2, <2>3, <2>4 DEF PipeInv
<1>7. IsFiniteSet(begun)
  BY <1>1, FS_EmptySet
<1>8. Held = {}
  BY <1>1 DEF Held
<1>9. CallInv
  BY <1>1, <1>7, <1>8 DEF CallInv
<1>10. TodoInv
  BY <1>1 DEF TodoInv
<1>11. ChildInv
  BY <1>1, <1>5, <1>8 DEF ChildInv
<1>12. QED
  BY <1>2, <1>3, <1>6, <1>9, <1>10, <1>11 DEF Parts

\* The task is new, so nothing on its way is for it.
LEMMA BeginTaskParts ==
    ASSUME Parts, NEW t \in Tasks, BeginTask(t)
    PROVE  Parts'
<1> USE DEF Parts
<1>1. /\ pc = "idle" /\ t \notin begun /\ begun' = begun \cup {t} /\ task' = {t}
      /\ pc' = IF UseSockets THEN "open" ELSE "create"
      /\ UNCHANGED <<session_kind, todo, trace, strategy, finished, sessions, file_map,
                     recents, channel, longbuf, longbuf_fds, pending, child, served>>
  BY DEF BeginTask, mapVars, pipeVars
<1>2. PipeInv' /\ OnWay' = OnWay
  BY <1>1, Quiet DEF pipeVars
<1>3. task = {} /\ Held = sessions /\ Held' = sessions
  BY <1>1 DEF TypeCalls, Held
<1>4. TypeCalls'
  <2>1. Cardinality(task') <= 1
    BY <1>1, AtMostOne
  <2>2. QED
    BY <1>1, <2>1 DEF TypeCalls, Direct
<1>5. Sequences'
  BY <1>1 DEF Sequences
<1>6. CallInv'
  <2>1. IsFiniteSet(begun')
    BY <1>1, FS_AddElement DEF CallInv
  <2>2. UseSockets' = UseSockets
    BY <1>1 DEF UseSockets
  <2>3. task' \cap finished' = {}
    BY <1>1 DEF TypeCalls
  <2>4. QED
    BY <1>1, <1>3, <2>1, <2>2, <2>3 DEF CallInv
<1>7. TodoInv'
  BY <1>1 DEF TodoInv
<1>8. ChildInv'
  <2> SUFFICES ASSUME child = "running"
               PROVE  /\ \A j \in DOMAIN OnWay : OnWay[j].choice # "kExit" => OnWay[j].session_id \in begun'
                      /\ Fresh(t, OnWay, DOMAIN served.sessions)
                      /\ \A u \in sessions : Live(u, OnWay, DOMAIN served.sessions)
    BY <1>1, <1>2, <1>3 DEF ChildInv
  <2>1. \A j \in DOMAIN OnWay : OnWay[j].choice # "kExit" => OnWay[j].session_id \in begun
    BY DEF ChildInv
  <2>2. t \notin DOMAIN served.sessions
    BY <1>1 DEF PipeInv, Service
  <2>3. Fresh(t, OnWay, DOMAIN served.sessions)
    BY <1>1, <2>1, <2>2 DEF Fresh, IsFor
  <2>4. QED
    BY <1>1, <1>3, <2>1, <2>3 DEF ChildInv
<1>9. QED
  BY <1>2, <1>4, <1>5, <1>6, <1>7, <1>8

\* What is to be sent is for a session that was created.
LEMMA OpenTraceFileParts ==
    ASSUME Parts, NEW t \in Tasks, OpenTraceFile(t)
    PROVE  Parts'
<1> USE DEF Parts
<1>1. /\ pc = "open" /\ ~UseSockets /\ task = {t}
      /\ UNCHANGED <<session_kind, begun, finished, sessions, file_map, recents, channel,
                     longbuf, longbuf_fds, pending, child, served>>
  BY DEF OpenTraceFile, mapVars, pipeVars
<1>2. PipeInv' /\ OnWay' = OnWay
  BY <1>1, Quiet DEF pipeVars
<1>3. /\ t \in begun /\ t \notin finished /\ t \in sessions
      /\ Held = sessions
  BY <1>1 DEF CallInv, Held
<1>4. CASE pc' = "idle" /\ task' = {} /\ UNCHANGED <<todo, trace, strategy>>
  <2>1. TypeCalls'
    <3>1. Cardinality(task') <= 1
      BY <1>4, AtMostOne
    <3>2. QED
      BY <1>1, <1>4, <3>1 DEF TypeCalls, Direct
  <2>2. Held' = sessions
    BY <1>1, <1>4 DEF Held
  <2>3. Sequences' /\ CallInv' /\ TodoInv' /\ ChildInv'
    BY <1>1, <1>2, <1>3, <1>4, <2>2 DEF Sequences, CallInv, TodoInv, ChildInv
  <2>4. QED
    BY <1>2, <2>1, <2>3
<1>5. ASSUME NEW file \in TraceFiles, NEW kind \in Strategies,
             /\ trace' = [trace EXCEPT ![t] = file]
             /\ strategy' = [strategy EXCEPT ![t] = kind]
             /\ todo' = Prefetching(t, file, kind) \o <<Command("kDumpSession", t)>>
             /\ pc' = "send" /\ task' = task
      PROVE  Parts'
  <2>1. TypeCalls'
    <3>1. file \in OnDisk /\ kind \in ReadAheadKinds
      BY PrefetchAssumption DEF OnDisk
    <3>2. QED
      BY <1>1, <1>5, <3>1 DEF TypeCalls, Direct
  <2>2. Held' = sessions
    BY <1>1, <1>5 DEF Held
  <2> DEFINE p == Prefetching(t, file, kind)
             d == Command("kDumpSession", t)
             S == Range(p) \cup {d}
  <2>3. p \in Seq(Range(p))
        /\ \A i \in DOMAIN p : p[i].choice \in {"kRegisterFilePath", "kReadAhead"} /\ p[i].session_id = t
    BY PrefetchingCalls
  <2>4. /\ S \subseteq Commands
        /\ \A c \in S : /\ c.choice \in {"kRegisterFilePath", "kReadAhead", "kDumpSession"}
                        /\ c.session_id = t
    <3>1. kind \in ReadAheadKinds
      BY PrefetchAssumption
    <3>2. Range(p) \subseteq OfEntries
      BY <3>1 DEF OfEntries
    <3>3. d \in OfSessions /\ d.choice = "kDumpSession" /\ d.session_id = t
      BY DEF OfSessions, Command
    <3>4. \A c \in Range(p) : \E i \in DOMAIN p : c = p[i]
      BY DEF Range
    <3> HIDE DEF p, d
    <3>5. QED
      BY <2>3, <3>2, <3>3, <3>4 DEF Commands
  <2>5. todo' \in Seq(S) /\ todo' \in Seq(Commands)
    <3>1. todo' = p \o <<d>>
      BY <1>5
    <3>2. d \in S /\ Range(p) \subseteq S
      OBVIOUS
    <3> DEFINE R == Range(p)
    <3>3. p \in Seq(R) /\ R \subseteq S
      BY <2>3, <3>2
    <3> HIDE DEF p, d, S, R
    <3>4. p \in Seq(S)
      BY <3>3
    <3>5. todo' \in Seq(S)
      BY <3>1, <3>2, <3>4
    <3>6. QED
      BY <2>4, <3>5
  <2>6. Sequences'
    BY <1>1, <2>5 DEF Sequences
  <2>7. CallInv'
    BY <1>1, <1>3, <1>5, <2>2 DEF CallInv
  <2>8. \A i \in DOMAIN todo' : todo'[i] \in S
    <3> HIDE DEF S
    <3>1. QED
      BY <2>5
  <2>9. TodoInv'
    <3> HIDE DEF S
    <3>1. QED
      BY <1>1, <1>3, <1>5, <2>4, <2>8 DEF TodoInv
  <2>10. ChildInv'
    BY <1>1, <1>2, <1>3, <1>5, <2>2 DEF ChildInv
  <2>11. QED
    BY <1>2, <2>1, <2>6, <2>7, <2>9, <2>10
<1>6. QED
  BY <1>1, <1>4, <1>5 DEF OpenTraceFile

\* The session is not created yet; its descriptor is of a file.
LEMMA OpenTraceFdParts ==
    ASSUME Parts, NEW t \in Tasks, OpenTraceFd(t)
    PROVE  Parts'
<1> USE DEF Parts
<1>1. /\ pc = "open" /\ UseSockets /\ task = {t}
      /\ UNCHANGED <<session_kind, todo, strategy, begun, finished, sessions, file_map,
                     recents, channel, longbuf, longbuf_fds, pending, child, served>>
  BY DEF OpenTraceFd, mapVars, pipeVars
<1>2. PipeInv' /\ OnWay' = OnWay
  BY <1>1, Quiet DEF pipeVars
<1>3. Held = sessions
  BY <1>1 DEF Held
<1>4. CASE pc' = "idle" /\ task' = {} /\ UNCHANGED trace
  <2>1. TypeCalls'
    <3>1. Cardinality(task') <= 1
      BY <1>4, AtMostOne
    <3>2. QED
      BY <1>1, <1>4, <3>1 DEF TypeCalls, Direct
  <2>2. Held' = sessions
    BY <1>1, <1>4 DEF Held
  <2>3. Sequences' /\ CallInv' /\ TodoInv' /\ ChildInv'
    BY <1>1, <1>2, <1>3, <1>4, <2>2 DEF Sequences, CallInv, TodoInv, ChildInv
  <2>4. QED
    BY <1>2, <2>1, <2>3
<1>5. ASSUME NEW file \in OnDisk,
             trace' = [trace EXCEPT ![t] = file], pc' = "create", task' = task
      PROVE  Parts'
  <2>1. TypeCalls'
    BY <1>1, <1>5 DEF TypeCalls, Direct
  <2>2. Held' = sessions
    BY <1>1, <1>5 DEF Held
  <2>3. trace'[t] \in OnDisk
    BY <1>5 DEF TypeCalls
  <2>4. Sequences' /\ TodoInv'
    BY <1>1, <1>5 DEF Sequences, TodoInv
  <2>5. CallInv'
    BY <1>1, <1>3, <1>5, <2>2, <2>3 DEF CallInv
  <2>6. ChildInv'
    BY <1>1, <1>2, <1>3, <1>5, <2>2 DEF ChildInv
  <2>7. QED
    BY <1>2, <2>1, <2>4, <2>5, <2>6
<1>6. QED
  BY <1>1, <1>4, <1>5 DEF OpenTraceFd

\* The task that is remembered has a session; one recent task is popped.
LEMMA RememberTaskParts ==
    ASSUME Parts, NEW t \in Tasks, RememberTask(t)
    PROVE  Parts'
<1> USE DEF Parts
<1>1. /\ pc = "send" /\ task = {t} /\ file_map' = file_map \cup {t}
      /\ pc' = "idle" /\ task' = {}
      /\ recents' = IF UseSockets THEN recents ELSE RecordRecent(t)
      /\ UNCHANGED <<session_kind, todo, trace, strategy, begun, finished, sessions,
                     channel, longbuf, longbuf_fds, pending, child, served>>
  BY DEF RememberTask, taskVars, pipeVars
<1>2. PipeInv' /\ OnWay' = OnWay
  BY <1>1, Quiet DEF pipeVars
<1>3. t \in begun /\ t \notin finished /\ t \in sessions /\ Held = sessions
  BY <1>1 DEF CallInv, Held
<1>4. Held' = sessions
  BY <1>1 DEF Held
<1>5. recents' \in Seq(Tasks) /\ Len(recents') <= kRecentDataCount + 1
  <2>1. recents \in Seq(Tasks) /\ kRecentDataCount \in Nat /\ Len(recents) <= kRecentDataCount + 1
    BY PrefetchAssumption DEF Sequences, TypeCalls
  <2> DEFINE drop == IF Len(recents) > kRecentDataCount THEN Len(recents) - kRecentDataCount ELSE 0
             rest == SubSeq(recents, drop + 1, Len(recents))
  <2>2. drop \in Nat /\ drop <= Len(recents) /\ Len(recents) - drop <= kRecentDataCount
    BY <2>1
  <2> HIDE DEF drop
  <2>3. rest \in Seq(Tasks) /\ Len(rest) = Len(recents) - drop
    BY <2>1, <2>2, RestPlaces
  <2> HIDE DEF rest
  <2>4. Append(rest, t) \in Seq(Tasks) /\ Len(Append(rest, t)) = Len(rest) + 1
    BY <2>3
  <2>5. Len(Append(rest, t)) <= kRecentDataCount + 1
    BY <2>1, <2>2, <2>3, <2>4
  <2>6. RecordRecent(t) = Append(rest, t)
    BY DEF RecordRecent, rest, drop
  <2>7. QED
    BY <1>1, <2>1, <2>4, <2>5, <2>6
<1>6. TypeCalls'
  <2>1. Cardinality(task') <= 1
    BY <1>1, AtMostOne
  <2>2. QED
    BY <1>1, <1>3, <1>5, <2>1 DEF TypeCalls, Direct
<1>7. Sequences'
  BY <1>1, <1>5 DEF Sequences
<1>8. CallInv'
  BY <1>1, <1>3, <1>4 DEF CallInv
<1>9. TodoInv'
  BY <1>1 DEF TodoInv
<1>10. ChildInv'
  BY <1>1, <1>2, <1>3, <1>4 DEF ChildInv
<1>11. QED
  BY <1>2, <1>6, <1>7, <1>8, <1>9, <1>10

\* A task that is not in the map has nothing to release.
LEMMA FinishUnknownTaskParts ==
    ASSUME Parts, NEW t \in Tasks, FinishUnknownTask(t)
    PROVE  Parts'
<1> USE DEF Parts
<1>1. /\ pc = "idle" /\ t \in begun \ (finished \cup file_map)
      /\ finished' = finished \cup {t}
      /\ UNCHANGED <<session_kind, pc, task, todo, trace, strategy, begun, sessions,
                     file_map, recents, channel, longbuf, longbuf_fds, pending, child, served>>
  BY DEF FinishUnknownTask, callVars, mapVars, pipeVars
<1>2. PipeInv' /\ OnWay' = OnWay
  BY <1>1, Quiet DEF pipeVars
<1>3. Held = sessions /\ Held' = sessions
  BY <1>1 DEF Held
<1>4. TypeCalls'
  BY <1>1 DEF TypeCalls, Direct
<1>5. Sequences' /\ TodoInv'
  BY <1>1 DEF Sequences, TodoInv
<1>6. CallInv'
  BY <1>1, <1>3 DEF CallInv, TypeCalls
<1>7. ChildInv'
  BY <1>1, <1>2, <1>3 DEF ChildInv
<1>8. QED
  BY <1>2, <1>4, <1>5, <1>6, <1>7

\* The session leaves the manager, but the task holds it still.
LEMMA FinishTaskParts ==
    ASSUME Parts, NEW t \in Tasks, FinishTask(t)
    PROVE  Parts'
<1> USE DEF Parts
<1>1. /\ pc = "idle" /\ t \in file_map /\ sessions' = sessions \ {t}
      /\ pc' = "finish" /\ task' = {t}
      /\ UNCHANGED <<session_kind, todo, trace, strategy, begun, finished, file_map,
                     recents, channel, longbuf, longbuf_fds, pending, child, served>>
  BY DEF FinishTask, taskVars, pipeVars
<1>2. PipeInv' /\ OnWay' = OnWay
  BY <1>1, Quiet DEF pipeVars
<1>3. Held = sessions /\ t \in sessions
  BY <1>1 DEF Held, CallInv
<1>4. Held' = sessions
  BY <1>1, <1>3 DEF Held
<1>5. TypeCalls'
  <2>1. Cardinality(task') <= 1
    BY <1>1, AtMostOne
  <2>2. QED
    BY <1>1, <2>1 DEF TypeCalls, Direct
<1>6. Sequences' /\ TodoInv'
  BY <1>1 DEF Sequences, TodoInv
<1>7. CallInv'
  BY <1>1, <1>3, <1>4 DEF CallInv, TypeCalls
<1>8. ChildInv'
  BY <1>1, <1>2, <1>3, <1>4 DEF ChildInv
<1>9. QED
  BY <1>2, <1>5, <1>6, <1>7, <1>8

\* Each session is in the list once.
LEMMA ListOfSessions ==
    ASSUME NEW S, IsFiniteSet(S)
    PROVE  LET order == SetToSeq(S) IN
           /\ order \in Seq(S) /\ DOMAIN order = 1 .. Len(order)
           /\ \A i, j \in DOMAIN order : order[i] = order[j] => i = j
<1> DEFINE n == Cardinality(S)
           order == SetToSeq(S)
<1>1. n \in Nat /\ ExistsBijection(1 .. n, S)
  BY FS_CardinalityType
<1>2. \E f \in [1 .. n -> S] : IsInjective(f)
  <2>1. PICK f : f \in Bijection(1 .. n, S)
    BY <1>1 DEF ExistsBijection
  <2>2. QED
    BY <2>1 DEF Bijection, Injection
<1>3. order \in [1 .. n -> S] /\ IsInjective(order)
  BY <1>2 DEF SetToSeq
<1> HIDE DEF order, n
<1>4. order = [i \in 1 .. n |-> order[i]] /\ \A i \in 1 .. n : order[i] \in S
  BY <1>3
<1>5. order \in Seq(S) /\ Len(order) = n
  BY <1>1, <1>4, FunctionIsSequence
<1>6. QED
  BY <1>3, <1>5 DEF IsInjective, order

\* kExit, and then each session once.
LEMMA DestroyReadAheadParts ==
    ASSUME Parts, DestroyReadAhead
    PROVE  Parts'
<1> USE DEF Parts
<1> DEFINE order == SetToSeq(sessions)
           destroy == [i \in DOMAIN order |-> Command("kDestroySession", order[i])]
           exit == [choice |-> "kExit"]
<1>1. /\ pc = "idle" /\ pc' = "exit" /\ file_map' = {} /\ sessions' = {}
      /\ todo' = IF Direct THEN destroy ELSE <<exit>> \o destroy
      /\ UNCHANGED <<session_kind, task, trace, strategy, begun, finished, recents,
                     channel, longbuf, longbuf_fds, pending, child, served>>
  BY DEF DestroyReadAhead, taskVars, pipeVars
<1>2. PipeInv' /\ OnWay' = OnWay
  BY <1>1, Quiet DEF pipeVars
<1>3. Held = sessions /\ Held' = {} /\ task = {}
  BY <1>1 DEF Held, TypeCalls
<1>4. /\ order \in Seq(sessions) /\ DOMAIN order = 1 .. Len(order)
      /\ \A i, j \in DOMAIN order : order[i] = order[j] => i = j
  <2>1. IsFiniteSet(sessions)
    BY FS_Subset DEF CallInv, TypeCalls
  <2>2. QED
    BY <2>1, ListOfSessions
<1> HIDE DEF order
<1>5. /\ destroy \in Seq(Commands) /\ Len(destroy) = Len(order) /\ Len(order) \in Nat
      /\ \A i \in 1 .. Len(order) : /\ destroy[i].choice = "kDestroySession"
                                    /\ destroy[i].session_id = order[i]
  <2> DEFINE n == Len(order)
             d == destroy
  <2>1. n \in Nat /\ DOMAIN order = 1 .. n
    BY <1>4
  <2>2. \A i \in 1 .. n : order[i] \in sessions /\ sessions \subseteq Tasks
    BY <1>4 DEF TypeCalls
  <2>3. d = [i \in 1 .. n |-> d[i]]
    BY <2>1
  <2>4. \A i \in 1 .. n : d[i].choice = "kDestroySession" /\ d[i].session_id = order[i]
    BY <2>1 DEF Command
  <2>5. \A i \in 1 .. n : d[i] \in Commands
    BY <2>1, <2>2 DEF Command, Commands, OfSessions
  <2> HIDE DEF n, d
  <2>6. d \in Seq(Commands) /\ Len(d) = n
    BY <2>1, <2>3, <2>5, FunctionIsSequence
  <2>7. QED
    BY <2>1, <2>4, <2>6 DEF n, d
<1> HIDE DEF destroy
\* kExit may come first; the rest is a session each.
<1>6. PICK k \in 0 .. 1 :
         /\ todo' \in Seq(Commands)
         /\ DOMAIN todo' = 1 .. Len(order) + k
         /\ \A i \in DOMAIN todo' :
               IF i = k THEN todo'[i].choice = "kExit"
               ELSE /\ i - k \in DOMAIN order
                    /\ todo'[i].choice = "kDestroySession"
                    /\ todo'[i].session_id = order[i - k]
  <2>1. CASE Direct
    <3>1. todo' = destroy
      BY <1>1, <2>1
    <3>2. todo' \in Seq(Commands) /\ DOMAIN todo' = 1 .. Len(order) + 0
      BY <1>5, <3>1
    <3>3. ASSUME NEW i \in DOMAIN todo'
          PROVE  /\ i # 0 /\ i - 0 \in DOMAIN order
                 /\ todo'[i].choice = "kDestroySession"
                 /\ todo'[i].session_id = order[i - 0]
      <4>1. i \in 1 .. Len(order) /\ i - 0 = i /\ i # 0
        BY <1>5, <3>2, <3>3
      <4>2. QED
        BY <1>4, <1>5, <3>1, <4>1
    <3>4. 0 \in 0 .. 1
      OBVIOUS
    <3>5. QED
      BY <3>2, <3>3, <3>4
  <2>2. CASE ~Direct
    <3>1. todo' = <<exit>> \o destroy
      BY <1>1, <2>2
    <3> DEFINE e == <<exit>>
    <3>2. e \in Seq(Commands) /\ Len(e) = 1 /\ e[1].choice = "kExit"
      <4>1. exit \in Commands
        BY DEF Commands
      <4>2. QED
        BY <4>1
    <3> HIDE DEF e
    <3>3. e \in Seq(Commands) /\ destroy \in Seq(Commands)
      BY <1>5, <3>2
    <3>4. /\ e \o destroy \in Seq(Commands) /\ Len(e \o destroy) = Len(e) + Len(destroy)
          /\ \A i \in 1 .. Len(e) : (e \o destroy)[i] = e[i]
          /\ \A i \in 1 .. Len(destroy) : (e \o destroy)[Len(e) + i] = destroy[i]
      BY <3>3, ConcatPlaces
    <3>5. todo' = e \o destroy
      BY <3>1 DEF e
    <3>6. /\ todo' \in Seq(Commands) /\ DOMAIN todo' = 1 .. Len(order) + 1
          /\ todo'[1].choice = "kExit"
          /\ \A i \in 1 .. Len(order) : todo'[1 + i] = destroy[i]
      BY <1>5, <3>2, <3>4, <3>5
    <3>7. ASSUME NEW i \in DOMAIN todo', i # 1
          PROVE  /\ i - 1 \in DOMAIN order
                 /\ todo'[i].choice = "kDestroySession"
                 /\ todo'[i].session_id = order[i - 1]
      <4>1. i - 1 \in 1 .. Len(order) /\ 1 + (i - 1) = i
        BY <1>5, <3>6, <3>7
      <4>2. todo'[i] = destroy[i - 1]
        BY <3>6, <4>1
      <4>3. QED
        BY <1>4, <1>5, <4>1, <4>2
    <3>8. 1 \in 0 .. 1
      OBVIOUS
    <3>9. QED
      BY <3>6, <3>7, <3>8
  <2>3. QED
    BY <2>1, <2>2
<1>7. \A i \in DOMAIN order : order[i] \in sessions
  BY <1>4
<1>8. Sequences'
  BY <1>1, <1>6 DEF Sequences
<1>9. TypeCalls'
  BY <1>1 DEF TypeCalls, Direct
<1>10. CallInv'
  BY <1>1, <1>3 DEF CallInv
<1>11. TodoInv'
  <2>1. \A i \in DOMAIN todo' :
           /\ todo'[i].choice \in {"kExit", "kDestroySession"}
           /\ todo'[i].choice # "kExit" => todo'[i].session_id \in begun
    BY <1>6, <1>7 DEF TypeCalls
  <2>2. ASSUME NEW i \in DOMAIN todo', NEW j \in DOMAIN todo', i < j,
               todo'[i].choice # "kExit"
        PROVE  ~IsFor(todo'[j], todo'[i].session_id)
    <3>1. /\ i # k /\ i - k \in DOMAIN order /\ todo'[i].session_id = order[i - k]
      BY <1>6, <2>2
    <3>2. CASE j = k
      BY <1>6, <3>2 DEF IsFor
    <3>3. CASE j # k
      <4>1. j - k \in DOMAIN order /\ todo'[j].session_id = order[j - k]
        BY <1>6, <3>3
      <4>2. i - k # j - k
        BY <1>5, <1>6, <2>2
      <4>3. order[i - k] # order[j - k]
        BY <1>4, <3>1, <4>1, <4>2
      <4>4. QED
        BY <3>1, <4>1, <4>3 DEF IsFor
    <3>4. QED
      BY <3>2, <3>3
  <2>3. QED
    BY <1>1, <2>1, <2>2 DEF TodoInv
<1>12. ChildInv'
  <2>1. \A i \in DOMAIN todo' : Destroys(todo'[i]) => todo'[i].session_id \in Held
    BY <1>3, <1>6, <1>7 DEF Destroys
  <2>2. QED
    BY <1>1, <1>2, <1>3, <2>1 DEF ChildInv
<1>13. QED
  BY <1>2, <1>8, <1>9, <1>10, <1>11, <1>12

\* Nothing is sent any more.
LEMMA ReturnFromMainParts ==
    ASSUME Parts, ReturnFromMain
    PROVE  Parts'
<1> USE DEF Parts
<1>1. /\ pc = "exit" /\ pc' = "gone"
      /\ UNCHANGED <<session_kind, task, todo, trace, strategy, begun, finished, sessions,
                     file_map, recents, channel, longbuf, longbuf_fds, pending, child, served>>
  BY DEF ReturnFromMain, taskVars, mapVars, pipeVars
<1>2. PipeInv' /\ OnWay' = OnWay
  BY <1>1, Quiet DEF pipeVars
<1>3. Held = sessions /\ Held' = sessions
  BY <1>1 DEF Held
<1>4. TypeCalls' /\ Sequences' /\ TodoInv' /\ CallInv' /\ ChildInv'
  BY <1>1, <1>2, <1>3 DEF TypeCalls, Direct, Sequences, TodoInv, CallInv, ChildInv
<1>5. QED
  BY <1>2, <1>4

\* What was sent stays in the pipe; a service in process is gone.
LEMMA DieParts ==
    ASSUME Parts, Die
    PROVE  Parts'
<1> USE DEF Parts
<1>1. /\ pc' = "dead" /\ task' = {} /\ todo' = <<>> /\ sessions' = {} /\ file_map' = {}
      /\ recents' = <<>> /\ served' = IF Direct THEN NoService ELSE served
      /\ UNCHANGED <<session_kind, trace, strategy, begun, finished, channel, longbuf,
                     longbuf_fds, pending, child>>
  BY DEF Die, taskVars, pipeVars
<1>2. Stream' = Stream /\ OnWay' = OnWay
  BY <1>1 DEF Stream, OnWay
<1>3. child = "running" => served' = served
  BY <1>1 DEF TypeCalls
<1>4. Service'
  BY <1>1, NoServiceTidy DEF Service, PipeInv
<1>5. PipeInv'
  BY <1>1, <1>2, <1>3, <1>4 DEF PipeInv, TypePipe, StreamInv, OrderInv
<1>6. Held' = {}
  BY <1>1 DEF Held
<1>7. TypeCalls'
  <2>1. Cardinality(task') <= 1 /\ Len(recents') <= kRecentDataCount + 1
    BY <1>1, AtMostOne, PrefetchAssumption
  <2>2. QED
    BY <1>1, <2>1 DEF TypeCalls, Direct
<1>8. Sequences' /\ TodoInv'
  BY <1>1 DEF Sequences, TodoInv
<1>9. CallInv'
  BY <1>1, <1>6 DEF CallInv
<1>10. ChildInv'
  BY <1>1, <1>2, <1>3, <1>6 DEF ChildInv
<1>11. QED
  BY <1>5, <1>7, <1>8, <1>9, <1>10

-----------------------------------------------------------------------------
(* The steps of iorapd that send a command *)

\* A fresh session is created, and is live from now on.
LEMMA CreateTaskSessionParts ==
    ASSUME Parts, NEW t \in Tasks, CreateTaskSession(t)
    PROVE  Parts'
<1> USE DEF Parts
<1> DEFINE c == Command("kCreateSession", t)
           D == DOMAIN served.sessions
<1>1. /\ pc = "create" /\ ~UseSockets /\ task = {t} /\ SendCommand(c)
      /\ sessions' = sessions \cup {t} /\ pc' = "open"
      /\ UNCHANGED <<session_kind, task, todo, trace, strategy, begun, finished, file_map,
                     recents, longbuf, longbuf_fds, pending, child>>
  BY DEF CreateTaskSession, taskVars
<1>2. /\ c \in Commands /\ c.choice = "kCreateSession" /\ c.session_id = t /\ Creates(c)
      /\ ~Destroys(c)
  BY DEF Command, Commands, OfSessions, Creates, Destroys
<1> HIDE DEF c
<1>3. t \in begun /\ (child = "running" => Fresh(t, OnWay, D)) /\ Held = sessions
  BY <1>1 DEF CallInv, ChildInv, Held
<1>4. Sendable(c)
  BY <1>2, <1>3 DEF Sendable, MayFollow
<1>5. /\ channel' \in Seq(Chunks) /\ PipeInv'
      /\ child = "running" => /\ served' = served
                              /\ OnWay' = IF Fits(c) THEN Append(OnWay, c) ELSE OnWay
  BY <1>1, <1>4, Sent
<1>6. Held' = sessions \cup {t}
  BY <1>1 DEF Held
<1>7. TypeCalls'
  BY <1>1, <1>3 DEF TypeCalls, Direct
<1>8. Sequences'
  BY <1>1, <1>5 DEF Sequences
<1>9. CallInv'
  BY <1>1, <1>3, <1>6 DEF CallInv, UseSockets
<1>10. TodoInv'
  BY <1>1 DEF TodoInv
<1>11. ChildInv'
  <2> SUFFICES ASSUME child = "running"
               PROVE  ChildInv'
    BY <1>1 DEF ChildInv
  <2>1. served' = served /\ OnWay' = IF Fits(c) THEN Append(OnWay, c) ELSE OnWay
    BY <1>5
  <2>2. \A j \in DOMAIN OnWay' : OnWay'[j].choice # "kExit" => OnWay'[j].session_id \in begun
    BY <1>2, <1>3, <2>1, SentStatus DEF ChildInv
  <2>3. ASSUME NEW u \in sessions
        PROVE  Live(u, OnWay', DOMAIN served'.sessions)
    <3>1. Live(u, OnWay, D)
      BY <1>3 DEF ChildInv
    <3>2. QED
      BY <1>2, <2>1, <3>1, SentStatus
  <2>4. Live(t, OnWay', DOMAIN served'.sessions)
    BY <1>2, <1>3, <2>1, SentStatus
  <2>5. QED
    BY <1>1, <1>6, <2>2, <2>3, <2>4 DEF ChildInv, UseSockets
<1>12. QED
  BY <1>5, <1>7, <1>8, <1>9, <1>10, <1>11

\* The same, with the descriptor of its trace.
LEMMA CreateFdSessionParts ==
    ASSUME Parts, NEW t \in Tasks, CreateFdSession(t)
    PROVE  Parts'
<1> USE DEF Parts
<1> DEFINE c == [choice |-> "kCreateFdSession", session_id |-> t, fd |-> trace[t]]
           d == Command("kDumpSession", t)
           D == DOMAIN served.sessions
<1>1. /\ pc = "create" /\ UseSockets /\ task = {t} /\ SendCommand(c)
      /\ sessions' = sessions \cup {t} /\ todo' = <<d>> /\ pc' = "send"
      /\ UNCHANGED <<session_kind, task, trace, strategy, begun, finished, file_map,
                     recents, longbuf, longbuf_fds, pending, child>>
  BY DEF CreateFdSession, taskVars
<1>2. /\ c \in Commands /\ c.choice = "kCreateFdSession" /\ c.session_id = t /\ Creates(c)
      /\ ~Destroys(c)
  <2>1. trace[t] \in OnDisk
    BY <1>1 DEF CallInv
  <2>2. QED
    BY <2>1 DEF Commands, OfDescriptors, Creates, Destroys
<1>3. d \in Commands /\ d.choice = "kDumpSession" /\ d.session_id = t
  BY DEF Command, Commands, OfSessions
<1> HIDE DEF c, d
<1>4. t \in begun /\ (child = "running" => Fresh(t, OnWay, D)) /\ Held = sessions
  BY <1>1 DEF CallInv, ChildInv, Held
<1>5. Sendable(c)
  BY <1>2, <1>4 DEF Sendable, MayFollow
<1>6. /\ channel' \in Seq(Chunks) /\ PipeInv'
      /\ child = "running" => /\ served' = served
                              /\ OnWay' = IF Fits(c) THEN Append(OnWay, c) ELSE OnWay
  BY <1>1, <1>5, Sent
<1>7. Held' = sessions \cup {t}
  BY <1>1 DEF Held
<1>8. todo' \in Seq(Commands) /\ DOMAIN todo' = {1} /\ todo'[1] = d
  BY <1>1, <1>3
<1>9. TypeCalls'
  BY <1>1, <1>4 DEF TypeCalls, Direct
<1>10. Sequences'
  BY <1>1, <1>6, <1>8 DEF Sequences
<1>11. CallInv'
  BY <1>1, <1>4, <1>7 DEF CallInv, UseSockets
<1>12. TodoInv'
  BY <1>1, <1>3, <1>4, <1>8 DEF TodoInv
<1>13. ChildInv'
  <2> SUFFICES ASSUME child = "running"
               PROVE  ChildInv'
    BY <1>1 DEF ChildInv
  <2>1. served' = served /\ OnWay' = IF Fits(c) THEN Append(OnWay, c) ELSE OnWay
    BY <1>6
  <2>2. \A j \in DOMAIN OnWay' : OnWay'[j].choice # "kExit" => OnWay'[j].session_id \in begun
    BY <1>2, <1>4, <2>1, SentStatus DEF ChildInv
  <2>3. ASSUME NEW u \in sessions
        PROVE  Live(u, OnWay', DOMAIN served'.sessions)
    <3>1. Live(u, OnWay, D)
      BY <1>4 DEF ChildInv
    <3>2. QED
      BY <1>2, <2>1, <3>1, SentStatus
  <2>4. Live(t, OnWay', DOMAIN served'.sessions)
    BY <1>2, <1>4, <2>1, SentStatus
  <2>5. QED
    BY <1>1, <1>7, <2>2, <2>3, <2>4 DEF ChildInv
<1>14. QED
  BY <1>6, <1>9, <1>10, <1>11, <1>12, <1>13

\* Each command of the call in progress finds its session alive.
LEMMA SendNextParts ==
    ASSUME Parts, SendNext
    PROVE  Parts'
<1> USE DEF Parts
<1> DEFINE c == Head(todo)
           D == DOMAIN served.sessions
<1>1. /\ pc \in {"send", "exit"} /\ todo # <<>> /\ SendCommand(c) /\ todo' = Tail(todo)
      /\ UNCHANGED <<session_kind, pc, task, trace, strategy, begun, finished, sessions,
                     file_map, recents, longbuf, longbuf_fds, pending, child>>
  BY DEF SendNext, taskVars, mapVars
<1>2. /\ todo' \in Seq(Commands) /\ c \in Commands /\ c = todo[1] /\ 1 \in DOMAIN todo
      /\ \A i \in DOMAIN todo' : i \in Nat /\ i >= 1 /\ i + 1 \in DOMAIN todo
                                 /\ todo'[i] = todo[i + 1]
  BY <1>1, LeftPlaces DEF Sequences
<1> HIDE DEF c
<1>3. Held = sessions /\ Held' = sessions
  BY <1>1 DEF Held
<1>4. c.choice # "kExit" => c.session_id \in begun
  BY <1>2 DEF TodoInv
<1>5. pc = "send" => ~Creates(c) /\ ~Destroys(c) /\ c.choice # "kExit" /\ c.session_id \in sessions
  BY <1>2 DEF TodoInv, CallInv, Creates, Destroys
<1>6. pc = "exit" => ~Creates(c) /\ (c.choice = "kExit" \/ Destroys(c)) /\ sessions = {}
  BY <1>2 DEF TodoInv, CallInv, Creates, Destroys
<1>7. child = "running" => MayFollow(c, OnWay, D)
  <2> SUFFICES ASSUME child = "running"
               PROVE  MayFollow(c, OnWay, D)
    OBVIOUS
  <2>1. CASE pc = "send"
    <3>1. Live(c.session_id, OnWay, D)
      BY <1>3, <1>5, <2>1 DEF ChildInv
    <3>2. QED
      BY <1>5, <2>1, <3>1 DEF MayFollow
  <2>2. CASE pc = "exit" /\ Destroys(c)
    <3>1. Live(c.session_id, OnWay, D)
      BY <1>2, <2>2 DEF ChildInv
    <3>2. QED
      BY <1>6, <2>2, <3>1 DEF MayFollow
  <2>3. CASE c.choice = "kExit"
    BY <2>3 DEF MayFollow
  <2>4. QED
    BY <1>1, <1>6, <2>1, <2>2, <2>3
<1>8. Sendable(c)
  BY <1>2, <1>4, <1>7 DEF Sendable
<1>9. /\ channel' \in Seq(Chunks) /\ PipeInv'
      /\ child = "running" => /\ served' = served
                              /\ OnWay' = IF Fits(c) THEN Append(OnWay, c) ELSE OnWay
  BY <1>1, <1>8, Sent
<1>10. TypeCalls'
  BY <1>1 DEF TypeCalls, Direct
<1>11. Sequences'
  BY <1>1, <1>2, <1>9 DEF Sequences
<1>12. CallInv'
  BY <1>1, <1>3 DEF CallInv, UseSockets
<1>13. TodoInv'
  <2>1. \A i \in DOMAIN todo' : todo'[i].choice # "kExit" => todo'[i].session_id \in begun
    BY <1>2 DEF TodoInv
  <2>2. pc = "send" => \A i \in DOMAIN todo' :
           /\ todo'[i].choice \in {"kRegisterFilePath", "kReadAhead", "kDumpSession"}
           /\ todo'[i].session_id \in task
    BY <1>2 DEF TodoInv
  <2>3. ASSUME pc = "exit", NEW i \in DOMAIN todo'
        PROVE  /\ todo'[i].choice \in {"kExit", "kDestroySession"}
               /\ \A j \in DOMAIN todo' : i < j /\ todo'[i].choice # "kExit"
                     => ~IsFor(todo'[j], todo'[i].session_id)
    <3>1. todo'[i].choice \in {"kExit", "kDestroySession"}
      BY <1>2, <2>3 DEF TodoInv
    <3>2. ASSUME NEW j \in DOMAIN todo', i < j, todo'[i].choice # "kExit"
          PROVE  ~IsFor(todo'[j], todo'[i].session_id)
      <4>1. /\ i + 1 \in DOMAIN todo /\ j + 1 \in DOMAIN todo /\ i + 1 < j + 1
            /\ todo'[i] = todo[i + 1] /\ todo'[j] = todo[j + 1]
        BY <1>2, <3>2
      <4>2. QED
        BY <2>3, <3>2, <4>1 DEF TodoInv
    <3>3. QED
      BY <3>1, <3>2
  <2>4. QED
    BY <1>1, <2>1, <2>2, <2>3 DEF TodoInv
<1>14. ChildInv'
  <2> SUFFICES ASSUME child = "running"
               PROVE  ChildInv'
    BY <1>1 DEF ChildInv
  <2>1. served' = served /\ OnWay' = IF Fits(c) THEN Append(OnWay, c) ELSE OnWay
    BY <1>9
  <2>2. \A j \in DOMAIN OnWay' : OnWay'[j].choice # "kExit" => OnWay'[j].session_id \in begun
    BY <1>2, <1>4, <2>1, SentStatus DEF ChildInv
  <2>3. ASSUME NEW u \in sessions
        PROVE  Live(u, OnWay', DOMAIN served'.sessions)
    <3>1. Live(u, OnWay, D) /\ ~Destroys(c)
      BY <1>1, <1>3, <1>5, <1>6 DEF ChildInv
    <3>2. QED
      BY <1>2, <2>1, <3>1, SentStatus
  <2>4. ASSUME pc = "exit", NEW i \in DOMAIN todo', Destroys(todo'[i])
        PROVE  Live(todo'[i].session_id, OnWay', DOMAIN served'.sessions)
    <3> DEFINE u == todo'[i].session_id
    <3>1. i + 1 \in DOMAIN todo /\ todo'[i] = todo[i + 1] /\ 1 < i + 1
      BY <1>2
    <3>2. Live(u, OnWay, D)
      BY <2>4, <3>1 DEF ChildInv
    <3>3. ~(IsFor(c, u) /\ Destroys(c))
      <4>1. IsFor(todo[i + 1], u)
        BY <2>4, <3>1 DEF IsFor, Destroys
      <4>2. c.choice # "kExit" => ~IsFor(todo[i + 1], c.session_id)
        BY <1>2, <2>4, <3>1 DEF TodoInv
      <4>3. QED
        BY <4>1, <4>2 DEF IsFor
    <3> HIDE DEF u
    <3>4. Live(u, OnWay', DOMAIN served'.sessions)
      BY <1>2, <2>1, <3>2, <3>3, SentStatus
    <3>5. QED
      BY <3>4 DEF u
  <2>5. QED
    BY <1>1, <1>3, <2>2, <2>3, <2>4 DEF ChildInv
<1>15. QED
  BY <1>9, <1>10, <1>11, <1>12, <1>13, <1>14

\* The session is destroyed after everything else for it was sent.
LEMMA ReleaseTaskParts ==
    ASSUME Parts, NEW t \in Tasks, ReleaseTask(t)
    PROVE  Parts'
<1> USE DEF Parts
<1> DEFINE c == Command("kDestroySession", t)
           D == DOMAIN served.sessions
<1>1. /\ pc = "finish" /\ task = {t} /\ SendCommand(c)
      /\ file_map' = file_map \ {t} /\ finished' = finished \cup {t}
      /\ pc' = "idle" /\ task' = {}
      /\ UNCHANGED <<session_kind, todo, trace, strategy, begun, sessions, recents,
                     longbuf, longbuf_fds, pending, child>>
  BY DEF ReleaseTask
<1>2. c \in Commands /\ c.choice = "kDestroySession" /\ c.session_id = t /\ ~Creates(c)
  BY DEF Command, Commands, OfSessions, Creates
<1> HIDE DEF c
<1>3. /\ t \in begun /\ t \notin sessions /\ Held = sessions \cup {t} /\ Held' = sessions
      /\ t \in file_map
  BY <1>1 DEF CallInv, Held
<1>4. Sendable(c)
  BY <1>2, <1>3 DEF Sendable, MayFollow, ChildInv
<1>5. /\ channel' \in Seq(Chunks) /\ PipeInv'
      /\ child = "running" => /\ served' = served
                              /\ OnWay' = IF Fits(c) THEN Append(OnWay, c) ELSE OnWay
  BY <1>1, <1>4, Sent
<1>6. TypeCalls'
  <2>1. Cardinality(task') <= 1
    BY <1>1, AtMostOne
  <2>2. QED
    BY <1>1, <1>3, <2>1 DEF TypeCalls, Direct
<1>7. Sequences'
  BY <1>1, <1>5 DEF Sequences
<1>8. CallInv'
  BY <1>1, <1>3 DEF CallInv
<1>9. TodoInv'
  BY <1>1 DEF TodoInv
<1>10. ChildInv'
  <2> SUFFICES ASSUME child = "running"
               PROVE  ChildInv'
    BY <1>1 DEF ChildInv
  <2>1. served' = served /\ OnWay' = IF Fits(c) THEN Append(OnWay, c) ELSE OnWay
    BY <1>5
  <2>2. \A j \in DOMAIN OnWay' : OnWay'[j].choice # "kExit" => OnWay'[j].session_id \in begun
    BY <1>2, <1>3, <2>1, SentStatus DEF ChildInv
  <2>3. ASSUME NEW u \in sessions
        PROVE  Live(u, OnWay', DOMAIN served'.sessions)
    <3>1. Live(u, OnWay, D) /\ ~IsFor(c, u)
      BY <1>2, <1>3 DEF ChildInv, IsFor
    <3>2. QED
      BY <1>2, <2>1, <3>1, SentStatus
  <2>4. QED
    BY <1>1, <1>3, <2>2, <2>3 DEF ChildInv
<1>11. QED
  BY <1>5, <1>6, <1>7, <1>8, <1>9, <1>10

-----------------------------------------------------------------------------
(* The steps of iorap.prefetcherd *)

\* A read changes neither what is on its way nor its order.
LEMMA ReadCommandsParts ==
    ASSUME Parts, ReadCommands
    PROVE  Parts'
<1> USE DEF Parts
<1>1. UNCHANGED <<session_kind, pc, task, todo, trace, strategy, begun, finished, sessions,
                  file_map, recents, child, served>>
  BY DEF ReadCommands, callVars, taskVars, mapVars
<1>2. /\ Sequences' /\ StreamInv' /\ OnWay' = OnWay /\ Len(longbuf') <= 1
      /\ Len(longbuf_fds') <= 1 /\ Len(channel') <= Len(channel)
  BY ReadParses DEF PipeInv
<1>3. Len(channel') <= 2 * PipeSize
  <2>1. channel \in Seq(Chunks) /\ channel' \in Seq(Chunks) /\ Len(channel) <= 2 * PipeSize
    BY <1>2 DEF Sequences, PipeInv, TypePipe
  <2>2. Len(channel) \in Nat /\ Len(channel') \in Nat
    BY <2>1
  <2>3. QED
    BY <1>2, <2>1, <2>2, PrefetchAssumption
<1>4. PipeInv'
  BY <1>1, <1>2, <1>3 DEF PipeInv, TypePipe, OrderInv, Service
<1>5. Held' = Held
  BY <1>1 DEF Held
<1>6. TypeCalls' /\ CallInv' /\ TodoInv' /\ ChildInv'
  BY <1>1, <1>2, <1>5 DEF TypeCalls, Direct, CallInv, UseSockets, TodoInv, ChildInv
<1>7. QED
  BY <1>2, <1>4, <1>6

\* The first command on its way is carried out on its session.
LEMMA ReceiveCommandParts ==
    ASSUME Parts, ReceiveCommand
    PROVE  Parts'
<1> USE DEF Parts
<1> DEFINE c == Head(OnWay)
           D == DOMAIN served.sessions
<1>1. /\ child = "running" /\ pending # <<>> /\ Head(pending).choice # "kExit"
      /\ served' = Apply(served, Head(pending)) /\ pending' = Tail(pending)
      /\ UNCHANGED <<session_kind, pc, task, todo, trace, strategy, begun, finished, sessions,
                     file_map, recents, channel, longbuf, longbuf_fds, child>>
  BY DEF ReceiveCommand, callVars, taskVars, mapVars
<1>2. /\ OnWay \in Seq(Commands) /\ OnWay # <<>> /\ c = Head(pending) /\ c \in Commands
      /\ Tail(OnWay) = Tail(pending) \o Whole(Stream) /\ Tail(pending) \in Seq(Commands)
  BY <1>1, ReceiveShifts
<1>3. Stream' = Stream
  BY <1>1 DEF Stream
<1>4. OnWay' = Tail(OnWay)
  BY <1>1, <1>2, <1>3 DEF OnWay
<1>5. /\ c = OnWay[1] /\ 1 \in DOMAIN OnWay
      /\ \A i \in DOMAIN OnWay' : i + 1 \in DOMAIN OnWay /\ OnWay'[i] = OnWay[i + 1]
  BY <1>2, <1>4, LeftPlaces
<1>6. c.session_id \in begun
  BY <1>1, <1>2, <1>5 DEF ChildInv
<1>7. Tidy(served') /\ DOMAIN served'.sessions = After(D, c)
  <2>1. c.choice = "kCreateFdSession" => c.fd \in OnDisk
    BY <1>2, CommandKinds
  <2>2. Tidy(served) /\ served' = Apply(served, c)
    BY <1>1, <1>2 DEF PipeInv, Service
  <2> HIDE DEF c
  <2>3. QED
    BY <2>1, <2>2, ApplyTidy
<1>8. Service'
  BY <1>1, <1>6, <1>7 DEF Service, PipeInv, After
<1>9. OrderInv'
  <2>1. Ordered(OnWay, D)
    BY <1>1 DEF PipeInv, OrderInv
  <2>2. Ordered(Tail(OnWay), After(D, c))
    BY <1>1, <1>2, <2>1, LeftOrder
  <2>3. QED
    BY <1>4, <1>7, <2>2 DEF OrderInv
<1>10. TypePipe' /\ StreamInv'
  BY <1>1, <1>3 DEF PipeInv, TypePipe, StreamInv
<1>11. PipeInv'
  BY <1>8, <1>9, <1>10 DEF PipeInv
<1>12. Sequences'
  BY <1>1, <1>2 DEF Sequences
<1>13. Held' = Held
  BY <1>1 DEF Held
<1>14. TypeCalls' /\ CallInv' /\ TodoInv'
  BY <1>1, <1>13 DEF TypeCalls, Direct, CallInv, UseSockets, TodoInv
<1>15. ChildInv'
  <2>1. \A u : /\ Fresh(u, OnWay, D) => Fresh(u, OnWay', DOMAIN served'.sessions)
               /\ Live(u, OnWay, D) => Live(u, OnWay', DOMAIN served'.sessions)
    BY <1>1, <1>2, <1>4, <1>7, LeftStatus
  <2>2. \A j \in DOMAIN OnWay' : OnWay'[j].choice # "kExit" => OnWay'[j].session_id \in begun
    BY <1>1, <1>5 DEF ChildInv
  <2>3. QED
    BY <1>1, <1>13, <2>1, <2>2 DEF ChildInv, UseSockets
<1>16. QED
  BY <1>11, <1>12, <1>14, <1>15

\* A child that has ended has no sessions, and nothing is on its way to it.
LEMMA EndParts ==
    ASSUME Parts, child = "running", child' \in {"exited", "killed"}, served' = NoService,
           pending' = <<>>, longbuf' \in {longbuf, <<>>}, longbuf_fds' \in {longbuf_fds, <<>>},
           UNCHANGED <<session_kind, callVars, taskVars, mapVars, channel>>
    PROVE  Parts'
<1> USE DEF Parts
<1>1. UNCHANGED <<session_kind, pc, task, todo, trace, strategy, begun, finished, sessions,
                  file_map, recents, channel>>
  BY DEF callVars, taskVars, mapVars
<1>2. ~Direct /\ child' # "none" /\ child' # "running"
  BY DEF TypeCalls
<1>3. Service'
  BY NoServiceTidy DEF Service
<1>4. TypePipe'
  BY <1>1 DEF PipeInv, TypePipe
<1>5. PipeInv'
  BY <1>2, <1>3, <1>4 DEF PipeInv, StreamInv, OrderInv
<1>6. TypeCalls'
  BY <1>1, <1>2 DEF TypeCalls, Direct
<1>7. Sequences'
  <2>1. longbuf' = longbuf \/ longbuf' = <<>>
    OBVIOUS
  <2>2. longbuf \in Seq(Chunks)
    BY DEF Sequences
  <2>3. longbuf' \in Seq(Chunks)
    <3>1. CASE longbuf' = longbuf
      BY <2>2, <3>1
    <3>2. CASE longbuf' = <<>>
      BY <3>2
    <3>3. QED
      BY <2>1, <3>1, <3>2
  <2>4. QED
    BY <1>1, <2>3 DEF Sequences
<1>8. Held' = Held
  BY <1>1 DEF Held
<1>9. CallInv' /\ TodoInv' /\ ChildInv'
  BY <1>1, <1>2, <1>8 DEF CallInv, UseSockets, TodoInv, ChildInv
<1>10. QED
  BY <1>5, <1>6, <1>7, <1>9

\* The child ends, in either way.
LEMMA ExitParts ==
    ASSUME Parts, Exit \/ Kill
    PROVE  Parts'
  BY EndParts DEF Exit, Kill

\* Nothing changes.
LEMMA StutterParts ==
    ASSUME Parts, UNCHANGED vars
    PROVE  Parts'
<1> USE DEF Parts
<1>1. UNCHANGED <<session_kind, pc, task, todo, trace, strategy, begun, finished, sessions,
                  file_map, recents, channel, longbuf, longbuf_fds, pending, child, served>>
  BY DEF vars, callVars, taskVars, mapVars, pipeVars
<1>2. PipeInv' /\ OnWay' = OnWay
  BY <1>1, Quiet DEF pipeVars
<1>3. Held' = Held
  BY <1>1 DEF Held
<1>4. TypeCalls' /\ Sequences' /\ CallInv' /\ TodoInv' /\ ChildInv'
  BY <1>1, <1>2, <1>3 DEF TypeCalls, Direct, Sequences, CallInv, UseSockets, TodoInv, ChildInv
<1>5. QED
  BY <1>2, <1>4

\* Every step keeps the invariant.
LEMMA NextParts ==
    ASSUME Parts, [Next]_vars
    PROVE  Parts'
<1>1. ASSUME NEW t \in Tasks,
             \/ BeginTask(t) \/ CreateTaskSession(t) \/ OpenTraceFile(t)
             \/ OpenTraceFd(t) \/ CreateFdSession(t) \/ RememberTask(t)
             \/ FinishUnknownTask(t) \/ FinishTask(t) \/ ReleaseTask(t)
      PROVE  Parts'
  BY <1>1, BeginTaskParts, CreateTaskSessionParts, OpenTraceFileParts, OpenTraceFdParts,
     CreateFdSessionParts, RememberTaskParts, FinishUnknownTaskParts, FinishTaskParts,
     ReleaseTaskParts
<1>2. ASSUME SendNext \/ DestroyReadAhead \/ ReturnFromMain \/ Die
      PROVE  Parts'
  BY <1>2, SendNextParts, DestroyReadAheadParts, ReturnFromMainParts, DieParts
<1>3. ASSUME Daemon
      PROVE  Parts'
  BY <1>3, ReadCommandsParts, ReceiveCommandParts, ExitParts DEF Daemon
<1>4. CASE UNCHANGED vars
  BY <1>4, StutterParts
<1>5. QED
  BY <1>1, <1>2, <1>3, <1>4 DEF Next, Launch

-----------------------------------------------------------------------------
(* Carrying out the commands of a sequence *)

\* f is the service after each of the commands of w, from s on.
Steps(f, kind, s, w) ==
    /\ f[0] = s
    /\ \A n \in 1 .. Len(w) : f[n] = Deliver(kind, f[n - 1], w[n])

\* There is such a function, whatever the commands.
LEMMA CommandsFold ==
    ASSUME NEW kind, NEW s, NEW w, Len(w) \in Nat
    PROVE  \E f : Steps(f, kind, s, w) /\ AfterCommands(kind, s, w) = f[Len(w)]
<1> DEFINE N == Len(w)
           Defines(f, m) ==
               f = [n \in 0 .. m |-> IF n = 0 THEN s ELSE Deliver(kind, f[n - 1], w[n])]
           Good == {m \in Nat : m <= N => \E f : Defines(f, m)}
<1>1. 0 \in Good
  <2>1. Defines([n \in 0 .. 0 |-> s], 0)
    OBVIOUS
  <2>2. QED
    BY <2>1
<1>2. ASSUME NEW m \in Nat, m \in Good
      PROVE  m + 1 \in Good
  <2>1. SUFFICES ASSUME m + 1 <= N
                 PROVE  \E f : Defines(f, m + 1)
    OBVIOUS
  <2>2. PICK f : Defines(f, m)
    BY <1>2, <2>1
  <2> DEFINE g == [n \in 0 .. m + 1 |-> IF n <= m THEN f[n] ELSE Deliver(kind, f[m], w[m + 1])]
  <2>3. \A n \in 0 .. m : f[n] = IF n = 0 THEN s ELSE Deliver(kind, f[n - 1], w[n])
    BY <2>2
  <2>4. DOMAIN g = 0 .. m + 1 /\ \A n \in 0 .. m : g[n] = f[n]
    OBVIOUS
  <2>5. g[m + 1] = Deliver(kind, f[m], w[m + 1])
    OBVIOUS
  <2>6. g = [n \in 0 .. m + 1 |-> g[n]]
    OBVIOUS
  <2> HIDE DEF g
  <2>7. \A n \in 0 .. m + 1 : g[n] = IF n = 0 THEN s ELSE Deliver(kind, g[n - 1], w[n])
    <3> SUFFICES ASSUME NEW n \in 0 .. m + 1
                 PROVE  g[n] = IF n = 0 THEN s ELSE Deliver(kind, g[n - 1], w[n])
      OBVIOUS
    <3>1. CASE n = m + 1
      <4>1. n - 1 = m /\ n # 0
        BY <3>1
      <4>2. QED
        BY <2>4, <2>5, <3>1, <4>1
    <3>2. CASE n \in 0 .. m
      BY <2>3, <2>4, <3>2
    <3>3. QED
      BY <3>1, <3>2
  <2>8. Defines(g, m + 1)
    BY <2>6, <2>7
  <2>9. QED
    BY <2>8
<1>3. N \in Good
  <2> HIDE DEF Good
  <2>1. Nat \subseteq Good
    BY <1>1, <1>2, Induction
  <2>2. QED
    BY <2>1
<1> DEFINE after == CHOOSE f : Defines(f, N)
<1>4. \E f : Defines(f, N)
  BY <1>3
<1>5. Defines(after, N)
  BY <1>4
<1>6. AfterCommands(kind, s, w) = after[N]
  BY DEF AfterCommands
<1> HIDE DEF after
<1>7. Steps(after, kind, s, w)
  BY <1>5 DEF Steps
<1>8. QED
  BY <1>6, <1>7

\* It is determined by the commands.
LEMMA FoldUnique ==
    ASSUME NEW kind, NEW s, NEW w, Len(w) \in Nat, NEW h, Steps(h, kind, s, w)
    PROVE  AfterCommands(kind, s, w) = h[Len(w)]
<1>1. PICK f : Steps(f, kind, s, w) /\ AfterCommands(kind, s, w) = f[Len(w)]
  BY CommandsFold
<1> DEFINE T == {n \in Nat : n <= Len(w) => f[n] = h[n]}
<1>2. 0 \in T
  BY <1>1 DEF Steps
<1>3. ASSUME NEW n \in Nat, n \in T
      PROVE  n + 1 \in T
  <2> SUFFICES ASSUME n + 1 <= Len(w)
               PROVE  f[n + 1] = h[n + 1]
    OBVIOUS
  <2>1. n + 1 \in 1 .. Len(w) /\ (n + 1) - 1 = n
    OBVIOUS
  <2>2. f[n] = h[n]
    BY <1>3
  <2>3. f[n + 1] = Deliver(kind, f[n], w[n + 1]) /\ h[n + 1] = Deliver(kind, h[n], w[n + 1])
    BY <1>1, <2>1 DEF Steps
  <2>4. QED
    BY <2>2, <2>3
<1> HIDE DEF T
<1>4. Nat \subseteq T
  BY <1>2, <1>3, Induction
<1>5. QED
  BY <1>1, <1>4 DEF T

\* The commands of two sequences are carried out one after the other.
LEMMA FoldConcat ==
    ASSUME NEW kind, NEW s, NEW S, NEW x \in Seq(S), NEW y \in Seq(S)
    PROVE  AfterCommands(kind, s, x \o y) = AfterCommands(kind, AfterCommands(kind, s, x), y)
<1> DEFINE w == x \o y
           m == Len(x)
           k == Len(y)
<1>1. /\ m \in Nat /\ k \in Nat /\ Len(w) = m + k
      /\ \A i \in 1 .. m : w[i] = x[i]
      /\ \A i \in 1 .. k : w[m + i] = y[i]
  OBVIOUS
<1> HIDE DEF w
<1>2. PICK f : Steps(f, kind, s, x) /\ AfterCommands(kind, s, x) = f[m]
  BY <1>1, CommandsFold
<1> HIDE DEF m, k
<1>3. PICK g : Steps(g, kind, f[m], y) /\ AfterCommands(kind, f[m], y) = g[k]
  BY <1>1, CommandsFold DEF k
<1> DEFINE h == [n \in 0 .. m + k |-> IF n <= m THEN f[n] ELSE g[n - m]]
<1>4. (\A n \in 0 .. m : h[n] = f[n]) /\ (\A n \in 1 .. k : h[m + n] = g[n])
  BY <1>1
<1>5. h[m + k] = g[k] /\ h[m] = g[0]
  BY <1>1, <1>3, <1>4 DEF Steps
<1> HIDE DEF h
<1>6. h[0] = s
  BY <1>1, <1>2, <1>4 DEF Steps
<1>7. ASSUME NEW n \in 1 .. m + k
      PROVE  h[n] = Deliver(kind, h[n - 1], w[n])
  <2>1. CASE n <= m
    <3>1. n \in 1 .. m /\ n \in 0 .. m /\ n - 1 \in 0 .. m
      BY <1>1, <2>1
    <3>2. f[n] = Deliver(kind, f[n - 1], x[n])
      BY <1>2, <3>1 DEF Steps, m
    <3>3. QED
      BY <1>1, <1>4, <3>1, <3>2
  <2>2. CASE n > m
    <3> DEFINE i == n - m
    <3>1. i \in 1 .. k /\ n = m + i /\ n - 1 = m + (i - 1) /\ (i = 1 \/ i - 1 \in 1 .. k)
      BY <1>1, <2>2
    <3> HIDE DEF i
    <3>2. g[i] = Deliver(kind, g[i - 1], y[i])
      BY <1>3, <3>1 DEF Steps, k
    <3>3. h[n] = g[i] /\ w[n] = y[i]
      BY <1>1, <1>4, <3>1
    <3>4. h[n - 1] = g[i - 1]
      <4>1. CASE i = 1
        <5>1. n - 1 = m /\ i - 1 = 0
          BY <1>1, <3>1, <4>1
        <5>2. QED
          BY <1>5, <5>1
      <4>2. CASE i - 1 \in 1 .. k
        BY <1>4, <3>1, <4>2
      <4>3. QED
        BY <3>1, <4>1, <4>2
    <3>5. QED
      BY <3>2, <3>3, <3>4
  <2>3. QED
    BY <1>1, <2>1, <2>2
<1>8. Steps(h, kind, s, w)
  BY <1>1, <1>6, <1>7 DEF Steps
<1>9. AfterCommands(kind, s, w) = h[m + k]
  <2>1. Len(w) \in Nat
    BY <1>1
  <2>2. AfterCommands(kind, s, w) = h[Len(w)]
    BY <1>8, <2>1, FoldUnique
  <2>3. QED
    BY <1>1, <2>2
<1>10. QED
  BY <1>2, <1>3, <1>5, <1>9 DEF w, m

\* No commands, and one.
LEMMA FoldShort ==
    ASSUME NEW kind, NEW s, NEW c
    PROVE  /\ AfterCommands(kind, s, <<>>) = s
           /\ AfterCommands(kind, s, <<c>>) = Deliver(kind, s, c)
<1>1. PICK f : Steps(f, kind, s, <<>>) /\ AfterCommands(kind, s, <<>>) = f[0]
  <2>1. Len(<<>>) = 0 /\ 0 \in Nat
    OBVIOUS
  <2>2. QED
    BY <2>1, CommandsFold
<1>2. PICK g : Steps(g, kind, s, <<c>>) /\ AfterCommands(kind, s, <<c>>) = g[1]
  <2>1. Len(<<c>>) = 1 /\ 1 \in Nat
    OBVIOUS
  <2>2. QED
    BY <2>1, CommandsFold
<1>3. g[0] = s /\ g[1] = Deliver(kind, g[0], c)
  <2>1. Len(<<c>>) = 1 /\ <<c>>[1] = c /\ 1 - 1 = 0 /\ 1 \in 1 .. 1
    OBVIOUS
  <2>2. QED
    BY <1>2, <2>1 DEF Steps
<1>4. QED
  BY <1>1, <1>2, <1>3 DEF Steps

\* The first command, and the last.
LEMMA FoldEnds ==
    ASSUME NEW kind, NEW s, NEW S, NEW w \in Seq(S)
    PROVE  /\ w # <<>> =>
                 AfterCommands(kind, s, w)
                   = AfterCommands(kind, Deliver(kind, s, Head(w)), Tail(w))
           /\ \A c \in S : AfterCommands(kind, s, Append(w, c))
                              = Deliver(kind, AfterCommands(kind, s, w), c)
<1>1. Len(w) \in Nat
  OBVIOUS
<1>2. ASSUME w # <<>>
      PROVE  AfterCommands(kind, s, w) = AfterCommands(kind, Deliver(kind, s, Head(w)), Tail(w))
  <2> DEFINE u == Tail(w)
             m == Len(w) - 1
  <2>1. /\ m \in Nat /\ Len(w) = m + 1 /\ Len(u) = m /\ Head(w) = w[1]
        /\ \A i \in 1 .. m : u[i] = w[i + 1]
    BY <1>2
  <2> HIDE DEF u, m
  <2>2. PICK f : Steps(f, kind, s, w) /\ AfterCommands(kind, s, w) = f[m + 1]
    BY <1>1, <2>1, CommandsFold
  <2> DEFINE g == [n \in 0 .. m |-> f[n + 1]]
  <2>3. g[0] = f[1] /\ \A n \in 1 .. m : g[n] = f[n + 1] /\ g[n - 1] = f[n]
    BY <2>1
  <2>4. g[m] = f[m + 1]
    BY <2>1
  <2> HIDE DEF g
  <2>5. f[1] = Deliver(kind, s, w[1])
    <3>1. 1 \in 1 .. Len(w) /\ 1 - 1 = 0
      BY <2>1
    <3>2. QED
      BY <2>2, <3>1 DEF Steps
  <2>6. ASSUME NEW n \in 1 .. m
        PROVE  g[n] = Deliver(kind, g[n - 1], u[n])
    <3>1. n + 1 \in 1 .. Len(w) /\ (n + 1) - 1 = n
      BY <2>1
    <3>2. f[n + 1] = Deliver(kind, f[n], w[n + 1])
      BY <2>2, <3>1 DEF Steps
    <3>3. QED
      BY <2>1, <2>3, <3>2
  <2>7. Steps(g, kind, Deliver(kind, s, w[1]), u)
    BY <2>1, <2>3, <2>5, <2>6 DEF Steps
  <2>8. AfterCommands(kind, Deliver(kind, s, w[1]), u) = g[m]
    BY <2>1, <2>7, FoldUnique
  <2>9. QED
    BY <2>1, <2>2, <2>4, <2>8 DEF u
<1>3. ASSUME NEW c \in S
      PROVE  AfterCommands(kind, s, Append(w, c)) = Deliver(kind, AfterCommands(kind, s, w), c)
  <2> DEFINE u == Append(w, c)
             m == Len(w)
  <2>1. m \in Nat /\ Len(u) = m + 1 /\ u[m + 1] = c /\ \A i \in 1 .. m : u[i] = w[i]
    OBVIOUS
  <2> HIDE DEF u, m
  <2>2. PICK f : Steps(f, kind, s, u) /\ AfterCommands(kind, s, u) = f[m + 1]
    BY <2>1, CommandsFold
  <2>3. Steps(f, kind, s, w)
    BY <2>1, <2>2 DEF Steps, m
  <2>4. AfterCommands(kind, s, w) = f[m]
    BY <1>1, <2>3, FoldUnique DEF m
  <2>5. f[m + 1] = Deliver(kind, f[m], c)
    <3>1. m + 1 \in 1 .. Len(u) /\ (m + 1) - 1 = m
      BY <2>1
    <3>2. QED
      BY <2>1, <2>2, <3>1 DEF Steps
  <2>6. QED
    BY <2>2, <2>4, <2>5 DEF u
<1>4. QED
  BY <1>2, <1>3

-----------------------------------------------------------------------------
(* The entries of a trace file that pass *)

UpTo(at, n) == {i \in at : i <= n}
Count(at, n) == Cardinality(UpTo(at, n))
Nth(at, k) == CHOOSE i \in at : Count(at, i) = k

\* Counting the places at step by step; each is at its count.
LEMMA Counting ==
    ASSUME NEW N \in Nat, NEW at \in SUBSET (1 .. N)
    PROVE  /\ Count(at, 0) = 0
           /\ Count(at, N) = Cardinality(at)
           /\ Cardinality(at) \in Nat
           /\ \A n \in Nat :
                 /\ Count(at, n) \in Nat
                 /\ Count(at, n + 1) = IF n + 1 \in at THEN Count(at, n) + 1 ELSE Count(at, n)
           /\ \A i \in at : Count(at, i) \in 1 .. Cardinality(at) /\ Nth(at, Count(at, i)) = i
<1>0. \A i \in at : i \in Nat /\ i >= 1 /\ i <= N
  OBVIOUS
<1>1. IsFiniteSet(at) /\ Cardinality(at) \in Nat
  <2>1. IsFiniteSet(1 .. N)
    BY FS_Interval
  <2>2. at \subseteq 1 .. N
    OBVIOUS
  <2>3. IsFiniteSet(at)
    BY <2>1, <2>2, FS_Subset
  <2>4. QED
    BY <2>3, FS_CardinalityType
<1>2. ASSUME NEW n \in Nat
      PROVE  /\ IsFiniteSet(UpTo(at, n)) /\ Count(at, n) \in Nat
             /\ Count(at, n) <= Cardinality(at)
  <2>1. UpTo(at, n) \subseteq at
    BY DEF UpTo
  <2>2. QED
    BY <1>1, <2>1, FS_Subset, FS_CardinalityType DEF Count
<1>3. Count(at, 0) = 0
  <2>0. \A i \in at : ~(i <= 0)
    BY <1>0
  <2>1. UpTo(at, 0) = {}
    BY <2>0, Zenon DEF UpTo
  <2>2. QED
    BY <2>1, FS_EmptySet DEF Count
<1>4. Count(at, N) = Cardinality(at)
  <2>1. UpTo(at, N) = at
    BY <1>0 DEF UpTo
  <2>2. QED
    BY <2>1 DEF Count
<1>5. ASSUME NEW n \in Nat
      PROVE  Count(at, n + 1) = IF n + 1 \in at THEN Count(at, n) + 1 ELSE Count(at, n)
  <2>0. \A i \in at : i <= n + 1 <=> i <= n \/ i = n + 1
    BY <1>0
  <2>1. IsFiniteSet(UpTo(at, n)) /\ n + 1 \notin UpTo(at, n) /\ n + 1 <= n + 1
    BY <1>2 DEF UpTo
  <2>2. CASE n + 1 \in at
    <3>1. UpTo(at, n + 1) = UpTo(at, n) \cup {n + 1}
      BY <2>0, <2>1, <2>2, Zenon DEF UpTo
    <3>2. QED
      BY <2>1, <2>2, <3>1, FS_AddElement DEF Count
  <2>3. CASE n + 1 \notin at
    <3>1. UpTo(at, n + 1) = UpTo(at, n)
      BY <2>0, <2>1, <2>3, Zenon DEF UpTo
    <3>2. QED
      BY <2>3, <3>1 DEF Count
  <2>4. QED
    BY <2>2, <2>3
<1>6. ASSUME NEW m \in Nat, NEW i \in at, m < i
      PROVE  Count(at, m) < Count(at, i)
  <2>1. i \in Nat /\ i - 1 \in Nat /\ (i - 1) + 1 = i
    BY <1>0
  <2>2. Count(at, i) = Count(at, i - 1) + 1
    BY <1>5, <2>1
  <2>3. Count(at, m) <= Count(at, i - 1)
    <3>1. UpTo(at, m) \subseteq UpTo(at, i - 1)
      <4>1. \A j \in at : j <= m => j <= i - 1
        BY <1>0, <1>6
      <4>2. QED
        BY <4>1, Zenon DEF UpTo
    <3>2. IsFiniteSet(UpTo(at, i - 1))
      BY <1>2, <2>1
    <3>3. QED
      BY <3>1, <3>2, FS_Subset DEF Count
  <2>4. Count(at, m) \in Nat /\ Count(at, i - 1) \in Nat
    BY <1>2, <2>1
  <2>5. QED
    BY <2>2, <2>3, <2>4
<1>7. ASSUME NEW i \in at
      PROVE  Count(at, i) \in 1 .. Cardinality(at) /\ Nth(at, Count(at, i)) = i
  <2>1. i \in Nat /\ 0 < i
    BY <1>0
  <2>2. Count(at, i) \in Nat /\ Count(at, i) <= Cardinality(at) /\ 0 < Count(at, i)
    BY <1>2, <1>3, <1>6, <2>1
  <2>3. ASSUME NEW j \in at, Count(at, j) = Count(at, i)
        PROVE  j = i
    <3>1. j \in Nat
      BY <1>0
    <3>2. ~(j < i) /\ ~(i < j)
      BY <1>2, <1>6, <2>1, <2>3, <3>1
    <3>3. QED
      BY <2>1, <3>1, <3>2
  <2>4. Nth(at, Count(at, i)) = i
    BY <2>3 DEF Nth
  <2>5. QED
    BY <1>1, <2>2, <2>4
<1>8. QED
  BY <1>1, <1>2, <1>3, <1>4, <1>5, <1>7

GoodIds(file) == {i \in DOMAIN Index[file] : Index[file][i].id >= 0}

GoodRanges(file) ==
    {i \in DOMAIN List[file] : List[file][i].length >= 0 /\ List[file][i].offset >= 0}

\* What passes, and where it comes from.
LEMMA GoodPlaces ==
    ASSUME NEW file \in TraceFiles
    PROVE  /\ Len(Index[file]) \in Nat /\ GoodIds(file) \in SUBSET (1 .. Len(Index[file]))
           /\ GoodIndex[file] = [k \in 1 .. Cardinality(GoodIds(file)) |->
                                    Index[file][Nth(GoodIds(file), k)]]
           /\ Len(List[file]) \in Nat /\ GoodRanges(file) \in SUBSET (1 .. Len(List[file]))
           /\ GoodList[file] = [k \in 1 .. Cardinality(GoodRanges(file)) |->
                                    List[file][Nth(GoodRanges(file), k)]]
<1>1. /\ Index[file] \in Seq([id : Int, file_name : STRING])
      /\ List[file] \in Seq([index_id : Int, length : Int, offset : Int])
  BY PrefetchAssumption
<1>2. /\ Len(Index[file]) \in Nat /\ DOMAIN Index[file] = 1 .. Len(Index[file])
      /\ Len(List[file]) \in Nat /\ DOMAIN List[file] = 1 .. Len(List[file])
  BY <1>1
<1>3. GoodIndex[file] = [k \in 1 .. Cardinality(GoodIds(file)) |->
                            Index[file][Nth(GoodIds(file), k)]]
  BY DEF GoodIndex, Passing, GoodIds, Nth, Count, UpTo
<1>4. GoodList[file] = [k \in 1 .. Cardinality(GoodRanges(file)) |->
                            List[file][Nth(GoodRanges(file), k)]]
  BY DEF GoodList, Passing, GoodRanges, Nth, Count, UpTo
<1>5. QED
  BY <1>2, <1>3, <1>4 DEF GoodIds, GoodRanges

\* The least of some natural numbers.
LEMMA Least ==
    ASSUME NEW S \in SUBSET Nat, S # {}
    PROVE  /\ Min(S) \in S /\ \A y \in S : Min(S) <= y
           /\ \A m \in S : (\A y \in S : m <= y) => Min(S) = m
<1>1. PICK m \in S : \A k \in S : ~(<<k, m>> \in OpToRel(<, Nat))
  BY WFMin, NatLessThanWellFounded
<1>2. \A k \in S : ~(k < m)
  BY <1>1 DEF OpToRel
<1>3. m \in S /\ \A k \in S : m <= k
  BY <1>2
<1>4. Min(S) \in S /\ \A y \in S : Min(S) <= y
  BY <1>3 DEF Min
<1>5. ASSUME NEW n \in S, \A y \in S : n <= y
      PROVE  Min(S) = n
  <2>1. n <= Min(S) /\ Min(S) <= n /\ n \in Nat /\ Min(S) \in Nat
    BY <1>4, <1>5
  <2>2. QED
    BY <2>1
<1>6. QED
  BY <1>4, <1>5

\* One place more registers its path, unless its id has one.
LEMMA PathsNext ==
    ASSUME NEW file, NEW m \in Nat, NEW X \in SUBSET (1 .. m)
    PROVE  LET paths == Paths(file, X)
               e == Index[file][m + 1]
           IN  Paths(file, X \cup {m + 1})
                 = IF e.id \in DOMAIN paths THEN paths ELSE Insert(paths, e.id, e.file_name)
<1> DEFINE k == m + 1
           Y == X \cup {k}
           e == Index[file][k]
           paths == Paths(file, X)
           after == Paths(file, Y)
           Ids(P) == {Index[file][i].id : i \in P}
           With(P, id) == {i \in P : Index[file][i].id = id}
<1>1. /\ paths = [id \in Ids(X) |-> Index[file][Min(With(X, id))].file_name]
      /\ after = [id \in Ids(Y) |-> Index[file][Min(With(Y, id))].file_name]
  BY DEF Paths
<1>2. X \subseteq Nat /\ Y \subseteq Nat /\ k \in Nat /\ \A i \in X : i < k /\ i <= k
  OBVIOUS
<1>3. Ids(Y) = Ids(X) \cup {e.id}
  OBVIOUS
<1> HIDE DEF k, Y, paths, after
<1>4. ASSUME NEW id \in Ids(X)
      PROVE  Min(With(Y, id)) = Min(With(X, id))
  <2> DEFINE A == With(X, id)
             B == With(Y, id)
  <2>1. A \in SUBSET Nat /\ A # {} /\ B \in SUBSET Nat /\ A \subseteq B
    BY <1>2 DEF Y
  <2>2. \A i \in B : i \in A \/ i = k
    BY DEF Y
  <2>3. \A i \in A : i <= k
    BY <1>2
  <2> HIDE DEF A, B
  <2>4. Min(A) \in A /\ \A i \in A : Min(A) <= i
    BY <2>1, Least
  <2>5. Min(A) \in B /\ \A i \in B : Min(A) <= i
    BY <2>1, <2>2, <2>3, <2>4
  <2>6. Min(B) = Min(A)
    BY <2>1, <2>5, Least
  <2>7. QED
    BY <2>6 DEF A, B
<1>5. ASSUME e.id \notin Ids(X)
      PROVE  Min(With(Y, e.id)) = k
  <2>1. With(Y, e.id) = {k}
    BY <1>5 DEF Y
  <2>2. {k} \in SUBSET Nat /\ {k} # {} /\ k \in {k} /\ \A y \in {k} : k <= y
    BY <1>2
  <2>3. Min({k}) = k
    BY <2>2, Least
  <2>4. QED
    BY <2>1, <2>3
<1> HIDE DEF Ids, With
<1>6. CASE e.id \in Ids(X)
  <2>1. Ids(Y) = Ids(X)
    BY <1>3, <1>6
  <2>2. after = paths
    BY <1>1, <1>4, <2>1
  <2>3. DOMAIN paths = Ids(X)
    BY <1>1
  <2>4. QED
    BY <1>6, <2>2, <2>3 DEF k, Y, paths, after
<1>7. CASE e.id \notin Ids(X)
  <2> DEFINE new == Insert(paths, e.id, e.file_name)
  <2>1. DOMAIN paths = Ids(X)
    BY <1>1
  <2>2. new = [id \in Ids(X) \cup {e.id} |-> IF id = e.id THEN e.file_name ELSE paths[id]]
    BY <2>1 DEF Insert
  <2>3. ASSUME NEW id \in Ids(Y)
        PROVE  Index[file][Min(With(Y, id))].file_name
                 = IF id = e.id THEN e.file_name ELSE paths[id]
    <3>1. CASE id = e.id
      BY <1>5, <1>7, <3>1
    <3>2. CASE id # e.id
      <4>1. id \in Ids(X)
        BY <1>3, <3>2
      <4>2. paths[id] = Index[file][Min(With(X, id))].file_name
        BY <1>1, <4>1
      <4>3. QED
        BY <1>4, <3>2, <4>1, <4>2
    <3>3. QED
      BY <3>1, <3>2
  <2>4. after = new
    BY <1>1, <1>3, <2>2, <2>3
  <2>5. QED
    BY <1>7, <2>1, <2>4 DEF k, Y, paths, after
<1>8. QED
  BY <1>6, <1>7

\* No places, no paths.
LEMMA PathsNone ==
    ASSUME NEW file
    PROVE  Paths(file, {}) = <<>>
<1>1. Paths(file, {}) = [id \in {} |-> Index[file][Min({})].file_name]
  BY DEF Paths
<1>2. QED
  BY <1>1 DEF Paths

\* What a registration makes of the paths of a session.
Taking(paths, id, name) == IF id \in DOMAIN paths THEN paths ELSE Insert(paths, id, name)

\* What has leaked after it, in the session of t with these paths.
Leaving(leaked, t, paths, id, name) ==
    leaked \cup {o \in {<<t, id>>} : id \in DOMAIN paths /\ name \in Existing}

\* What has leaked after these places of an index.
LeftBy(leaked, t, file, places) == leaked \cup ({t} \X GivenAgain(file, places))

\* One place more leaks its descriptor, if its id has a path.
LEMMA GivenAgainNext ==
    ASSUME NEW file, NEW m \in Nat, NEW X \in SUBSET (1 .. m), NEW t, NEW leaked
    PROVE  LET e == Index[file][m + 1]
           IN  LeftBy(leaked, t, file, X \cup {m + 1})
                 = Leaving(LeftBy(leaked, t, file, X), t, Paths(file, X), e.id, e.file_name)
<1> DEFINE k == m + 1
           Y == X \cup {k}
           e == Index[file][k]
           Twice(P, j) == \E i \in P : i < j /\ Index[file][i].id = Index[file][j].id
           Again(P) == {j \in P : Index[file][j].file_name \in Existing /\ Twice(P, j)}
<1>1. \A i \in X : i < k /\ ~(k < i) /\ i # k
  OBVIOUS
<1>2. ~(k < k)
  OBVIOUS
<1>3. \A j \in X : Twice(Y, j) <=> Twice(X, j)
  BY <1>1
<1>4. Twice(Y, k) <=> \E i \in X : Index[file][i].id = e.id
  BY <1>1, <1>2
<1>5. /\ GivenAgain(file, X) = {Index[file][j].id : j \in Again(X)}
      /\ GivenAgain(file, Y) = {Index[file][j].id : j \in Again(Y)}
  BY DEF GivenAgain
<1>6. DOMAIN Paths(file, X) = {Index[file][i].id : i \in X}
  BY DEF Paths
<1>7. Twice(Y, k) <=> e.id \in DOMAIN Paths(file, X)
  BY <1>4, <1>6
<1> HIDE DEF k, Y, Twice
<1>8. Again(Y) = Again(X) \cup {j \in {k} : e.file_name \in Existing /\ Twice(Y, k)}
  BY <1>3 DEF Y
<1> HIDE DEF Again
<1>9. GivenAgain(file, Y)
        = GivenAgain(file, X) \cup {i \in {e.id} : e.file_name \in Existing /\ Twice(Y, k)}
  BY <1>5, <1>8
<1>10. QED
  BY <1>7, <1>9 DEF Leaving, LeftBy, k, Y

\* No places, no leaks.
LEMMA GivenAgainNone ==
    ASSUME NEW file, NEW t, NEW leaked
    PROVE  LeftBy(leaked, t, file, {}) = leaked
<1>1. GivenAgain(file, {}) = {}
  BY DEF GivenAgain
<1>2. QED
  BY <1>1 DEF LeftBy

-----------------------------------------------------------------------------
(* A service that holds given sessions, one lemma per call *)

IsMap(f) == f = [x \in DOMAIN f |-> f[x]]

\* The sessions of a service, each with its paths and entries.
IsHeld(held) ==
    /\ IsMap(held)
    /\ \A t \in DOMAIN held : IsSession(held[t])

Changed(held, t, paths, entries) ==
    [held EXCEPT ![t] = [path_map |-> paths, entries |-> entries]]

OpenFor(held) == [t \in DOMAIN held |-> {t} \X Opened(held[t])]
MappedFor(held, kinds) == [t \in DOMAIN held |-> {t} \X Mapped(held[t], kinds[t])]
All(f) == UNION {f[t] : t \in DOMAIN f}

Part(f, t) == IF t \in DOMAIN f THEN f[t] ELSE {}

Added(f, g, t, new) ==
    /\ \A u : u # t => Part(g, u) = Part(f, u)
    /\ Part(g, t) = Part(f, t) \cup new

\* What is added to one of the sets is added to all of them.
LEMMA AllAdded ==
    ASSUME NEW f, NEW g, NEW t, NEW new, Added(f, g, t, new)
    PROVE  All(g) = All(f) \cup new
<1>1. \A x : x \in All(f) <=> \E u : x \in Part(f, u)
  BY DEF All, Part
<1>2. \A x : x \in All(g) <=> \E u : x \in Part(g, u)
  BY DEF All, Part
<1>3. QED
  BY <1>1, <1>2 DEF Added

\* The same service, from what is open and mapped for each session.
LEMMA HoldingParts ==
    ASSUME NEW held, NEW kinds, NEW leaked
    PROVE  Holding(held, kinds, leaked) = [sessions |-> held, open |-> All(OpenFor(held)),
                                   mapped |-> All(MappedFor(held, kinds)), leaked |-> leaked]
<1>1. All(OpenFor(held)) = UNION {{t} \X Opened(held[t]) : t \in DOMAIN held}
  BY DEF All, OpenFor
<1>2. All(MappedFor(held, kinds)) = UNION {{t} \X Mapped(held[t], kinds[t]) : t \in DOMAIN held}
  BY DEF All, MappedFor
<1>3. QED
  BY <1>1, <1>2 DEF Holding

\* The sessions after, in which only that of t has changed.
ChangedIn(after, held, t, paths, entries) ==
    /\ IsHeld(after) /\ DOMAIN after = DOMAIN held
    /\ after[t].path_map = paths /\ after[t].entries = entries
    /\ \A u \in DOMAIN held : u # t => after[u] = held[u]

\* A session with other paths and entries.
LEMMA ChangedSession ==
    ASSUME NEW held, IsHeld(held), NEW t \in DOMAIN held, NEW paths, IsMap(paths), NEW entries
    PROVE  ChangedIn(Changed(held, t, paths, entries), held, t, paths, entries)
<1> DEFINE x == [path_map |-> paths, entries |-> entries]
           after == [held EXCEPT ![t] = x]
<1>1. IsSession(x) /\ x.path_map = paths /\ x.entries = entries
  BY DEF IsSession, IsMap
<1> HIDE DEF x
<1>2. /\ after = [u \in DOMAIN held |-> after[u]] /\ DOMAIN after = DOMAIN held
      /\ after[t] = x /\ \A u \in DOMAIN held : u # t => after[u] = held[u]
  BY DEF IsHeld, IsMap
<1>3. after = Changed(held, t, paths, entries)
  BY DEF Changed, x
<1> HIDE DEF after
<1>4. \A u \in DOMAIN after : IsSession(after[u])
  BY <1>1, <1>2 DEF IsHeld
<1>5. IsHeld(after)
  BY <1>2, <1>4 DEF IsHeld, IsMap
<1>6. QED
  BY <1>1, <1>2, <1>3, <1>5 DEF ChangedIn

\* The paths and entries that it has change nothing.
LEMMA ChangedNothing ==
    ASSUME NEW held, IsHeld(held), NEW t \in DOMAIN held
    PROVE  Changed(held, t, held[t].path_map, held[t].entries) = held
<1>1. held[t] = [path_map |-> held[t].path_map, entries |-> held[t].entries]
  BY DEF IsHeld, IsSession
<1>2. held = [held EXCEPT ![t] = held[t]]
  BY DEF IsHeld, IsMap
<1>3. QED
  BY <1>1, <1>2 DEF Changed

\* CreateSession for a task that has none.
LEMMA HoldingCreates ==
    ASSUME NEW held, IsHeld(held), NEW kinds, NEW leaked, NEW t, t \notin DOMAIN held
    PROVE  /\ CreateSession(Holding(held, kinds, leaked), t)
                = Holding(Insert(held, t, NewSession), kinds, leaked)
           /\ IsHeld(Insert(held, t, NewSession))
<1> DEFINE after == Insert(held, t, NewSession)
           s == Holding(held, kinds, leaked)
<1>1. /\ s.sessions = held
      /\ s = [sessions |-> held, open |-> s.open, mapped |-> s.mapped, leaked |-> leaked]
      /\ s.open = All(OpenFor(held)) /\ s.mapped = All(MappedFor(held, kinds))
  BY HoldingParts
<1> HIDE DEF s
<1>2. CreateSession(s, t)
        = [sessions |-> after, open |-> s.open, mapped |-> s.mapped, leaked |-> leaked]
  BY <1>1 DEF CreateSession
<1>3. /\ DOMAIN after = DOMAIN held \cup {t} /\ after[t] = NewSession
      /\ \A u \in DOMAIN held : after[u] = held[u]
      /\ after = [u \in DOMAIN held \cup {t} |-> after[u]]
  BY DEF Insert
<1> HIDE DEF after
<1>4. Opened(NewSession) = {} /\ Mapped(NewSession, kinds[t]) = {} /\ IsSession(NewSession)
  BY DEF Opened, Mapped, NewSession, IsSession
<1>5. All(OpenFor(after)) = All(OpenFor(held)) \cup {}
  <2> DEFINE f == OpenFor(held)
             g == OpenFor(after)
  <2>1. /\ DOMAIN f = DOMAIN held /\ DOMAIN g = DOMAIN held \cup {t}
        /\ \A u \in DOMAIN held : f[u] = g[u]
        /\ g[t] = {t} \X Opened(NewSession)
    BY <1>3 DEF OpenFor
  <2> HIDE DEF f, g
  <2>2. Added(f, g, t, {})
    BY <1>4, <2>1 DEF Added, Part
  <2>3. All(g) = All(f) \cup {}
    BY <2>2, AllAdded
  <2>4. QED
    BY <2>3 DEF f, g
<1>6. All(MappedFor(after, kinds)) = All(MappedFor(held, kinds)) \cup {}
  <2> DEFINE f == MappedFor(held, kinds)
             g == MappedFor(after, kinds)
  <2>1. /\ DOMAIN f = DOMAIN held /\ DOMAIN g = DOMAIN held \cup {t}
        /\ \A u \in DOMAIN held : f[u] = g[u]
        /\ g[t] = {t} \X Mapped(NewSession, kinds[t])
    BY <1>3 DEF MappedFor
  <2> HIDE DEF f, g
  <2>2. Added(f, g, t, {})
    BY <1>4, <2>1 DEF Added, Part
  <2>3. All(g) = All(f) \cup {}
    BY <2>2, AllAdded
  <2>4. QED
    BY <2>3 DEF f, g
<1>7. CreateSession(s, t) = Holding(after, kinds, leaked)
  <2>1. Holding(after, kinds, leaked) = [sessions |-> after, open |-> All(OpenFor(after)),
                                 mapped |-> All(MappedFor(after, kinds)), leaked |-> leaked]
    BY HoldingParts
  <2>2. QED
    BY <1>1, <1>2, <1>5, <1>6, <2>1
<1>8. IsHeld(after)
  BY <1>3, <1>4 DEF IsHeld, IsMap
<1>9. QED
  BY <1>7, <1>8 DEF after, s

\* RegisterFilePath for a session without entries.
LEMMA HoldingRegisters ==
    ASSUME NEW held, IsHeld(held), NEW kinds, NEW leaked, NEW t \in DOMAIN held,
           held[t].entries = {}, NEW id, NEW name
    PROVE  /\ RegisterFilePath(Holding(held, kinds, leaked), t, id, name)
                = Holding(Changed(held, t, Taking(held[t].path_map, id, name), {}), kinds,
                          Leaving(leaked, t, held[t].path_map, id, name))
           /\ IsMap(Taking(held[t].path_map, id, name))
<1> DEFINE paths == held[t].path_map
           more == Taking(paths, id, name)
           after == Changed(held, t, more, {})
           s == Holding(held, kinds, leaked)
<1>1. /\ s.sessions = held
      /\ s = [sessions |-> held, open |-> s.open, mapped |-> s.mapped, leaked |-> leaked]
      /\ s.open = All(OpenFor(held)) /\ s.mapped = All(MappedFor(held, kinds))
  BY HoldingParts
<1> HIDE DEF s
<1>2. IsMap(paths) /\ IsSession(held[t])
  BY DEF IsHeld, IsSession, IsMap
<1>3. CASE id \in DOMAIN paths
  <2> DEFINE now == Leaving(leaked, t, paths, id, name)
  <2>1. RegisterFilePath(s, t, id, name)
          = [sessions |-> held, open |-> s.open, mapped |-> s.mapped, leaked |-> now]
    <3> DEFINE opened == {o \in {<<t, id>>} : name \in Existing}
    <3>1. leaked \cup opened = now
      BY <1>3 DEF Leaving
    <3>2. RegisterFilePath(s, t, id, name) = [s EXCEPT !.leaked = @ \cup opened]
      BY <1>1, <1>3 DEF RegisterFilePath
    <3> HIDE DEF opened
    <3>3. s.leaked = leaked
      BY <1>1
    <3>4. RegisterFilePath(s, t, id, name) = [s EXCEPT !.leaked = now]
      BY <3>1, <3>2, <3>3
    <3> HIDE DEF now
    <3>5. QED
      BY <1>1, <3>4
  <2> HIDE DEF now
  <2>2. more = paths
    BY <1>3 DEF Taking
  <2>3. Changed(held, t, paths, {}) = held
    BY ChangedNothing
  <2>4. Holding(held, kinds, now) = [sessions |-> held, open |-> s.open,
                                     mapped |-> s.mapped, leaked |-> now]
    <3>1. Holding(held, kinds, now) = [sessions |-> held, open |-> All(OpenFor(held)),
                                       mapped |-> All(MappedFor(held, kinds)), leaked |-> now]
      BY HoldingParts
    <3>2. QED
      BY <1>1, <3>1
  <2>5. QED
    BY <1>2, <2>1, <2>2, <2>3, <2>4 DEF s, now
<1>4. CASE id \notin DOMAIN paths
  <2> DEFINE ins == Insert(paths, id, name)
             new == {o \in {<<t, id>>} : name \in Existing}
  <2>1. more = ins /\ Leaving(leaked, t, paths, id, name) = leaked
    BY <1>4 DEF Leaving, Taking
  <2>2. /\ IsMap(ins) /\ DOMAIN ins = DOMAIN paths \cup {id}
        /\ ins[id] = name /\ \A i \in DOMAIN paths : ins[i] = paths[i]
    BY <1>4 DEF Insert, IsMap
  <2>3. RegisterFilePath(s, t, id, name)
          = [sessions |-> [held EXCEPT ![t].path_map = ins], open |-> s.open \cup new,
             mapped |-> s.mapped, leaked |-> leaked]
    <3> DEFINE changed == [held EXCEPT ![t].path_map = ins]
               opened == s.open \cup new
               so == s.open
               sm == s.mapped
    <3>1. RegisterFilePath(s, t, id, name) = [s EXCEPT !.sessions = changed, !.open = opened]
      BY <1>1, <1>4 DEF RegisterFilePath
    <3>2. s = [sessions |-> held, open |-> so, mapped |-> sm, leaked |-> leaked]
      BY <1>1
    <3> HIDE DEF changed, opened, so, sm
    <3>3. [s EXCEPT !.sessions = changed, !.open = opened]
            = [sessions |-> changed, open |-> opened, mapped |-> sm, leaked |-> leaked]
      <4>1. [s EXCEPT !.sessions = changed]
              = [sessions |-> changed, open |-> so, mapped |-> sm, leaked |-> leaked]
        BY <3>2
      <4> DEFINE r == [s EXCEPT !.sessions = changed]
      <4> HIDE DEF r
      <4>2. r = [sessions |-> changed, open |-> so, mapped |-> sm, leaked |-> leaked]
        BY <4>1 DEF r
      <4>3. [r EXCEPT !.open = opened]
              = [sessions |-> changed, open |-> opened, mapped |-> sm, leaked |-> leaked]
        BY <4>2
      <4>4. QED
        BY <4>3 DEF r
    <3>4. QED
      BY <3>1, <3>3 DEF changed, opened, sm
  <2> HIDE DEF ins, new
  <2> DEFINE end == Changed(held, t, ins, {})
  <2>4. [held EXCEPT ![t].path_map = ins] = end
    <3>1. [held[t] EXCEPT !.path_map = ins] = [path_map |-> ins, entries |-> {}]
      BY <1>2 DEF IsSession
    <3>2. QED
      BY <3>1 DEF Changed
  <2>5. /\ IsHeld(end) /\ DOMAIN end = DOMAIN held
        /\ end[t].path_map = ins /\ end[t].entries = {}
        /\ \A u \in DOMAIN held : u # t => end[u] = held[u]
    <3>1. IsMap(ins)
      BY <2>2
    <3>2. ChangedIn(end, held, t, ins, {})
      BY <3>1, ChangedSession
    <3>3. QED
      BY <3>2 DEF ChangedIn
  <2> HIDE DEF end
  <2>6. All(OpenFor(end)) = All(OpenFor(held)) \cup new
    <3> DEFINE f == OpenFor(held)
               g == OpenFor(end)
    <3>1. /\ DOMAIN f = DOMAIN held /\ DOMAIN g = DOMAIN held
          /\ \A u \in DOMAIN held : u # t => f[u] = g[u]
          /\ f[t] = {t} \X Opened(held[t]) /\ g[t] = {t} \X Opened(end[t])
      BY <2>5 DEF OpenFor
    <3>2. Opened(end[t]) = Opened(held[t]) \cup {i \in {id} : name \in Existing}
      BY <1>4, <2>2, <2>5 DEF Opened
    <3>3. g[t] = f[t] \cup new
      BY <3>1, <3>2 DEF new
    <3> HIDE DEF f, g
    <3>4. Added(f, g, t, new)
      BY <3>1, <3>3 DEF Added, Part
    <3>5. All(g) = All(f) \cup new
      BY <3>4, AllAdded
    <3>6. QED
      BY <3>5 DEF f, g
  <2>7. MappedFor(end, kinds) = MappedFor(held, kinds)
    <3>1. Mapped(end[t], kinds[t]) = Mapped(held[t], kinds[t])
      BY <2>5 DEF Mapped
    <3>2. \A u \in DOMAIN held : {u} \X Mapped(end[u], kinds[u]) = {u} \X Mapped(held[u], kinds[u])
      BY <2>5, <3>1
    <3>3. QED
      BY <2>5, <3>2 DEF MappedFor
  <2>8. Holding(end, kinds, leaked) = [sessions |-> end, open |-> All(OpenFor(end)),
                               mapped |-> All(MappedFor(end, kinds)), leaked |-> leaked]
    BY HoldingParts
  <2>9. RegisterFilePath(s, t, id, name) = Holding(end, kinds, leaked)
    BY <1>1, <2>3, <2>4, <2>6, <2>7, <2>8
  <2>10. QED
    BY <2>1, <2>2, <2>9 DEF end, s
<1>5. QED
  BY <1>3, <1>4

\* The entries of a session with one more, if it has its path.
WithEntry(x, e) == x.entries \cup {i \in {e} : e.index_id \in DOMAIN x.path_map}

\* ReadAhead of an entry, of the kind that the session is read ahead with.
LEMMA HoldingReadsAhead ==
    ASSUME NEW held, IsHeld(held), NEW kinds, NEW leaked, NEW t \in DOMAIN held, NEW e
    PROVE  ReadAhead(Holding(held, kinds, leaked), t, kinds[t], e)
             = Holding(Changed(held, t, held[t].path_map, WithEntry(held[t], e)), kinds, leaked)
<1> DEFINE x == held[t]
           paths == x.path_map
           s == Holding(held, kinds, leaked)
<1>1. /\ s.sessions = held
      /\ s = [sessions |-> held, open |-> s.open, mapped |-> s.mapped, leaked |-> leaked]
      /\ s.open = All(OpenFor(held)) /\ s.mapped = All(MappedFor(held, kinds))
  BY HoldingParts
<1> HIDE DEF s
<1>2. IsMap(paths) /\ IsSession(x)
  BY DEF IsHeld, IsSession, IsMap
<1>3. CASE e.index_id \notin DOMAIN paths
  <2>1. ReadAhead(s, t, kinds[t], e) = s
    BY <1>1, <1>3 DEF ReadAhead
  <2>2. WithEntry(x, e) = x.entries
    BY <1>3 DEF WithEntry
  <2>3. Changed(held, t, paths, x.entries) = held
    BY ChangedNothing
  <2>4. QED
    BY <1>2, <2>1, <2>2, <2>3 DEF s
<1>4. CASE e.index_id \in DOMAIN paths
  <2> DEFINE more == x.entries \cup {e}
             new == {m \in {<<t, e>>} : <<t, e.index_id>> \in s.open /\ kinds[t] # "kFadvise"}
             end == Changed(held, t, paths, more)
  <2>1. WithEntry(x, e) = more
    BY <1>4 DEF WithEntry
  <2>2. ReadAhead(s, t, kinds[t], e)
          = [sessions |-> [held EXCEPT ![t].entries = more], open |-> s.open,
             mapped |-> s.mapped \cup new, leaked |-> leaked]
    <3> DEFINE changed == [held EXCEPT ![t].entries = @ \cup {e}]
               added == s.mapped \cup new
               so == s.open
               sm == s.mapped
    <3>1. ReadAhead(s, t, kinds[t], e) = [s EXCEPT !.sessions = changed, !.mapped = added]
      BY <1>1, <1>4 DEF ReadAhead
    <3>2. s = [sessions |-> held, open |-> so, mapped |-> sm, leaked |-> leaked]
      BY <1>1
    <3>3. changed = [held EXCEPT ![t].entries = more]
      OBVIOUS
    <3> HIDE DEF changed, added, so, sm
    <3>4. [s EXCEPT !.sessions = changed, !.mapped = added]
            = [sessions |-> changed, open |-> so, mapped |-> added, leaked |-> leaked]
      <4>1. [s EXCEPT !.sessions = changed]
              = [sessions |-> changed, open |-> so, mapped |-> sm, leaked |-> leaked]
        BY <3>2
      <4> DEFINE r == [s EXCEPT !.sessions = changed]
      <4> HIDE DEF r
      <4>2. r = [sessions |-> changed, open |-> so, mapped |-> sm, leaked |-> leaked]
        BY <4>1 DEF r
      <4>3. [r EXCEPT !.mapped = added]
              = [sessions |-> changed, open |-> so, mapped |-> added, leaked |-> leaked]
        BY <4>2
      <4>4. QED
        BY <4>3 DEF r
    <3>5. QED
      BY <3>1, <3>3, <3>4 DEF added, so
  <2> HIDE DEF more
  <2>3. [held EXCEPT ![t].entries = more] = end
    <3>1. [held[t] EXCEPT !.entries = more] = [path_map |-> paths, entries |-> more]
      BY <1>2 DEF IsSession
    <3>2. QED
      BY <3>1 DEF Changed
  <2>4. /\ IsHeld(end) /\ DOMAIN end = DOMAIN held
        /\ end[t].path_map = paths /\ end[t].entries = more
        /\ \A u \in DOMAIN held : u # t => end[u] = held[u]
    <3>1. ChangedIn(end, held, t, paths, more)
      BY <1>2, ChangedSession
    <3>2. QED
      BY <3>1 DEF ChangedIn
  <2> HIDE DEF end
  <2>5. Opened(end[t]) = Opened(x)
    BY <2>4 DEF Opened
  <2>6. OpenFor(end) = OpenFor(held)
    <3>1. \A u \in DOMAIN held : {u} \X Opened(end[u]) = {u} \X Opened(held[u])
      BY <2>4, <2>5
    <3>2. QED
      BY <2>4, <3>1 DEF OpenFor
  <2>7. <<t, e.index_id>> \in s.open <=> e.index_id \in Opened(x)
    <3>1. s.open = UNION {{u} \X Opened(held[u]) : u \in DOMAIN held}
      BY DEF s, Holding
    <3>2. QED
      BY <3>1
  <2>8. new = {t} \X {i \in {e} : e.index_id \in Opened(x) /\ kinds[t] # "kFadvise"}
    BY <2>7
  <2>9. Mapped(end[t], kinds[t])
          = Mapped(x, kinds[t]) \cup {i \in {e} : e.index_id \in Opened(x) /\ kinds[t] # "kFadvise"}
    BY <2>4, <2>5 DEF Mapped, more
  <2> HIDE DEF new
  <2>10. All(MappedFor(end, kinds)) = All(MappedFor(held, kinds)) \cup new
    <3> DEFINE f == MappedFor(held, kinds)
               g == MappedFor(end, kinds)
    <3>1. /\ DOMAIN f = DOMAIN held /\ DOMAIN g = DOMAIN held
          /\ \A u \in DOMAIN held : u # t => f[u] = g[u]
          /\ f[t] = {t} \X Mapped(held[t], kinds[t]) /\ g[t] = {t} \X Mapped(end[t], kinds[t])
      BY <2>4 DEF MappedFor
    <3>2. g[t] = f[t] \cup new
      BY <2>8, <2>9, <3>1
    <3> HIDE DEF f, g
    <3>3. Added(f, g, t, new)
      BY <3>1, <3>2 DEF Added, Part
    <3>4. All(g) = All(f) \cup new
      BY <3>3, AllAdded
    <3>5. QED
      BY <3>4 DEF f, g
  <2>11. Holding(end, kinds, leaked) = [sessions |-> end, open |-> All(OpenFor(end)),
                                mapped |-> All(MappedFor(end, kinds)), leaked |-> leaked]
    BY HoldingParts
  <2>12. ReadAhead(s, t, kinds[t], e) = Holding(end, kinds, leaked)
    BY <1>1, <2>2, <2>3, <2>6, <2>10, <2>11
  <2>13. QED
    BY <2>1, <2>12 DEF end, s
<1>5. QED
  BY <1>3, <1>4

\* The session of a task goes, with all it has.
LEMMA HoldingDestroys ==
    ASSUME NEW held, IsHeld(held), NEW kinds, NEW leaked, NEW t \in DOMAIN held
    PROVE  DestroySession(Holding(held, kinds, leaked), t)
             = Holding([u \in DOMAIN held \ {t} |-> held[u]], kinds, leaked)
<1> DEFINE s == Holding(held, kinds, leaked)
           after == [u \in DOMAIN held \ {t} |-> held[u]]
           open == {o \in s.open : o[1] # t}
           mapped == {m \in s.mapped : ~(m[1] = t /\ m[2] \in held[t].entries)}
<1>1. /\ s.sessions = held
      /\ s = [sessions |-> held, open |-> s.open, mapped |-> s.mapped, leaked |-> leaked]
      /\ s.open = UNION {{u} \X Opened(held[u]) : u \in DOMAIN held}
      /\ s.mapped = UNION {{u} \X Mapped(held[u], kinds[u]) : u \in DOMAIN held}
  BY DEF Holding
<1> HIDE DEF s
<1>2. DestroySession(s, t)
        = [sessions |-> after, open |-> open, mapped |-> mapped, leaked |-> leaked]
  <2>1. DestroySession(s, t) = [s EXCEPT !.sessions = [u \in DOMAIN held \ {t} |-> held[u]],
                                         !.open = open, !.mapped = mapped]
    BY <1>1 DEF DestroySession
  <2> DEFINE so == s.open
             sm == s.mapped
  <2>2. s = [sessions |-> held, open |-> so, mapped |-> sm, leaked |-> leaked]
    BY <1>1
  <2> HIDE DEF after, open, mapped, so, sm
  <2>3. DestroySession(s, t) = [s EXCEPT !.sessions = after, !.open = open, !.mapped = mapped]
    BY <2>1 DEF after
  <2>4. QED
    BY <2>2, <2>3
<1>3. open = UNION {{u} \X Opened(after[u]) : u \in DOMAIN after}
  <2>1. \A u \in DOMAIN held \ {t} : after[u] = held[u]
    OBVIOUS
  <2>2. DOMAIN after = DOMAIN held \ {t}
    OBVIOUS
  <2> HIDE DEF after
  <2>3. ASSUME NEW o
        PROVE  o \in open <=> o \in UNION {{u} \X Opened(after[u]) : u \in DOMAIN after}
    BY <1>1, <2>1, <2>2
  <2>4. QED
    BY <2>3
<1>4. mapped = UNION {{u} \X Mapped(after[u], kinds[u]) : u \in DOMAIN after}
  <2>1. \A u \in DOMAIN held \ {t} : after[u] = held[u]
    OBVIOUS
  <2>2. DOMAIN after = DOMAIN held \ {t}
    OBVIOUS
  <2>3. Mapped(held[t], kinds[t]) \subseteq held[t].entries
    BY DEF Mapped
  <2> HIDE DEF after
  <2>4. ASSUME NEW o
        PROVE  o \in mapped <=> o \in UNION {{u} \X Mapped(after[u], kinds[u]) : u \in DOMAIN after}
    BY <1>1, <2>1, <2>2, <2>3
  <2>5. QED
    BY <2>4
<1> HIDE DEF after, open, mapped
<1>5. Holding(after, kinds, leaked)
        = [sessions |-> after, open |-> UNION {{u} \X Opened(after[u]) : u \in DOMAIN after},
           mapped |-> UNION {{u} \X Mapped(after[u], kinds[u]) : u \in DOMAIN after},
           leaked |-> leaked]
  BY DEF Holding
<1>6. QED
  BY <1>2, <1>3, <1>4, <1>5 DEF after, s

\* The kind of a session without entries does not matter, nor that of others.
LEMMA HoldingKinds ==
    ASSUME NEW held, NEW kinds, NEW leaked, NEW others,
           \A t \in DOMAIN held : held[t].entries = {} \/ kinds[t] = others[t]
    PROVE  Holding(held, kinds, leaked) = Holding(held, others, leaked)
<1>1. \A t \in DOMAIN held : Mapped(held[t], kinds[t]) = Mapped(held[t], others[t])
  BY DEF Mapped
<1>2. MappedFor(held, kinds) = MappedFor(held, others)
  BY <1>1 DEF MappedFor
<1>3. QED
  BY <1>2, HoldingParts

-----------------------------------------------------------------------------
(* What the commands of a trace file make of a session *)

\* f is the service after each of the commands w, of which a pipe drops some.
Carried(f, w, kind) ==
    \A n \in 1 .. Len(w) :
        f[n] = IF kind = "kOutOfProcessIpc" /\ ~Fits(w[n]) THEN f[n - 1]
               ELSE Basic(f[n - 1], w[n])

Upto(places, m) == {i \in places : i <= m}

\* The second change of a session replaces the first.
LEMMA ChangedTwice ==
    ASSUME NEW held, IsHeld(held), NEW t \in DOMAIN held, NEW p, NEW e, NEW q, NEW g
    PROVE  Changed(Changed(held, t, p, e), t, q, g) = Changed(held, t, q, g)
  BY DEF Changed, IsHeld, IsMap

\* An index place is a command, if its id is good, and is dropped if it is too long.
LEMMA RegistrationAt ==
    ASSUME NEW file \in TraceFiles, NEW t, NEW m \in Nat, m + 1 \in GoodIds(file)
    PROVE  LET n == Count(GoodIds(file), m + 1)
               c == Registrations(t, file)[n]
               e == Index[file][m + 1]
           IN  /\ n \in 1 .. Len(Registrations(t, file))
               /\ c.choice = "kRegisterFilePath" /\ c.session_id = t
               /\ c.id = e.id /\ c.file_path = e.file_name
<1> DEFINE at == GoodIds(file)
           n == Count(at, m + 1)
           L == Len(Index[file])
<1>1. L \in Nat /\ at \in SUBSET (1 .. L)
  BY GoodPlaces
<1>2. GoodIndex[file] = [k \in 1 .. Cardinality(at) |-> Index[file][Nth(at, k)]]
  BY GoodPlaces
<1> HIDE DEF at, L
<1>3. n \in 1 .. Cardinality(at) /\ Nth(at, n) = m + 1 /\ Cardinality(at) \in Nat
  BY <1>1, Counting DEF at
<1> HIDE DEF n
<1> DEFINE N == Cardinality(at)
<1> HIDE DEF N
<1>4. DOMAIN GoodIndex[file] = 1 .. N /\ GoodIndex[file][n] = Index[file][m + 1]
  BY <1>2, <1>3 DEF N
<1>5. Registrations(t, file)
        = [i \in 1 .. N |->
             [choice |-> "kRegisterFilePath", session_id |-> t,
              id |-> GoodIndex[file][i].id, file_path |-> GoodIndex[file][i].file_name]]
  BY <1>4 DEF Registrations
<1>6. Len(Registrations(t, file)) = N /\ n \in 1 .. N
  BY <1>3, <1>5 DEF N
<1>7. Registrations(t, file)[n]
        = [choice |-> "kRegisterFilePath", session_id |-> t,
           id |-> GoodIndex[file][n].id, file_path |-> GoodIndex[file][n].file_name]
  BY <1>5, <1>6
<1>8. QED
  BY <1>4, <1>6, <1>7 DEF n, at

\* What has leaked after the trace file of t was prefetched.
Leaves(leaked, t, kind, file) ==
    IF file \in TraceFiles THEN LeftBy(leaked, t, file, Fitting(kind, file)) ELSE leaked

\* The registrations give the session the paths that it is to have.
LEMMA Registered ==
    ASSUME NEW file \in TraceFiles, NEW kind, NEW kinds, NEW leaked, NEW held, IsHeld(held),
           NEW t \in DOMAIN held, NEW f, Carried(f, Registrations(t, file), kind),
           f[0] = Holding(Changed(held, t, <<>>, {}), kinds, leaked)
    PROVE  f[Len(Registrations(t, file))]
             = Holding(Changed(held, t, Paths(file, Fitting(kind, file)), {}), kinds,
                       Leaves(leaked, t, kind, file))
<1> DEFINE at == GoodIds(file)
           fit == Fitting(kind, file)
           w == Registrations(t, file)
           L == Len(Index[file])
           P(m) == Paths(file, Upto(fit, m))
           Left(m) == LeftBy(leaked, t, file, Upto(fit, m))
           H(m) == Holding(Changed(held, t, P(m), {}), kinds, Left(m))
           T == {m \in Nat : m <= L => f[Count(at, m)] = H(m)}
<1>1. L \in Nat /\ at \in SUBSET (1 .. L) /\ DOMAIN Index[file] = 1 .. L
  <2>1. Index[file] \in Seq([id : Int, file_name : STRING])
    BY PrefetchAssumption
  <2>2. DOMAIN Index[file] = 1 .. Len(Index[file])
    BY <2>1
  <2>3. QED
    BY <2>2, GoodPlaces
<1>2. \A i : i \in fit <=> /\ i \in at
                           /\ ~(kind = "kOutOfProcessIpc" /\ Index[file][i].file_name \in LongNames)
  BY DEF Fitting, GoodIds
<1> HIDE DEF at, fit, L, w
<1>a. fit \subseteq at
  BY <1>2
<1>b. \A i \in at : i \in Nat /\ i >= 1 /\ i <= L
  BY <1>1
<1>c. \A i \in fit : i \in Nat /\ i >= 1 /\ i <= L
  BY <1>a, <1>b
<1>3. Count(at, 0) = 0 /\ Count(at, L) = Cardinality(at)
  BY <1>1, Counting
<1>4. 0 \in T
  <2>1. Upto(fit, 0) = {}
    <3>1. \A i \in fit : ~(i <= 0)
      BY <1>c
    <3>2. QED
      BY <3>1, Zenon DEF Upto
  <2>2. P(0) = <<>> /\ Left(0) = leaked
    <3>1. P(0) = <<>>
      BY <2>1, PathsNone
    <3>2. Left(0) = leaked
      <4>1. LeftBy(leaked, t, file, {}) = leaked
        BY GivenAgainNone
      <4>2. QED
        BY <2>1, <4>1
    <3>3. QED
      BY <3>1, <3>2
  <2>3. QED
    BY <1>3, <2>2
<1>5. ASSUME NEW m \in Nat, m \in T
      PROVE  m + 1 \in T
  <2> SUFFICES ASSUME m + 1 <= L
               PROVE  f[Count(at, m + 1)] = H(m + 1)
    OBVIOUS
  <2> DEFINE e == Index[file][m + 1]
             n == Count(at, m)
             X == Upto(fit, m)
  <2>1. f[n] = H(m)
    <3>1. m <= L
      BY <1>1
    <3>2. QED
      BY <1>5, <3>1
  <2>2. X \in SUBSET (1 .. m)
    <3>1. \A i \in fit : i <= m => i \in 1 .. m
      BY <1>c
    <3>2. QED
      BY <3>1, Zenon DEF Upto
  <2>3. \A i \in fit : i <= m + 1 <=> i <= m \/ i = m + 1
    BY <1>c
  <2>4. n \in Nat /\ Count(at, m + 1) = IF m + 1 \in at THEN n + 1 ELSE n
    BY <1>1, Counting
  <2>5. CASE m + 1 \notin fit
    <3>1. Upto(fit, m + 1) = X
      BY <2>3, <2>5, Zenon DEF Upto
    <3>2. H(m + 1) = H(m)
      BY <3>1
    <3> HIDE DEF H, X
    <3>3. CASE m + 1 \notin at
      BY <2>1, <2>4, <3>2, <3>3
    <3>4. CASE m + 1 \in at
      <4>1. /\ n + 1 \in 1 .. Len(w) /\ w[n + 1].choice = "kRegisterFilePath"
            /\ w[n + 1].file_path = e.file_name
        <5> DEFINE k == Count(at, m + 1)
        <5>1. /\ k \in 1 .. Len(w) /\ w[k].choice = "kRegisterFilePath"
              /\ w[k].file_path = e.file_name
          BY <3>4, RegistrationAt DEF at, w
        <5>2. k = n + 1
          BY <2>4, <3>4
        <5> HIDE DEF k, n, e
        <5>3. QED
          BY <5>1, <5>2
      <4>2. kind = "kOutOfProcessIpc" /\ ~Fits(w[n + 1])
        BY <1>2, <2>5, <3>4, <4>1 DEF Fits
      <4>3. f[n + 1] = f[(n + 1) - 1]
        BY <4>1, <4>2 DEF Carried, w
      <4>4. (n + 1) - 1 = n
        BY <2>4
      <4>5. QED
        BY <2>1, <2>4, <3>2, <3>4, <4>3, <4>4
    <3>5. QED
      BY <3>3, <3>4
  <2>6. CASE m + 1 \in fit
    <3>1. m + 1 \in at /\ ~(kind = "kOutOfProcessIpc" /\ e.file_name \in LongNames)
      BY <1>2, <2>6
    <3>2. /\ n + 1 \in 1 .. Len(w) /\ w[n + 1].choice = "kRegisterFilePath"
          /\ w[n + 1].session_id = t
          /\ w[n + 1].id = e.id /\ w[n + 1].file_path = e.file_name
      <4> DEFINE k == Count(at, m + 1)
      <4>1. /\ k \in 1 .. Len(w) /\ w[k].choice = "kRegisterFilePath" /\ w[k].session_id = t
            /\ w[k].id = e.id /\ w[k].file_path = e.file_name
        BY <3>1, RegistrationAt DEF at, w
      <4>2. k = n + 1
        BY <2>4, <3>1
      <4> HIDE DEF k, n, e
      <4>3. QED
        BY <4>1, <4>2
    <3>3. ~(kind = "kOutOfProcessIpc" /\ ~Fits(w[n + 1]))
      BY <3>1, <3>2 DEF Fits
    <3>4. f[n + 1] = Basic(f[(n + 1) - 1], w[n + 1])
      BY <3>2, <3>3 DEF Carried, w
    <3>5. (n + 1) - 1 = n
      BY <2>4
    <3>6. Basic(f[n], w[n + 1]) = RegisterFilePath(f[n], t, e.id, e.file_name)
      BY <3>2 DEF Basic
    <3>7. Upto(fit, m + 1) = X \cup {m + 1}
      <4>1. m + 1 <= m + 1
        OBVIOUS
      <4>2. QED
        BY <2>3, <2>6, <4>1, Zenon DEF Upto
    <3> DEFINE paths == Paths(file, X)
               more == Taking(paths, e.id, e.file_name)
               now == Changed(held, t, paths, {})
    <3>8. Paths(file, X \cup {m + 1}) = more
      BY <2>2, PathsNext DEF Taking
    <3>9. IsMap(paths)
      BY DEF IsMap, Paths
    <3>10. Left(m + 1) = Leaving(Left(m), t, paths, e.id, e.file_name)
      <4> HIDE DEF X
      <4>1. LeftBy(leaked, t, file, X \cup {m + 1})
              = Leaving(LeftBy(leaked, t, file, X), t, Paths(file, X), e.id, e.file_name)
        BY <2>2, GivenAgainNext
      <4>2. QED
        BY <3>7, <4>1 DEF X
    <3>11. /\ H(m) = Holding(now, kinds, Left(m))
           /\ H(m + 1) = Holding(Changed(held, t, more, {}), kinds, Left(m + 1))
      BY <3>7, <3>8
    <3> HIDE DEF H, X, Left
    <3> HIDE DEF paths
    <3>12. /\ IsHeld(now) /\ t \in DOMAIN now /\ now[t].path_map = paths /\ now[t].entries = {}
      BY <3>9, ChangedSession DEF ChangedIn
    <3> HIDE DEF now
    <3>13. RegisterFilePath(Holding(now, kinds, Left(m)), t, e.id, e.file_name)
             = Holding(Changed(now, t, more, {}), kinds,
                       Leaving(Left(m), t, paths, e.id, e.file_name))
      <4> DEFINE left == Left(m)
                 id == e.id
                 name == e.file_name
      <4> HIDE DEF left, id, name
      <4>1. RegisterFilePath(Holding(now, kinds, left), t, id, name)
              = Holding(Changed(now, t, Taking(now[t].path_map, id, name), {}), kinds,
                        Leaving(left, t, now[t].path_map, id, name))
        BY <3>12, HoldingRegisters
      <4>2. QED
        BY <3>12, <4>1 DEF left, id, name
    <3>14. Changed(now, t, more, {}) = Changed(held, t, more, {})
      BY ChangedTwice DEF now
    <3>15. f[n + 1] = H(m + 1)
      BY <2>1, <3>4, <3>5, <3>6, <3>10, <3>11, <3>13, <3>14
    <3>16. QED
      BY <2>4, <3>1, <3>15
  <2>7. QED
    BY <2>5, <2>6
<1>6. Nat \subseteq T
  <2> HIDE DEF T
  <2>1. QED
    BY <1>4, <1>5, Induction
<1>7. f[Count(at, L)] = H(L)
  BY <1>1, <1>6
<1>8. Upto(fit, L) = fit /\ Left(L) = Leaves(leaked, t, kind, file)
  <2>1. \A i \in fit : i <= L
    BY <1>c
  <2>2. Upto(fit, L) = fit
    BY <2>1, Zenon DEF Upto
  <2>3. QED
    BY <2>2 DEF Leaves, fit
<1>9. Len(w) = Cardinality(at)
  <2>1. GoodIndex[file] = [k \in 1 .. Cardinality(at) |-> Index[file][Nth(at, k)]]
    BY GoodPlaces DEF at
  <2>2. Cardinality(at) \in Nat
    BY <1>1, Counting
  <2>3. DOMAIN w = 1 .. Cardinality(at)
    BY <2>1 DEF w, Registrations
  <2>4. w = [i \in 1 .. Cardinality(at) |-> w[i]]
    BY <2>3 DEF w, Registrations
  <2>5. QED
    BY <2>2, <2>4
<1>10. QED
  BY <1>3, <1>7, <1>8, <1>9 DEF w, fit

\* A place of the list is a command, if its range is good.
LEMMA ReadAheadAt ==
    ASSUME NEW file \in TraceFiles, NEW t, NEW kind, NEW m \in Nat, m + 1 \in GoodRanges(file)
    PROVE  /\ Count(GoodRanges(file), m + 1) \in 1 .. Len(ReadAheads(t, file, kind))
           /\ ReadAheads(t, file, kind)[Count(GoodRanges(file), m + 1)]
                = [choice |-> "kReadAhead", session_id |-> t, kind |-> kind,
                   entry |-> List[file][m + 1]]
<1> DEFINE at == GoodRanges(file)
           n == Count(at, m + 1)
           L == Len(List[file])
<1>1. L \in Nat /\ at \in SUBSET (1 .. L)
  BY GoodPlaces
<1>2. GoodList[file] = [k \in 1 .. Cardinality(at) |-> List[file][Nth(at, k)]]
  BY GoodPlaces
<1> HIDE DEF at, L
<1>3. n \in 1 .. Cardinality(at) /\ Nth(at, n) = m + 1 /\ Cardinality(at) \in Nat
  BY <1>1, Counting DEF at
<1> HIDE DEF n
<1> DEFINE N == Cardinality(at)
<1> HIDE DEF N
<1>4. DOMAIN GoodList[file] = 1 .. N /\ GoodList[file][n] = List[file][m + 1]
  BY <1>2, <1>3 DEF N
<1>5. ReadAheads(t, file, kind)
        = [i \in 1 .. N |->
             [choice |-> "kReadAhead", session_id |-> t, kind |-> kind,
              entry |-> GoodList[file][i]]]
  BY <1>4 DEF ReadAheads
<1>6. Len(ReadAheads(t, file, kind)) = N /\ n \in 1 .. N
  BY <1>3, <1>5 DEF N
<1>7. ReadAheads(t, file, kind)[n]
        = [choice |-> "kReadAhead", session_id |-> t, kind |-> kind,
           entry |-> GoodList[file][n]]
  BY <1>5, <1>6
<1>8. QED
  BY <1>4, <1>6, <1>7 DEF n, at

\* The entries of the list that a session with these paths is to have.
Entries(file, paths) ==
    {e \in Range(List[file]) : e.index_id \in DOMAIN paths /\ e.length >= 0 /\ e.offset >= 0}

\* f carries out the list for the session of t, which has these paths.
Listed(f, file, kind, kinds, leaked, held, t, paths) ==
    /\ file \in TraceFiles /\ IsHeld(held) /\ t \in DOMAIN held /\ IsMap(paths)
    /\ Carried(f, ReadAheads(t, file, kinds[t]), kind)
    /\ f[0] = Holding(Changed(held, t, paths, {}), kinds, leaked)

\* After the paths, the session gets its entries.
LEMMA EntriesRead ==
    ASSUME NEW f, NEW file, NEW kind, NEW kinds, NEW leaked, NEW held, NEW t, NEW paths,
           Listed(f, file, kind, kinds, leaked, held, t, paths)
    PROVE  f[Len(ReadAheads(t, file, kinds[t]))]
             = Holding(Changed(held, t, paths, Entries(file, paths)), kinds, leaked)
<1> USE DEF Listed
<1> DEFINE at == GoodRanges(file)
           w == ReadAheads(t, file, kinds[t])
           L == Len(List[file])
           E(m) == {e \in {List[file][i] : i \in Upto(at, m)} : e.index_id \in DOMAIN paths}
           H(m) == Holding(Changed(held, t, paths, E(m)), kinds, leaked)
           T == {m \in Nat : m <= L => f[Count(at, m)] = H(m)}
<1>1. L \in Nat /\ at \in SUBSET (1 .. L) /\ DOMAIN List[file] = 1 .. L
  <2>1. List[file] \in Seq([index_id : Int, length : Int, offset : Int])
    BY PrefetchAssumption
  <2>2. DOMAIN List[file] = 1 .. Len(List[file])
    BY <2>1
  <2>3. QED
    BY <2>2, GoodPlaces
<1>2. \A i : i \in at <=> /\ i \in DOMAIN List[file]
                          /\ List[file][i].length >= 0 /\ List[file][i].offset >= 0
  BY DEF GoodRanges
<1> HIDE DEF at, L, w
<1>3. \A i \in at : i \in Nat /\ i >= 1 /\ i <= L
  BY <1>1
<1>4. Count(at, 0) = 0 /\ Count(at, L) = Cardinality(at)
  BY <1>1, Counting
<1>5. 0 \in T
  <2>1. Upto(at, 0) = {}
    <3>1. \A i \in at : ~(i <= 0)
      BY <1>3
    <3>2. QED
      BY <3>1, Zenon DEF Upto
  <2>2. E(0) = {}
    BY <2>1
  <2>3. QED
    BY <1>4, <2>2
<1>6. ASSUME NEW m \in Nat, m \in T
      PROVE  m + 1 \in T
  <2> SUFFICES ASSUME m + 1 <= L
               PROVE  f[Count(at, m + 1)] = H(m + 1)
    OBVIOUS
  <2> DEFINE e == List[file][m + 1]
             n == Count(at, m)
  <2>1. f[n] = H(m)
    <3>1. m <= L
      BY <1>1
    <3>2. QED
      BY <1>6, <3>1
  <2>2. \A i \in at : i <= m + 1 <=> i <= m \/ i = m + 1
    BY <1>3
  <2>3. n \in Nat /\ Count(at, m + 1) = IF m + 1 \in at THEN n + 1 ELSE n
    BY <1>1, Counting
  <2>4. CASE m + 1 \notin at
    <3>1. Upto(at, m + 1) = Upto(at, m)
      BY <2>2, <2>4, Zenon DEF Upto
    <3>2. H(m + 1) = H(m)
      BY <3>1
    <3> HIDE DEF H
    <3>3. QED
      BY <2>1, <2>3, <2>4, <3>2
  <2>5. CASE m + 1 \in at
    <3>1. /\ n + 1 \in 1 .. Len(w) /\ w[n + 1].choice = "kReadAhead"
          /\ w[n + 1].session_id = t /\ w[n + 1].kind = kinds[t] /\ w[n + 1].entry = e
      <4> DEFINE k == Count(at, m + 1)
      <4>1. /\ k \in 1 .. Len(w) /\ w[k].choice = "kReadAhead" /\ w[k].session_id = t
            /\ w[k].kind = kinds[t] /\ w[k].entry = e
        <5>1. /\ k \in 1 .. Len(w)
              /\ w[k] = [choice |-> "kReadAhead", session_id |-> t, kind |-> kinds[t], entry |-> e]
          BY <2>5, ReadAheadAt DEF at, w
        <5> HIDE DEF k
        <5>2. QED
          BY <5>1
      <4>2. k = n + 1
        BY <2>3, <2>5
      <4> HIDE DEF k, n, e
      <4>3. QED
        BY <4>1, <4>2
    <3>2. Fits(w[n + 1])
      BY <3>1 DEF Fits
    <3>3. f[n + 1] = Basic(f[(n + 1) - 1], w[n + 1])
      BY <3>1, <3>2 DEF Carried, w
    <3>4. (n + 1) - 1 = n
      BY <2>3
    <3>5. Basic(f[n], w[n + 1]) = ReadAhead(f[n], t, kinds[t], e)
      BY <3>1 DEF Basic
    <3>6. Upto(at, m + 1) = Upto(at, m) \cup {m + 1}
      <4>1. m + 1 <= m + 1
        OBVIOUS
      <4>2. QED
        BY <2>2, <2>5, <4>1, Zenon DEF Upto
    <3> DEFINE before == E(m)
               more == before \cup {i \in {e} : e.index_id \in DOMAIN paths}
               now == Changed(held, t, paths, before)
    <3>7. E(m + 1) = more
      BY <3>6
    <3>8. /\ H(m) = Holding(now, kinds, leaked)
          /\ H(m + 1) = Holding(Changed(held, t, paths, more), kinds, leaked)
      BY <3>7
    <3> HIDE DEF H, E, e
    <3> HIDE DEF before
    <3>9. IsHeld(now) /\ t \in DOMAIN now /\ now[t].path_map = paths /\ now[t].entries = before
      BY ChangedSession DEF ChangedIn
    <3> HIDE DEF now
    <3>10. ReadAhead(Holding(now, kinds, leaked), t, kinds[t], e)
             = Holding(Changed(now, t, paths, more), kinds, leaked)
      <4> DEFINE x == now[t]
                 next == WithEntry(x, e)
      <4>1. ReadAhead(Holding(now, kinds, leaked), t, kinds[t], e)
              = Holding(Changed(now, t, x.path_map, next), kinds, leaked)
        <5> HIDE DEF x, next, more
        <5>1. IsHeld(now) /\ t \in DOMAIN now
          BY <3>9
        <5>2. ReadAhead(Holding(now, kinds, leaked), t, kinds[t], e)
                = Holding(Changed(now, t, now[t].path_map, WithEntry(now[t], e)), kinds, leaked)
          BY <5>1, HoldingReadsAhead
        <5>3. QED
          BY <5>2 DEF x, next
      <4>2. x.path_map = paths /\ next = more
        BY <3>9 DEF WithEntry
      <4> HIDE DEF next, x, more
      <4>3. QED
        BY <4>1, <4>2
    <3>11. Changed(now, t, paths, more) = Changed(held, t, paths, more)
      BY ChangedTwice DEF now
    <3>12. f[n + 1] = H(m + 1)
      BY <2>1, <3>3, <3>4, <3>5, <3>8, <3>10, <3>11
    <3>13. QED
      BY <2>3, <2>5, <3>12
  <2>6. QED
    BY <2>4, <2>5
<1>7. Nat \subseteq T
  <2> HIDE DEF T
  <2>1. QED
    BY <1>5, <1>6, Induction
<1>8. f[Count(at, L)] = H(L)
  BY <1>1, <1>7
<1>9. E(L) = Entries(file, paths)
  <2>1. \A i \in at : i <= L
    BY <1>3
  <2>2. Upto(at, L) = at
    BY <2>1, Zenon DEF Upto
  <2>3. \A x : x \in E(L) <=> x \in Entries(file, paths)
    BY <1>2, <2>2 DEF Entries, Range
  <2>4. QED
    BY <2>3
<1>10. Len(w) = Cardinality(at)
  <2>1. GoodList[file] = [k \in 1 .. Cardinality(at) |-> List[file][Nth(at, k)]]
    BY GoodPlaces DEF at
  <2>2. Cardinality(at) \in Nat
    BY <1>1, Counting
  <2>3. DOMAIN w = 1 .. Cardinality(at)
    BY <2>1 DEF w, ReadAheads
  <2>4. w = [i \in 1 .. Cardinality(at) |-> w[i]]
    BY <2>3 DEF w, ReadAheads
  <2>5. QED
    BY <2>2, <2>4
<1>11. QED
  BY <1>4, <1>8, <1>9, <1>10 DEF w

\* The session that a trace file asks for.
LEMMA WantedIs ==
    ASSUME NEW file \in TraceFiles, NEW kind
    PROVE  /\ Wanted(kind, file)
                = [path_map |-> Paths(file, Fitting(kind, file)),
                   entries |-> Entries(file, Paths(file, Fitting(kind, file)))]
           /\ IsMap(Paths(file, Fitting(kind, file)))
  BY DEF Wanted, Entries, IsMap, Paths

\* The commands of a trace file give a new session what it asks for.
LEMMA Prefetched ==
    ASSUME NEW file \in TraceFiles, NEW kind, NEW kinds, NEW leaked, NEW held, IsHeld(held),
           NEW t \in DOMAIN held, held[t] = NewSession, NEW f,
           Carried(f, Prefetching(t, file, kinds[t]), kind), f[0] = Holding(held, kinds, leaked)
    PROVE  f[Len(Prefetching(t, file, kinds[t]))]
             = Holding([held EXCEPT ![t] = Wanted(kind, file)], kinds,
                       Leaves(leaked, t, kind, file))
<1> DEFINE r == Registrations(t, file)
           a == ReadAheads(t, file, kinds[t])
           w == r \o a
           m == Len(r)
           k == Len(a)
           paths == Paths(file, Fitting(kind, file))
           left == Leaves(leaked, t, kind, file)
<1>1. Prefetching(t, file, kinds[t]) = w
  BY DEF Prefetching
<1>2. PICK N \in Nat : DOMAIN r = 1 .. N
  BY GoodEntries DEF Registrations
<1>3. PICK M \in Nat : DOMAIN a = 1 .. M
  BY GoodEntries DEF ReadAheads
<1>4. r \in Seq(Range(r)) /\ a \in Seq(Range(a))
  <2>1. r = [i \in 1 .. N |-> r[i]] /\ a = [i \in 1 .. M |-> a[i]]
    BY <1>2, <1>3 DEF Registrations, ReadAheads
  <2> HIDE DEF r, a
  <2>2. (\A i \in 1 .. N : r[i] \in Range(r)) /\ (\A i \in 1 .. M : a[i] \in Range(a))
    BY <1>2, <1>3 DEF Range
  <2>3. QED
    BY <2>1, <2>2, FunctionIsSequence
<1> HIDE DEF r, a
<1>5. /\ m \in Nat /\ k \in Nat /\ Len(w) = m + k
      /\ \A i \in 1 .. m : w[i] = r[i]
      /\ \A i \in 1 .. k : w[m + i] = a[i]
  BY <1>4
<1> HIDE DEF w, m, k
<1>6. Carried(f, w, kind)
  BY <1>1
<1>7. Carried(f, r, kind)
  <2> SUFFICES ASSUME NEW n \in 1 .. m
               PROVE  f[n] = IF kind = "kOutOfProcessIpc" /\ ~Fits(r[n]) THEN f[n - 1]
                             ELSE Basic(f[n - 1], r[n])
    BY DEF Carried, m
  <2>1. n \in 1 .. Len(w) /\ w[n] = r[n]
    BY <1>5
  <2>2. QED
    BY <1>6, <2>1 DEF Carried
<1>8. f[0] = Holding(Changed(held, t, <<>>, {}), kinds, leaked)
  <2>1. held[t].path_map = <<>> /\ held[t].entries = {}
    BY DEF NewSession
  <2>2. Changed(held, t, <<>>, {}) = held
    BY <2>1, ChangedNothing
  <2>3. QED
    BY <2>2
<1>9. f[m] = Holding(Changed(held, t, paths, {}), kinds, left)
  BY <1>7, <1>8, Registered DEF r, m
<1> DEFINE g == [n \in 0 .. k |-> f[m + n]]
<1>10. g[0] = f[m] /\ g[k] = f[m + k] /\ \A n \in 1 .. k : g[n] = f[m + n] /\ g[n - 1] = f[m + (n - 1)]
  BY <1>5
<1> HIDE DEF g
<1>11. Carried(g, a, kind)
  <2> SUFFICES ASSUME NEW n \in 1 .. k
               PROVE  g[n] = IF kind = "kOutOfProcessIpc" /\ ~Fits(a[n]) THEN g[n - 1]
                             ELSE Basic(g[n - 1], a[n])
    BY DEF Carried, k
  <2> DEFINE i == m + n
  <2>1. i \in 1 .. Len(w) /\ w[i] = a[n] /\ i - 1 = m + (n - 1)
    <3>1. i \in Nat /\ i >= 1 /\ i <= m + k /\ i - 1 = m + (n - 1)
      BY <1>5
    <3>2. w[m + n] = a[n]
      BY <1>5
    <3>3. QED
      BY <1>5, <3>1, <3>2
  <2>2. g[n] = f[i] /\ g[n - 1] = f[i - 1]
    BY <1>10, <2>1
  <2> HIDE DEF i
  <2>3. QED
    BY <1>6, <2>1, <2>2 DEF Carried
<1>12. IsMap(paths) /\ Wanted(kind, file) = [path_map |-> paths, entries |-> Entries(file, paths)]
  BY WantedIs
<1> HIDE DEF paths, left
<1>13. g[k] = Holding(Changed(held, t, paths, Entries(file, paths)), kinds, left)
  <2>1. g[0] = Holding(Changed(held, t, paths, {}), kinds, left)
    BY <1>9, <1>10
  <2>2. Carried(g, ReadAheads(t, file, kinds[t]), kind)
    BY <1>11 DEF a
  <2>3. IsMap(paths)
    BY <1>12
  <2>4. Listed(g, file, kind, kinds, left, held, t, paths)
    BY <2>1, <2>2, <2>3 DEF Listed
  <2>5. g[Len(ReadAheads(t, file, kinds[t]))]
          = Holding(Changed(held, t, paths, Entries(file, paths)), kinds, left)
    BY <2>4, EntriesRead
  <2>6. QED
    BY <2>5 DEF a, k
<1>14. Changed(held, t, paths, Entries(file, paths)) = [held EXCEPT ![t] = Wanted(kind, file)]
  BY <1>12 DEF Changed
<1>15. QED
  BY <1>1, <1>5, <1>10, <1>13, <1>14 DEF left

\* The same for the sequence of commands that BeginTask sends.
LEMMA TaskPrefetched ==
    ASSUME NEW file \in TraceFiles, NEW kind \in {"kInProcessDirect", "kOutOfProcessIpc"},
           NEW kinds, NEW leaked, NEW held, IsHeld(held), NEW t \in DOMAIN held,
           held[t] = NewSession
    PROVE  AfterCommands(kind, Holding(held, kinds, leaked), Prefetching(t, file, kinds[t]))
             = Holding([held EXCEPT ![t] = Wanted(kind, file)], kinds,
                       Leaves(leaked, t, kind, file))
<1> DEFINE w == Prefetching(t, file, kinds[t])
           s == Holding(held, kinds, leaked)
<1>1. Len(w) \in Nat /\ \A n \in 1 .. Len(w) : w[n].choice \in {"kRegisterFilePath", "kReadAhead"}
  <2>1. /\ w \in Seq(Range(w))
        /\ \A i \in DOMAIN w : w[i].choice \in {"kRegisterFilePath", "kReadAhead"}
    BY PrefetchingCalls
  <2> HIDE DEF w
  <2>2. Len(w) \in Nat /\ DOMAIN w = 1 .. Len(w)
    BY <2>1
  <2>3. QED
    BY <2>1, <2>2
<1> HIDE DEF w, s
<1>2. PICK f : Steps(f, kind, s, w) /\ AfterCommands(kind, s, w) = f[Len(w)]
  BY <1>1, CommandsFold
<1>3. Carried(f, w, kind)
  <2> SUFFICES ASSUME NEW n \in 1 .. Len(w)
               PROVE  f[n] = IF kind = "kOutOfProcessIpc" /\ ~Fits(w[n]) THEN f[n - 1]
                             ELSE Basic(f[n - 1], w[n])
    BY DEF Carried
  <2>1. f[n] = Deliver(kind, f[n - 1], w[n])
    BY <1>2 DEF Steps
  <2>2. Apply(f[n - 1], w[n]) = Basic(f[n - 1], w[n])
    BY <1>1 DEF Apply
  <2>3. QED
    BY <2>1, <2>2 DEF Deliver
<1>4. f[0] = s
  BY <1>2 DEF Steps
<1>5. f[Len(w)] = Holding([held EXCEPT ![t] = Wanted(kind, file)], kinds,
                          Leaves(leaked, t, kind, file))
  BY <1>3, <1>4, Prefetched DEF s, w
<1>6. QED
  BY <1>2, <1>5 DEF s, w

\* ProcessFd gives a new session what its trace file asks for, and nothing when it
\* is no trace file.
LEMMA FdPrefetched ==
    ASSUME NEW file \in OnDisk, NEW kinds, NEW leaked, NEW held, IsHeld(held),
           NEW t \in DOMAIN held, held[t] = NewSession, kinds[t] = "kFadvise"
    PROVE  ProcessFd(Holding(held, kinds, leaked), t, file)
             = Holding([held EXCEPT ![t] = Wanted("kOutOfProcessSocket", file)], kinds,
                       Leaves(leaked, t, "kOutOfProcessSocket", file))
<1> DEFINE s == Holding(held, kinds, leaked)
<1>1. CASE file = Corrupt
  <2>1. /\ Wanted("kOutOfProcessSocket", file) = NewSession
        /\ Leaves(leaked, t, "kOutOfProcessSocket", file) = leaked
    BY <1>1, PrefetchAssumption DEF Wanted, Leaves
  <2>2. [held EXCEPT ![t] = NewSession] = held
    BY DEF IsHeld, IsMap
  <2>3. ProcessFd(s, t, file) = s
    BY <1>1 DEF ProcessFd
  <2>4. QED
    BY <2>1, <2>2, <2>3
<1>2. CASE file # Corrupt
  <2> DEFINE w == Prefetching(t, file, "kFadvise")
             f == AfterCalls(s, w)
  <2>1. file \in TraceFiles
    BY <1>2 DEF OnDisk
  <2>2. w \in Seq(Range(w))
    BY <2>1, PrefetchingCalls
  <2>3. ProcessFd(s, t, file) = f[Len(w)]
    BY <1>2 DEF ProcessFd
  <2> HIDE DEF w, s
  <2>4. Len(w) \in Nat
    BY <2>2
  <2>5. f[0] = s /\ \A n \in 1 .. Len(w) : f[n] = Basic(f[n - 1], w[n])
    BY <2>4, CallsFold
  <2> HIDE DEF f
  <2>6. Carried(f, w, "kOutOfProcessSocket")
    BY <2>5 DEF Carried
  <2>7. Carried(f, Prefetching(t, file, kinds[t]), "kOutOfProcessSocket")
    BY <2>6 DEF w
  <2>8. f[0] = Holding(held, kinds, leaked)
    BY <2>5 DEF s
  <2>9. f[Len(Prefetching(t, file, kinds[t]))]
          = Holding([held EXCEPT ![t] = Wanted("kOutOfProcessSocket", file)], kinds,
                    Leaves(leaked, t, "kOutOfProcessSocket", file))
    BY <2>1, <2>7, <2>8, Prefetched
  <2>10. QED
    BY <2>3, <2>9 DEF w, s
<1>3. QED
  BY <1>1, <1>2

\* A command about a whole session is not dropped, and is carried out as it is.
LEMMA SessionCommand ==
    ASSUME NEW kind, NEW s, NEW t, NEW choice \in {"kDumpSession", "kCreateSession", "kDestroySession"}
    PROVE  /\ Command(choice, t).choice = choice /\ Command(choice, t).session_id = t
           /\ Deliver(kind, s, Command(choice, t)) = Basic(s, Command(choice, t))
<1>1. /\ Command(choice, t).choice = choice /\ Command(choice, t).session_id = t
      /\ Fits(Command(choice, t))
  BY DEF Command, Fits
<1>2. Apply(s, Command(choice, t)) = Basic(s, Command(choice, t))
  BY <1>1 DEF Apply
<1>3. QED
  BY <1>1, <1>2 DEF Deliver

\* kDumpSession changes nothing.
LEMMA DumpDelivered ==
    ASSUME NEW kind, NEW s, NEW t
    PROVE  Deliver(kind, s, Command("kDumpSession", t)) = s
  BY SessionCommand DEF Basic

\* kCreateSession, for a task that has none.
LEMMA CreateDelivered ==
    ASSUME NEW kind, NEW kinds, NEW leaked, NEW held, IsHeld(held), NEW t, t \notin DOMAIN held
    PROVE  Deliver(kind, Holding(held, kinds, leaked), Command("kCreateSession", t))
             = Holding(Insert(held, t, NewSession), kinds, leaked)
<1> DEFINE s == Holding(held, kinds, leaked)
<1>1. CreateSession(s, t) = Holding(Insert(held, t, NewSession), kinds, leaked)
  BY HoldingCreates
<1> HIDE DEF s
<1>2. Deliver(kind, s, Command("kCreateSession", t)) = CreateSession(s, t)
  BY SessionCommand DEF Basic
<1>3. QED
  BY <1>1, <1>2 DEF s

\* What the tasks hold without one of them.
Without(held, t) == [u \in DOMAIN held \ {t} |-> held[u]]

\* kDestroySession, for a task that has a session.
LEMMA DestroyDelivered ==
    ASSUME NEW kind, NEW kinds, NEW leaked, NEW held, IsHeld(held), NEW t \in DOMAIN held
    PROVE  Deliver(kind, Holding(held, kinds, leaked), Command("kDestroySession", t))
             = Holding(Without(held, t), kinds, leaked)
<1> DEFINE s == Holding(held, kinds, leaked)
<1>1. DestroySession(s, t) = Holding(Without(held, t), kinds, leaked)
  BY HoldingDestroys DEF Without
<1>2. s.sessions = held
  BY DEF Holding
<1> HIDE DEF s
<1>3. Deliver(kind, s, Command("kDestroySession", t)) = DestroySession(s, t)
  BY <1>2, SessionCommand DEF Basic
<1>4. QED
  BY <1>1, <1>3 DEF s

\* A session that comes with its trace file.
LEMMA FdSessionCommand ==
    ASSUME NEW kind, NEW kinds, NEW leaked, NEW held, IsHeld(held), NEW t, t \notin DOMAIN held,
           NEW file \in OnDisk, kinds[t] = "kFadvise"
    PROVE  Deliver(kind, Holding(held, kinds, leaked),
                   [choice |-> "kCreateFdSession", session_id |-> t, fd |-> file])
             = Holding(Insert(held, t, Wanted("kOutOfProcessSocket", file)), kinds,
                       Leaves(leaked, t, "kOutOfProcessSocket", file))
<1> DEFINE s == Holding(held, kinds, leaked)
           c == [choice |-> "kCreateFdSession", session_id |-> t, fd |-> file]
           new == Insert(held, t, NewSession)
<1>1. s.sessions = held
  BY DEF Holding
<1> HIDE DEF s
<1>2. Deliver(kind, s, c) = ProcessFd(CreateSession(s, t), t, file)
  BY <1>1 DEF Deliver, Apply, Fits
<1>3. CreateSession(s, t) = Holding(new, kinds, leaked) /\ IsHeld(new)
  BY HoldingCreates DEF s
<1>4. t \in DOMAIN new /\ new[t] = NewSession
  BY DEF Insert
<1>5. [new EXCEPT ![t] = Wanted("kOutOfProcessSocket", file)]
        = Insert(held, t, Wanted("kOutOfProcessSocket", file))
  BY DEF Insert
<1> HIDE DEF new, c
<1>6. ProcessFd(Holding(new, kinds, leaked), t, file)
        = Holding([new EXCEPT ![t] = Wanted("kOutOfProcessSocket", file)], kinds,
                  Leaves(leaked, t, "kOutOfProcessSocket", file))
  BY <1>3, <1>4, FdPrefetched
<1>7. QED
  BY <1>2, <1>3, <1>5, <1>6 DEF c, s

-----------------------------------------------------------------------------
(* What has arrived, and what is promised *)

\* The service once the child has carried out what is in the pipe.
Now == AfterCommands(session_kind, served, OnWay)

\* The sessions that these tasks ask for.
WantedBy(tasks, kind, traces) == [t \in tasks |-> Wanted(kind, traces[t])]

\* What prefetching the trace files has leaked, or is to leak.
Leaks == UNION {LeakedBy(t) : t \in Asked}

\* The sessions are there to be compared with the tasks.
Comparable == Alive /\ pc # "exit" /\ child \notin {"exited", "killed"}

Mirrors ==
    Comparable => AfterCommands(session_kind, Now, todo)
                    = Holding(WantedBy(Held, session_kind, trace), strategy, Leaks)

\* Also when they are not: nothing else leaks.
LeakBound ==
    child \notin {"exited", "killed"} =>
        AfterCommands(session_kind, Now, todo).leaked \subseteq Leaks

NoneServed == child \in {"exited", "killed"} => served = NoService

\* What a whole stream is parsed to.
LEMMA StreamParses ==
    ASSUME Sequences, Paired(Stream), Len(longbuf) <= 1, longbuf_fds = KeptFds(longbuf)
    PROVE  Parse(longbuf \o channel, longbuf_fds \o Fds(channel)) = Whole(Stream)
<1> DEFINE b == longbuf \o channel
           fds == KeptFds(longbuf) \o Fds(channel)
<1>1. b = Stream /\ b \in Seq(Chunks) /\ longbuf \in Seq(Chunks) /\ channel \in Seq(Chunks)
  BY OnWaySequence DEF Stream, Sequences
<1>2. \A i \in Carriers(b) : fds[Rank(b, i)] = b[i].command.fd
  BY <1>1, FdsOfRead
<1> HIDE DEF b, fds
<1>3. Len(b) \in Nat
  BY <1>1
<1>4. Halved(b)
  BY <1>1, <1>3, PrefixHalved
<1>5. Parse(b, fds) = Whole(b)
  BY <1>1, <1>2, <1>4, ParseIsWhole
<1>6. QED
  BY <1>1, <1>5 DEF b, fds

\* What has arrived, when everything that was sent goes before what is to be sent.
LEMMA ArrivedIs ==
    ASSUME Parts, MirrorInv, child \notin {"exited", "killed"}
    PROVE  Arrived = AfterCommands(session_kind, Now, todo)
<1>1. Sequences /\ StreamInv /\ TypeCalls
  BY DEF Parts, PipeInv
<1>2. Paired(Stream) /\ Len(longbuf) <= 1 /\ longbuf_fds = KeptFds(longbuf)
  <2>1. CASE child = "running"
    BY <1>1, <2>1 DEF StreamInv
  <2>2. CASE child # "running"
    <3>1. longbuf = <<>> /\ longbuf_fds = <<>> /\ channel = <<>>
      BY <1>1, <2>2 DEF TypeCalls, MirrorInv
    <3>2. Stream = <<>>
      BY <3>1 DEF Stream
    <3>3. QED
      BY <3>1, <3>2 DEF Paired, KeptFds
  <2>3. QED
    BY <2>1, <2>2
<1>3. Parse(longbuf \o channel, longbuf_fds \o Fds(channel)) = Whole(Stream)
  BY <1>1, <1>2, StreamParses
<1>4. OnTheirWay = OnWay \o todo
  BY <1>3 DEF OnTheirWay, OnWay
<1>5. OnWay \in Seq(Commands) /\ todo \in Seq(Commands)
  BY <1>1, OnWaySequence DEF Sequences
<1>6. QED
  BY <1>4, <1>5, FoldConcat DEF Arrived, Now

\* Mirrors is the property, in terms of what has arrived by now; LeakBound as well.
LEMMA MirrorsIs ==
    ASSUME Parts, MirrorInv
    PROVE  (Mirrors <=> SessionsMirrorTasks) /\ (LeakBound /\ NoneServed <=> LeakInv)
<1>1. Promised = Holding(WantedBy(Held, session_kind, trace), strategy, Leaks)
  BY DEF Promised, WantedBy, Leaks
<1>2. child \notin {"exited", "killed"} => Arrived = AfterCommands(session_kind, Now, todo)
  BY ArrivedIs
<1>3. QED
  BY <1>1, <1>2 DEF Mirrors, Comparable, SessionsMirrorTasks, LeakBound, LeakInv, Leaks,
                    NoneServed

\* The same traces leak the same, for the same tasks.
LEMMA LeaksStay ==
    ASSUME UNCHANGED session_kind, Asked' = Asked, \A t \in Asked : trace'[t] = trace[t]
    PROVE  Leaks' = Leaks
<1>1. \A t \in Asked : LeakedBy(t)' = LeakedBy(t)
  BY DEF LeakedBy
<1>2. Leaks' = UNION {LeakedBy(t)' : t \in Asked}
  BY DEF Leaks
<1>3. QED
  BY <1>1, <1>2 DEF Leaks

\* No fewer tasks leak no less.
LEMMA LeaksMore ==
    ASSUME UNCHANGED <<session_kind, trace>>, Asked \subseteq Asked'
    PROVE  Leaks \subseteq Leaks'
<1>1. \A t : LeakedBy(t)' = LeakedBy(t)
  BY DEF LeakedBy
<1>2. Leaks' = UNION {LeakedBy(t)' : t \in Asked'}
  BY DEF Leaks
<1>3. QED
  BY <1>1, <1>2 DEF Leaks

\* One task more that prefetches a trace file.
LEMMA LeaksOne ==
    ASSUME UNCHANGED session_kind, NEW t, Asked' = Asked \cup {t},
           \A u \in Asked : trace'[u] = trace[u], NEW file \in TraceFiles, trace'[t] = file
    PROVE  Leaks' = Leaves(Leaks, t, session_kind, file)
<1>1. \A u \in Asked : LeakedBy(u)' = LeakedBy(u)
  BY DEF LeakedBy
<1>2. LeakedBy(t)' = {t} \X GivenAgain(file, Fitting(session_kind, file))
  BY DEF LeakedBy
<1>3. Leaks' = UNION {LeakedBy(u)' : u \in Asked \cup {t}}
  BY DEF Leaks
<1>4. Leaks' = Leaks \cup LeakedBy(t)'
  BY <1>1, <1>3 DEF Leaks
<1>5. QED
  BY <1>2, <1>4 DEF Leaves, LeftBy

\* What has leaked is never given back, and to end sessions leaks nothing more.
LEMMA LeaksGrow ==
    ASSUME NEW kind, NEW s, Tidy(s), NEW w \in Seq(Commands)
    PROVE  /\ Tidy(AfterCommands(kind, s, w))
           /\ s.leaked \subseteq AfterCommands(kind, s, w).leaked
           /\ (\A i \in DOMAIN w : w[i].choice \in {"kExit", "kDestroySession"})
                 => AfterCommands(kind, s, w).leaked = s.leaked
<1>1. Len(w) \in Nat /\ DOMAIN w = 1 .. Len(w) /\ \A i \in 1 .. Len(w) : w[i] \in Commands
  OBVIOUS
<1>2. PICK f : Steps(f, kind, s, w) /\ AfterCommands(kind, s, w) = f[Len(w)]
  BY <1>1, CommandsFold
<1> DEFINE Ending == \A i \in 1 .. Len(w) : w[i].choice \in {"kExit", "kDestroySession"}
           Grown(x) == /\ Tidy(x) /\ s.leaked \subseteq x.leaked
                       /\ Ending => x.leaked = s.leaked
           T == {n \in Nat : n <= Len(w) => Grown(f[n])}
<1>3. 0 \in T
  BY <1>2 DEF Steps
<1>4. ASSUME NEW n \in Nat, n \in T
      PROVE  n + 1 \in T
  <2> SUFFICES ASSUME n + 1 <= Len(w)
               PROVE  Grown(f[n + 1])
    OBVIOUS
  <2> DEFINE x == f[n]
             c == w[n + 1]
  <2>1. Grown(x)
    BY <1>1, <1>4
  <2>2. n + 1 \in 1 .. Len(w) /\ (n + 1) - 1 = n /\ c \in Commands
    BY <1>1
  <2>3. f[n + 1] = Deliver(kind, x, c)
    BY <1>2, <2>2 DEF Steps
  <2>4. c.choice = "kCreateFdSession" => c.fd \in OnDisk
    BY <2>2, CommandKinds
  <2>5. Ending => c.choice \in {"kExit", "kDestroySession"}
    BY <2>2
  <2> HIDE DEF x, c, Ending
  <2>6. Tidy(Apply(x, c)) /\ x.leaked \subseteq Apply(x, c).leaked
    BY <2>1, <2>4, ApplyTidy
  <2>7. ASSUME Ending
        PROVE  Apply(x, c).leaked = x.leaked
    <3>1. CASE c.choice = "kExit"
      BY <3>1 DEF Apply, Basic
    <3>2. CASE c.choice = "kDestroySession"
      BY <2>1, <3>2, DestroyTidy DEF Apply, Basic
    <3>3. QED
      BY <2>5, <2>7, <3>1, <3>2
  <2>8. f[n + 1] = x \/ f[n + 1] = Apply(x, c)
    BY <2>3 DEF Deliver
  <2>9. QED
    BY <2>1, <2>6, <2>7, <2>8
<1>5. Len(w) \in T
  <2> HIDE DEF T
  <2>1. QED
    BY <1>1, <1>3, <1>4, Induction
<1>6. QED
  BY <1>1, <1>2, <1>5

\* Sessions with their paths and entries.
LEMMA WantedHeld ==
    ASSUME NEW tasks, NEW kind, NEW traces
    PROVE  IsHeld(WantedBy(tasks, kind, traces)) /\ DOMAIN WantedBy(tasks, kind, traces) = tasks
<1>1. \A file : IsSession(Wanted(kind, file))
  <2> SUFFICES ASSUME NEW file
               PROVE  IsSession(Wanted(kind, file))
    OBVIOUS
  <2>1. CASE file \in TraceFiles
    BY <2>1, WantedIs DEF IsSession, IsMap
  <2>2. CASE file \notin TraceFiles
    <3>1. Wanted(kind, file) = NewSession
      BY <2>2 DEF Wanted
    <3>2. QED
      BY <3>1 DEF IsSession, NewSession
  <2>3. QED
    BY <2>1, <2>2
<1>2. QED
  BY <1>1 DEF WantedBy, IsHeld, IsMap

\* One task more.
LEMMA WantedMore ==
    ASSUME NEW tasks, NEW kind, NEW traces, NEW t
    PROVE  Insert(WantedBy(tasks, kind, traces), t, Wanted(kind, traces[t]))
             = WantedBy(tasks \cup {t}, kind, traces)
  BY DEF Insert, WantedBy

\* A task whose path turns out to be a trace file.
LEMMA WantedOther ==
    ASSUME NEW kind, NEW traces, NEW tasks \in SUBSET DOMAIN traces,
           NEW t \in tasks, NEW file
    PROVE  [WantedBy(tasks, kind, traces) EXCEPT ![t] = Wanted(kind, file)]
             = WantedBy(tasks, kind, [traces EXCEPT ![t] = file])
<1> DEFINE new == [traces EXCEPT ![t] = file]
<1>1. new[t] = file /\ \A u : u # t /\ u \in DOMAIN traces => new[u] = traces[u]
  OBVIOUS
<1> HIDE DEF new
<1>2. \A u \in tasks : Wanted(kind, new[u]) = IF u = t THEN Wanted(kind, file)
                                             ELSE Wanted(kind, traces[u])
  BY <1>1
<1>3. [WantedBy(tasks, kind, traces) EXCEPT ![t] = Wanted(kind, file)] = WantedBy(tasks, kind, new)
  BY <1>2 DEF WantedBy
<1>4. QED
  BY <1>3 DEF new

\* A task without a session may have any path.
LEMMA WantedSame ==
    ASSUME NEW kind, NEW traces, NEW tasks \in SUBSET DOMAIN traces,
           NEW t, t \notin tasks, NEW file
    PROVE  WantedBy(tasks, kind, [traces EXCEPT ![t] = file]) = WantedBy(tasks, kind, traces)
<1> DEFINE new == [traces EXCEPT ![t] = file]
<1>1. \A u \in tasks : new[u] = traces[u]
  OBVIOUS
<1> HIDE DEF new
<1>2. \A u \in tasks : Wanted(kind, new[u]) = Wanted(kind, traces[u])
  BY <1>1
<1>3. WantedBy(tasks, kind, new) = WantedBy(tasks, kind, traces)
  BY <1>2 DEF WantedBy
<1>4. QED
  BY <1>3 DEF new

-----------------------------------------------------------------------------
(* What is in the pipe, from step to step *)

\* In process nothing is ever on its way.
LEMMA NothingOnWay ==
    ASSUME Sequences, Direct, MirrorInv
    PROVE  OnWay = <<>>
<1>1. Stream = <<>> /\ pending = <<>>
  BY DEF MirrorInv, Stream
<1>2. Stream \in Seq(Chunks) /\ Len(Stream) \div 2 = 0
  BY <1>1, OnWaySequence
<1>3. Whole(Stream) \in Seq(Commands) /\ Len(Whole(Stream)) = 0
  BY <1>2, WholeSequence
<1> DEFINE W == Whole(Stream)
<1> HIDE DEF W
<1>4. W \in Seq(Commands) /\ Len(W) = 0 => W = <<>>
  OBVIOUS
<1>5. QED
  BY <1>1, <1>3, <1>4 DEF W, OnWay

\* A command that is sent is the next to arrive, unless a pipe drops it.
LEMMA SentArrives ==
    ASSUME Parts, MirrorInv, NEW c \in Commands, SendCommand(c),
           UNCHANGED <<session_kind, longbuf, longbuf_fds, pending, child>>,
           child \notin {"exited", "killed"}
    PROVE  /\ Now' = Deliver(session_kind, Now, c)
           /\ child = "running" => \A j \in DOMAIN OnWay' : Fits(OnWay'[j])
           /\ Direct => channel' = channel
<1>1. Sequences /\ StreamInv /\ TypeCalls /\ OnWay \in Seq(Commands)
  BY OnWaySequence DEF Parts, PipeInv
<1>2. CASE Direct
  <2>1. served' = Apply(served, c) /\ channel' = channel /\ child # "running"
    BY <1>1, <1>2 DEF SendCommand, TypeCalls
  <2>2. OnWay' = OnWay /\ OnWay = <<>>
    <3>1. OnWay' = OnWay
      BY <2>1 DEF OnWay, Stream
    <3>2. OnWay = <<>>
      BY <1>1, <1>2, NothingOnWay
    <3>3. QED
      BY <3>1, <3>2
  <2>3. Now = served /\ Now' = served'
    BY <2>2, FoldShort DEF Now
  <2>4. Deliver(session_kind, served, c) = Apply(served, c)
    BY <1>2 DEF Deliver, Direct
  <2>5. QED
    BY <2>1, <2>3, <2>4
<1>3. CASE ~Direct
  <2>1. child = "running"
    BY <1>1, <1>3 DEF TypeCalls
  <2>2. served' = served /\ OnWay' = IF Fits(c) THEN Append(OnWay, c) ELSE OnWay
    BY <1>1, <1>3, <2>1, PipeTakes
  <2>3. \A j \in DOMAIN OnWay : Fits(OnWay[j])
    BY <2>1 DEF MirrorInv
  <2>4. CASE Fits(c)
    <3>1. OnWay' = Append(OnWay, c)
      BY <2>2, <2>4
    <3>2. Now' = AfterCommands(session_kind, served, Append(OnWay, c))
      BY <2>2, <3>1 DEF Now
    <3>3. Now' = Deliver(session_kind, Now, c)
      BY <1>1, <3>2, FoldEnds DEF Now
    <3>4. \A j \in DOMAIN Append(OnWay, c) :
             Append(OnWay, c)[j] = c \/ \E i \in DOMAIN OnWay : Append(OnWay, c)[j] = OnWay[i]
      BY <1>1, AddedPlaces
    <3>5. \A j \in DOMAIN OnWay' : Fits(OnWay'[j])
      BY <2>3, <2>4, <3>1, <3>4
    <3>6. QED
      BY <1>3, <3>3, <3>5
  <2>5. CASE ~Fits(c)
    <3>1. OnWay' = OnWay
      BY <2>2, <2>5
    <3>2. Now' = Now
      BY <2>2, <3>1 DEF Now
    <3>3. Deliver(session_kind, Now, c) = Now
      BY <1>3, <2>5 DEF Deliver, Direct
    <3>4. QED
      BY <1>3, <2>3, <3>1, <3>2, <3>3
  <2>6. QED
    BY <2>4, <2>5
<1>4. QED
  BY <1>2, <1>3

\* Nothing changes in the pipe, nor in the sessions.
LEMMA NowStays ==
    ASSUME Parts, UNCHANGED <<session_kind, pipeVars, child, served>>
    PROVE  Now' = Now /\ OnWay' = OnWay
<1>1. OnWay' = OnWay
  BY DEF OnWay, Stream, pipeVars
<1>2. QED
  BY <1>1 DEF Now

Agreed == Parts /\ MirrorInv /\ Mirrors /\ LeakBound /\ NoneServed

-----------------------------------------------------------------------------
(* The sessions mirror the tasks: the steps that send nothing *)

\* What is promised to a task that has not got a session is nothing yet.
LEMMA BeginTaskMirrors ==
    ASSUME Agreed, NEW t \in Tasks, BeginTask(t)
    PROVE  MirrorInv' /\ Mirrors'
<1> USE DEF Agreed
<1>1. /\ pc = "idle" /\ t \notin begun /\ begun' = begun \cup {t} /\ task' = {t}
      /\ pc' = IF UseSockets THEN "open" ELSE "create"
      /\ UNCHANGED <<session_kind, todo, trace, strategy, finished, sessions, file_map,
                     recents, channel, longbuf, longbuf_fds, pending, child, served>>
  BY DEF BeginTask, mapVars, pipeVars
<1>2. Now' = Now /\ OnWay' = OnWay
  BY <1>1, NowStays DEF pipeVars
<1>3. Held = sessions /\ Held' = sessions
  BY <1>1 DEF Held
<1>4. sessions \subseteq begun /\ trace[t] \notin TraceFiles
  BY <1>1, PrefetchAssumption DEF Parts, TypeCalls, MirrorInv
<1>5. UseSockets' = UseSockets /\ Direct' = Direct
  BY <1>1 DEF UseSockets, Direct
<1>6. MirrorInv'
  BY <1>1, <1>2, <1>4, <1>5 DEF MirrorInv
<1>7. Leaks' = Leaks
  <2>1. Asked' = Asked
    BY <1>1, <1>4 DEF Asked
  <2>2. QED
    BY <1>1, <2>1, LeaksStay
<1>8. Mirrors'
  BY <1>1, <1>2, <1>3, <1>7 DEF Mirrors, Comparable, Alive
<1>9. QED
  BY <1>6, <1>8

\* A call for a task that has no session leaves the others.
LEMMA FinishUnknownTaskMirrors ==
    ASSUME Agreed, NEW t \in Tasks, FinishUnknownTask(t)
    PROVE  MirrorInv' /\ Mirrors'
<1> USE DEF Agreed
<1>1. /\ pc = "idle"
      /\ UNCHANGED <<session_kind, pc, task, todo, trace, strategy, begun, sessions,
                     file_map, recents, channel, longbuf, longbuf_fds, pending, child, served>>
  BY DEF FinishUnknownTask, callVars, mapVars, pipeVars
<1>2. Now' = Now /\ OnWay' = OnWay
  BY <1>1, NowStays DEF pipeVars
<1>3. Held' = Held
  BY <1>1 DEF Held
<1>4. MirrorInv'
  BY <1>1, <1>2 DEF MirrorInv, UseSockets, Direct
<1>5. Leaks' = Leaks
  <2>1. Asked' = Asked
    BY <1>1 DEF Asked
  <2>2. QED
    BY <1>1, <2>1, LeaksStay
<1>6. Mirrors'
  BY <1>1, <1>2, <1>3, <1>5 DEF Mirrors, Comparable, Alive
<1>7. QED
  BY <1>4, <1>6

\* The task is remembered once everything was sent for it.
LEMMA RememberTaskMirrors ==
    ASSUME Agreed, NEW t \in Tasks, RememberTask(t)
    PROVE  MirrorInv' /\ Mirrors'
<1> USE DEF Agreed
<1>1. /\ pc = "send" /\ todo = <<>> /\ pc' = "idle" /\ task' = {}
      /\ UNCHANGED <<session_kind, todo, trace, strategy, begun, sessions,
                     channel, longbuf, longbuf_fds, pending, child, served>>
  BY DEF RememberTask, taskVars, pipeVars
<1>2. Now' = Now /\ OnWay' = OnWay
  BY <1>1, NowStays DEF pipeVars
<1>3. Held' = Held
  BY <1>1 DEF Held
<1>4. MirrorInv'
  BY <1>1, <1>2 DEF MirrorInv, UseSockets, Direct
<1>5. Leaks' = Leaks
  <2>1. Asked' = Asked
    BY <1>1 DEF Asked
  <2>2. QED
    BY <1>1, <2>1, LeaksStay
<1>6. Mirrors'
  BY <1>1, <1>2, <1>3, <1>5 DEF Mirrors, Comparable, Alive
<1>7. QED
  BY <1>4, <1>6

\* The session is still held when the manager has given it up.
LEMMA FinishTaskMirrors ==
    ASSUME Agreed, NEW t \in Tasks, FinishTask(t)
    PROVE  MirrorInv' /\ Mirrors'
<1> USE DEF Agreed
<1>1. /\ pc = "idle" /\ t \in file_map /\ sessions' = sessions \ {t}
      /\ pc' = "finish" /\ task' = {t}
      /\ UNCHANGED <<session_kind, todo, trace, strategy, begun,
                     channel, longbuf, longbuf_fds, pending, child, served>>
  BY DEF FinishTask, taskVars, pipeVars
<1>2. Now' = Now /\ OnWay' = OnWay
  BY <1>1, NowStays DEF pipeVars
<1>3. Held = sessions /\ t \in sessions
  BY <1>1 DEF Held, Parts, CallInv
<1>4. Held' = Held
  BY <1>1, <1>3 DEF Held
<1>5. MirrorInv'
  BY <1>1, <1>2 DEF MirrorInv, UseSockets, Direct
<1>6. Leaks' = Leaks
  <2>1. Asked' = Asked
    BY <1>1 DEF Asked
  <2>2. QED
    BY <1>1, <2>1, LeaksStay
<1>7. Mirrors'
  BY <1>1, <1>2, <1>4, <1>6 DEF Mirrors, Comparable, Alive
<1>8. QED
  BY <1>5, <1>7

\* The session comes with what is sent next, and nothing is promised before.
LEMMA OpenTraceFdMirrors ==
    ASSUME Agreed, NEW t \in Tasks, OpenTraceFd(t)
    PROVE  MirrorInv' /\ Mirrors'
<1> USE DEF Agreed
<1>1. /\ pc = "open" /\ UseSockets /\ task = {t}
      /\ UNCHANGED <<session_kind, todo, strategy, begun, sessions,
                     channel, longbuf, longbuf_fds, pending, child, served>>
  BY DEF OpenTraceFd, mapVars, pipeVars
<1>2. Now' = Now /\ OnWay' = OnWay
  BY <1>1, NowStays DEF pipeVars
<1>3. /\ Held = sessions /\ t \notin sessions /\ t \in begun /\ sessions \subseteq Tasks
      /\ DOMAIN trace = Tasks /\ trace[t] \notin TraceFiles
  BY <1>1, PrefetchAssumption DEF Held, MirrorInv, Parts, CallInv, TypeCalls
<1>4. UseSockets' /\ UseSockets /\ Direct' = Direct
  BY <1>1 DEF UseSockets, Direct
<1>5. CASE pc' = "idle" /\ task' = {} /\ UNCHANGED trace
  <2>1. Held' = Held
    BY <1>1, <1>3, <1>5 DEF Held
  <2>2. MirrorInv'
    BY <1>1, <1>2, <1>4, <1>5 DEF MirrorInv
  <2>3. Leaks' = Leaks
    <3>1. Asked' = Asked
      BY <1>1, <1>5 DEF Asked
    <3>2. QED
      BY <1>1, <1>5, <3>1, LeaksStay
  <2>4. Mirrors'
    BY <1>1, <1>2, <1>5, <2>1, <2>3 DEF Mirrors, Comparable, Alive
  <2>5. QED
    BY <2>2, <2>4
<1>6. ASSUME NEW file \in OnDisk,
             trace' = [trace EXCEPT ![t] = file], pc' = "create", task' = task
      PROVE  MirrorInv' /\ Mirrors'
  <2>1. Held' = Held
    BY <1>1, <1>3, <1>6 DEF Held
  <2>2. WantedBy(Held, session_kind, trace') = WantedBy(Held, session_kind, trace)
    <3>1. Held \in SUBSET DOMAIN trace /\ t \notin Held
      BY <1>3
    <3>2. WantedBy(Held, session_kind, [trace EXCEPT ![t] = file])
            = WantedBy(Held, session_kind, trace)
      BY <3>1, WantedSame
    <3>3. QED
      BY <1>6, <3>2
  <2>3. \A u \in Tasks : u # t => trace'[u] = trace[u]
    BY <1>3, <1>6
  <2>4. MirrorInv'
    BY <1>1, <1>2, <1>3, <1>4, <1>6, <2>3 DEF MirrorInv
  <2>5. Leaks' = Leaks
    <3>1. Asked' = Asked
      BY <1>1, <1>3, <1>6, <2>3 DEF Asked
    <3>2. \A u \in Asked : trace'[u] = trace[u]
      BY <1>3, <2>3 DEF Asked
    <3>3. QED
      BY <1>1, <3>1, <3>2, LeaksStay
  <2>6. Mirrors'
    BY <1>1, <1>2, <1>6, <2>1, <2>2, <2>5 DEF Mirrors, Comparable, Alive
  <2>7. QED
    BY <2>4, <2>6
<1>7. QED
  BY <1>1, <1>5, <1>6 DEF OpenTraceFd

\* The commands that are to be sent make of the new session what is promised.
LEMMA OpenTraceFileMirrors ==
    ASSUME Agreed, NEW t \in Tasks, OpenTraceFile(t)
    PROVE  MirrorInv' /\ Mirrors'
<1> USE DEF Agreed
<1>1. /\ pc = "open" /\ ~UseSockets /\ task = {t}
      /\ UNCHANGED <<session_kind, begun, finished, sessions, file_map, recents, channel,
                     longbuf, longbuf_fds, pending, child, served>>
  BY DEF OpenTraceFile, mapVars, pipeVars
<1>2. Now' = Now /\ OnWay' = OnWay
  BY <1>1, NowStays DEF pipeVars
<1>3. /\ Held = sessions /\ t \in sessions /\ t \in begun /\ todo = <<>>
      /\ trace[t] = Missing /\ sessions \subseteq Tasks
      /\ DOMAIN trace = Tasks /\ DOMAIN strategy = Tasks
  BY <1>1 DEF Held, MirrorInv, Parts, CallInv, TypeCalls
<1>4. ~UseSockets' /\ Direct' = Direct
  BY <1>1 DEF UseSockets, Direct
<1>5. CASE pc' = "idle" /\ task' = {} /\ UNCHANGED <<todo, trace, strategy>>
  <2>1. Held' = Held
    BY <1>1, <1>3, <1>5 DEF Held
  <2>2. MirrorInv'
    BY <1>1, <1>2, <1>4, <1>5 DEF MirrorInv
  <2>3. Leaks' = Leaks
    <3>1. Asked' = Asked
      BY <1>1, <1>5 DEF Asked
    <3>2. QED
      BY <1>1, <1>5, <3>1, LeaksStay
  <2>4. Mirrors'
    BY <1>1, <1>2, <1>5, <2>1, <2>3 DEF Mirrors, Comparable, Alive
  <2>5. QED
    BY <2>2, <2>4
<1>6. ASSUME NEW file \in TraceFiles, NEW kind \in Strategies,
             /\ trace' = [trace EXCEPT ![t] = file]
             /\ strategy' = [strategy EXCEPT ![t] = kind]
             /\ todo' = Prefetching(t, file, kind) \o <<Command("kDumpSession", t)>>
             /\ pc' = "send" /\ task' = task
      PROVE  MirrorInv' /\ Mirrors'
  <2> DEFINE w == Prefetching(t, file, kind)
             d == Command("kDumpSession", t)
             old == WantedBy(Held, session_kind, trace)
             new == WantedBy(Held, session_kind, trace')
             left == Leaves(Leaks, t, session_kind, file)
  <2>1. Held' = Held
    BY <1>1, <1>3, <1>6 DEF Held
  <2>2. \A u \in Tasks : u # t => trace'[u] = trace[u]
    BY <1>3, <1>6
  <2>3. MirrorInv'
    BY <1>1, <1>2, <1>3, <1>4, <1>6, <2>2 DEF MirrorInv
  <2>c. Leaks' = left
    <3>1. Asked' = Asked \cup {t}
      BY <1>1, <1>3, <1>6, <2>2 DEF Asked
    <3>2. \A u \in Asked : trace'[u] = trace[u]
      BY <1>3, <2>2, PrefetchAssumption DEF Asked
    <3>3. trace'[t] = file
      BY <1>3, <1>6
    <3>4. QED
      BY <1>1, <3>1, <3>2, <3>3, LeaksOne
  <2>4. SUFFICES ASSUME Comparable
                 PROVE  AfterCommands(session_kind, Now, todo') = Holding(new, strategy', left)
    BY <1>1, <1>2, <1>6, <2>1, <2>3, <2>c DEF Mirrors, Comparable, Alive
  <2>5. Now = Holding(old, strategy, Leaks)
    BY <1>3, <2>4, FoldShort DEF Mirrors
  <2>6. IsHeld(old) /\ DOMAIN old = Held /\ old[t] = NewSession
    <3>1. Missing \notin TraceFiles
      BY PrefetchAssumption
    <3>2. old[t] = NewSession
      BY <1>3, <3>1 DEF WantedBy, Wanted
    <3>3. QED
      BY <3>2, WantedHeld
  <2>7. strategy'[t] = kind /\ \A u \in Tasks : u # t => strategy'[u] = strategy[u]
    BY <1>3, <1>6
  <2>8. new = [old EXCEPT ![t] = Wanted(session_kind, file)]
    <3>1. Held \in SUBSET DOMAIN trace /\ t \in Held
      BY <1>3
    <3>2. [WantedBy(Held, session_kind, trace) EXCEPT ![t] = Wanted(session_kind, file)]
            = WantedBy(Held, session_kind, [trace EXCEPT ![t] = file])
      BY <3>1, WantedOther
    <3>3. QED
      BY <1>6, <3>2
  <2>9. session_kind \in {"kInProcessDirect", "kOutOfProcessIpc"}
    BY <1>1, PrefetchAssumption DEF UseSockets, SessionKinds, Parts, TypeCalls
  <2>10. w = Prefetching(t, file, strategy'[t]) /\ todo' = w \o <<d>>
    BY <1>6, <2>7
  <2>11. \E S : w \in Seq(S) /\ <<d>> \in Seq(S)
    <3> DEFINE R == Range(w)
    <3>1. w \in Seq(R)
      BY PrefetchingCalls
    <3> HIDE DEF w, d, R
    <3>2. w \in Seq(R \cup {d}) /\ <<d>> \in Seq(R \cup {d})
      BY <3>1
    <3>3. QED
      BY <3>2
  <2> HIDE DEF w, old, new
  <2>12. Holding(old, strategy, Leaks) = Holding(old, strategy', Leaks)
    <3>1. old[t].entries = {}
      BY <2>6 DEF NewSession
    <3>2. \A u \in DOMAIN old : old[u].entries = {} \/ strategy[u] = strategy'[u]
      BY <1>3, <2>6, <2>7, <3>1
    <3>3. QED
      BY <3>2, HoldingKinds
  <2>13. AfterCommands(session_kind, Holding(old, strategy', Leaks), w)
           = Holding([old EXCEPT ![t] = Wanted(session_kind, file)], strategy', left)
    <3> DEFINE kinds == strategy'
    <3>1. w = Prefetching(t, file, kinds[t])
      BY <2>10
    <3> HIDE DEF kinds
    <3>2. IsHeld(old) /\ t \in DOMAIN old /\ old[t] = NewSession
      BY <1>3, <2>6
    <3>3. AfterCommands(session_kind, Holding(old, kinds, Leaks), Prefetching(t, file, kinds[t]))
            = Holding([old EXCEPT ![t] = Wanted(session_kind, file)], kinds, left)
      BY <2>9, <3>2, TaskPrefetched
    <3>4. QED
      BY <3>1, <3>3 DEF kinds
  <2>14. AfterCommands(session_kind, Now, w) = Holding(new, strategy', left)
    BY <2>5, <2>8, <2>12, <2>13
  <2> HIDE DEF d
  <2>15. AfterCommands(session_kind, Now, w \o <<d>>)
           = AfterCommands(session_kind, Holding(new, strategy', left), <<d>>)
    <3> DEFINE y == <<d>>
    <3>1. PICK S : w \in Seq(S) /\ y \in Seq(S)
      BY <2>11
    <3> HIDE DEF y
    <3>2. AfterCommands(session_kind, Now, w \o y)
            = AfterCommands(session_kind, AfterCommands(session_kind, Now, w), y)
      BY <3>1, FoldConcat
    <3>3. QED
      BY <2>14, <3>2 DEF y
  <2>16. AfterCommands(session_kind, Holding(new, strategy', left), <<d>>)
           = Deliver(session_kind, Holding(new, strategy', left), d)
    BY FoldShort
  <2>17. Deliver(session_kind, Holding(new, strategy', left), d) = Holding(new, strategy', left)
    BY DumpDelivered DEF d
  <2>18. QED
    BY <2>10, <2>15, <2>16, <2>17
<1>7. QED
  BY <1>1, <1>5, <1>6 DEF OpenTraceFile

\* From here on nothing is promised; what the call had not sent leaks nothing, and
\* nor does the end of the sessions.
LEMMA EndingMirrors ==
    ASSUME Agreed, DestroyReadAhead \/ ReturnFromMain \/ Die
    PROVE  MirrorInv' /\ Mirrors' /\ LeakBound'
<1> USE DEF Agreed
<1>1. /\ pc' \in {"exit", "gone", "dead"}
      /\ UNCHANGED <<session_kind, trace, strategy, begun, channel, longbuf, longbuf_fds,
                     pending, child>>
  BY DEF DestroyReadAhead, ReturnFromMain, Die, taskVars, pipeVars
<1>2. OnWay' = OnWay
  BY <1>1 DEF OnWay, Stream
<1>3. MirrorInv'
  BY <1>1, <1>2 DEF MirrorInv, UseSockets, Direct
<1>4. Mirrors'
  BY <1>1 DEF Mirrors, Comparable, Alive
<1>5. Leaks \subseteq Leaks'
  <2>1. Asked \subseteq Asked'
    BY <1>1 DEF Asked
  <2>2. QED
    BY <1>1, <2>1, LeaksMore
<1>6. Tidy(Now) /\ Tidy(served) /\ Sequences /\ OnWay \in Seq(Commands) /\ todo \in Seq(Commands)
  <2>1. Tidy(served) /\ Sequences
    BY DEF Parts, PipeInv, Service
  <2>2. OnWay \in Seq(Commands) /\ todo \in Seq(Commands)
    BY <2>1, OnWaySequence DEF Sequences
  <2>3. QED
    BY <2>1, <2>2, LeaksGrow DEF Now
<1>7. Now.leaked \subseteq AfterCommands(session_kind, Now, todo).leaked
  BY <1>6, LeaksGrow
<1>8. SUFFICES ASSUME child \notin {"exited", "killed"}
               PROVE  AfterCommands(session_kind, Now', todo').leaked \subseteq Leaks'
  BY <1>1, <1>3, <1>4 DEF LeakBound
<1>9. Now.leaked \subseteq Leaks'
  BY <1>5, <1>7, <1>8 DEF LeakBound
<1>10. CASE DestroyReadAhead
  <2>1. Now' = Now /\ pc' = "exit"
    BY <1>1, <1>2, <1>10 DEF DestroyReadAhead, Now
  <2>2. Parts'
    <3>1. [Next]_vars
      BY <1>10 DEF Next, Launch
    <3>2. QED
      BY <3>1, NextParts
  <2>3. /\ todo' \in Seq(Commands)
        /\ \A i \in DOMAIN todo' : todo'[i].choice \in {"kExit", "kDestroySession"}
    BY <2>1, <2>2 DEF Parts, Sequences, TodoInv
  <2> DEFINE w == todo'
  <2> HIDE DEF w
  <2>4. AfterCommands(session_kind, Now, w).leaked = Now.leaked
    BY <1>6, <2>3, LeaksGrow DEF w
  <2>5. QED
    BY <1>9, <2>1, <2>4 DEF w
<1>11. CASE ReturnFromMain
  <2>1. Now' = Now /\ todo' = <<>>
    BY <1>1, <1>2, <1>11 DEF ReturnFromMain, Now
  <2>2. QED
    BY <1>9, <2>1, FoldShort
<1>12. CASE Die
  <2>1. todo' = <<>> /\ served' = IF Direct THEN NoService ELSE served
    BY <1>12 DEF Die
  <2>2. CASE Direct
    <3>1. OnWay' = <<>> /\ served' = NoService
      BY <1>2, <1>6, <2>1, <2>2, NothingOnWay
    <3>2. Now' = NoService
      BY <3>1, FoldShort DEF Now
    <3>3. NoService.leaked = {}
      BY DEF NoService
    <3>4. QED
      BY <2>1, <3>2, <3>3, FoldShort
  <2>3. CASE ~Direct
    <3>1. Now' = Now
      BY <1>1, <1>2, <2>1, <2>3 DEF Now
    <3>2. QED
      BY <1>9, <2>1, <3>1, FoldShort
  <2>4. QED
    BY <2>2, <2>3
<1>13. QED
  BY <1>10, <1>11, <1>12

-----------------------------------------------------------------------------
(* The sessions mirror the tasks: the steps that send a command *)

\* The new session has nothing, as its task has opened no trace file.
LEMMA CreateTaskSessionMirrors ==
    ASSUME Agreed, NEW t \in Tasks, CreateTaskSession(t)
    PROVE  MirrorInv' /\ Mirrors'
<1> USE DEF Agreed
<1> DEFINE c == Command("kCreateSession", t)
           old == WantedBy(Held, session_kind, trace)
           new == WantedBy(Held', session_kind, trace)
<1>1. /\ pc = "create" /\ ~UseSockets /\ task = {t} /\ SendCommand(c)
      /\ sessions' = sessions \cup {t} /\ pc' = "open"
      /\ UNCHANGED <<session_kind, task, todo, trace, strategy, begun,
                     longbuf, longbuf_fds, pending, child>>
  BY DEF CreateTaskSession, taskVars
<1>2. c \in Commands
  BY DEF Command, Commands, OfSessions
<1>3. /\ todo = <<>> /\ trace[t] = Missing /\ Held = sessions /\ Held' = sessions \cup {t}
      /\ t \notin sessions
  BY <1>1 DEF MirrorInv, Held
<1>4. ~UseSockets' /\ Direct' = Direct
  BY <1>1 DEF UseSockets, Direct
<1>5. Insert(old, t, NewSession) = new /\ IsHeld(old) /\ DOMAIN old = Held
  <2>1. Wanted(session_kind, trace[t]) = NewSession
    BY <1>3, PrefetchAssumption DEF Wanted
  <2>2. Insert(old, t, Wanted(session_kind, trace[t]))
           = WantedBy(Held \cup {t}, session_kind, trace)
    BY WantedMore
  <2>3. QED
    BY <1>3, <2>1, <2>2, WantedHeld
<1>a. Leaks' = Leaks
  <2>1. Asked' = Asked
    BY <1>1, <1>3, PrefetchAssumption DEF Asked
  <2>2. QED
    BY <1>1, <2>1, LeaksStay
<1>6. child \in {"exited", "killed"} => ~Comparable'
  BY <1>1 DEF Comparable
<1>7. child \in {"exited", "killed"} => MirrorInv'
  <2>1. child \in {"exited", "killed"} => ~Direct /\ child # "running"
    BY DEF Parts, TypeCalls
  <2>2. QED
    BY <1>1, <1>3, <1>4, <2>1 DEF MirrorInv
<1>8. ASSUME child \notin {"exited", "killed"}
      PROVE  MirrorInv' /\ Mirrors'
  <2>1. /\ Now' = Deliver(session_kind, Now, c)
        /\ child = "running" => \A j \in DOMAIN OnWay' : Fits(OnWay'[j])
        /\ Direct => channel' = channel
    BY <1>1, <1>2, <1>8, SentArrives
  <2>2. MirrorInv'
    BY <1>1, <1>3, <1>4, <2>1 DEF MirrorInv
  <2>3. Now = Holding(old, strategy, Leaks)
    BY <1>1, <1>3, <1>8, FoldShort DEF Mirrors, Comparable, Alive
  <2> HIDE DEF old, new
  <2>4. Deliver(session_kind, Holding(old, strategy, Leaks), Command("kCreateSession", t))
          = Holding(Insert(old, t, NewSession), strategy, Leaks)
    <3>1. IsHeld(old) /\ t \notin DOMAIN old
      BY <1>3, <1>5
    <3>2. QED
      BY <3>1, CreateDelivered
  <2>5. Now' = Holding(new, strategy, Leaks)
    BY <1>5, <2>1, <2>3, <2>4 DEF Without
  <2>6. AfterCommands(session_kind, Now', <<>>) = Now'
    BY FoldShort
  <2>7. QED
    BY <1>1, <1>3, <1>a, <2>2, <2>5, <2>6 DEF Mirrors, new
<1>9. QED
  BY <1>6, <1>7, <1>8 DEF Mirrors

\* The new session comes with all that its trace file asks for.
LEMMA CreateFdSessionMirrors ==
    ASSUME Agreed, NEW t \in Tasks, CreateFdSession(t)
    PROVE  MirrorInv' /\ Mirrors'
<1> USE DEF Agreed
<1> DEFINE file == trace[t]
           c == [choice |-> "kCreateFdSession", session_id |-> t, fd |-> file]
           d == Command("kDumpSession", t)
           old == WantedBy(Held, session_kind, trace)
           new == WantedBy(Held', session_kind, trace)
           left == Leaves(Leaks, t, "kOutOfProcessSocket", file)
<1>1. /\ pc = "create" /\ UseSockets /\ task = {t} /\ SendCommand(c)
      /\ sessions' = sessions \cup {t} /\ pc' = "send" /\ todo' = <<d>>
      /\ UNCHANGED <<session_kind, task, trace, strategy, begun,
                     longbuf, longbuf_fds, pending, child>>
  BY DEF CreateFdSession, taskVars
<1>2. file \in OnDisk
  BY <1>1 DEF Parts, CallInv
<1>3. c \in Commands
  BY <1>2 DEF Commands, OfDescriptors
<1>4. /\ todo = <<>> /\ Held = sessions /\ Held' = sessions \cup {t} /\ t \notin sessions
      /\ session_kind = "kOutOfProcessSocket" /\ strategy[t] = "kFadvise"
  BY <1>1 DEF MirrorInv, Held, UseSockets
<1>5. UseSockets' = UseSockets /\ Direct' = Direct
  BY <1>1 DEF UseSockets, Direct
<1>6. IsHeld(old) /\ DOMAIN old = Held
      /\ Insert(old, t, Wanted("kOutOfProcessSocket", file)) = new
  <2>1. Insert(old, t, Wanted(session_kind, trace[t]))
           = WantedBy(Held \cup {t}, session_kind, trace)
    BY WantedMore
  <2>2. QED
    BY <1>4, <2>1, WantedHeld
<1>a. Leaks' = left
  <2>1. CASE file \in TraceFiles
    <3>1. Asked' = Asked \cup {t} /\ trace'[t] = file
      BY <1>1, <2>1 DEF Asked, Parts, TypeCalls
    <3>2. QED
      BY <1>1, <1>4, <2>1, <3>1, LeaksOne
  <2>2. CASE file \notin TraceFiles
    <3>1. Asked' = Asked
      BY <1>1, <2>2 DEF Asked
    <3>2. Leaks' = Leaks
      BY <1>1, <3>1, LeaksStay
    <3>3. QED
      BY <2>2, <3>2 DEF Leaves
  <2>3. QED
    BY <2>1, <2>2
<1>7. child \in {"exited", "killed"} => ~Comparable'
  BY <1>1 DEF Comparable
<1>8. child \in {"exited", "killed"} => MirrorInv'
  <2>1. child \in {"exited", "killed"} => ~Direct /\ child # "running"
    BY DEF Parts, TypeCalls
  <2>2. QED
    BY <1>1, <1>4, <1>5, <2>1 DEF MirrorInv
<1> HIDE DEF file
<1>9. ASSUME child \notin {"exited", "killed"}
      PROVE  MirrorInv' /\ Mirrors'
  <2>1. /\ Now' = Deliver(session_kind, Now, c)
        /\ child = "running" => \A j \in DOMAIN OnWay' : Fits(OnWay'[j])
        /\ Direct => channel' = channel
    <3> HIDE DEF c
    <3>1. QED
      BY <1>1, <1>3, <1>9, SentArrives
  <2>2. MirrorInv'
    BY <1>1, <1>4, <1>5, <2>1 DEF MirrorInv
  <2>3. Now = Holding(old, strategy, Leaks)
    BY <1>1, <1>4, <1>9, FoldShort DEF Mirrors, Comparable, Alive
  <2> HIDE DEF old, new
  <2>4. Deliver(session_kind, Holding(old, strategy, Leaks),
                [choice |-> "kCreateFdSession", session_id |-> t, fd |-> file])
          = Holding(Insert(old, t, Wanted("kOutOfProcessSocket", file)), strategy, left)
    <3>1. IsHeld(old) /\ t \notin DOMAIN old /\ strategy[t] = "kFadvise"
      BY <1>4, <1>6
    <3>2. QED
      BY <1>2, <3>1, FdSessionCommand
  <2>5. Now' = Holding(new, strategy, left)
    BY <1>6, <2>1, <2>3, <2>4
  <2>6. AfterCommands(session_kind, Now', <<d>>) = Now'
    BY FoldShort, DumpDelivered
  <2>7. QED
    BY <1>1, <1>a, <2>2, <2>5, <2>6 DEF Mirrors, new
<1>10. QED
  BY <1>7, <1>8, <1>9 DEF Mirrors

\* What is sent next is what would have been carried out next.
LEMMA SendNextMirrors ==
    ASSUME Agreed, SendNext
    PROVE  MirrorInv' /\ Mirrors' /\ LeakBound'
<1> USE DEF Agreed
<1> DEFINE c == Head(todo)
<1>1. /\ pc \in {"send", "exit"} /\ todo # <<>> /\ SendCommand(c) /\ todo' = Tail(todo)
      /\ UNCHANGED <<session_kind, pc, task, trace, strategy, begun, sessions,
                     longbuf, longbuf_fds, pending, child>>
  BY DEF SendNext, taskVars, mapVars
<1>2. todo \in Seq(Commands) /\ c \in Commands
  BY <1>1 DEF Parts, Sequences
<1>3. UseSockets' = UseSockets /\ Direct' = Direct /\ Held' = Held
  BY <1>1 DEF UseSockets, Direct, Held
<1>a. Leaks' = Leaks
  <2>1. Asked' = Asked
    BY <1>1 DEF Asked
  <2>2. QED
    BY <1>1, <2>1, LeaksStay
<1>4. child \in {"exited", "killed"} => ~Comparable'
  BY <1>1 DEF Comparable
<1>5. child \in {"exited", "killed"} => MirrorInv'
  <2>1. child \in {"exited", "killed"} => ~Direct /\ child # "running"
    BY DEF Parts, TypeCalls
  <2>2. QED
    BY <1>1, <1>3, <2>1 DEF MirrorInv
<1>6. ASSUME child \notin {"exited", "killed"}
      PROVE  MirrorInv' /\ Mirrors' /\ LeakBound'
  <2> HIDE DEF c
  <2>1. /\ Now' = Deliver(session_kind, Now, c)
        /\ child = "running" => \A j \in DOMAIN OnWay' : Fits(OnWay'[j])
        /\ Direct => channel' = channel
    BY <1>1, <1>2, <1>6, SentArrives
  <2>2. MirrorInv'
    BY <1>1, <1>3, <2>1 DEF MirrorInv
  <2>3. AfterCommands(session_kind, Now, todo)
          = AfterCommands(session_kind, Deliver(session_kind, Now, Head(todo)), Tail(todo))
    BY <1>1, <1>2, FoldEnds
  <2>4. AfterCommands(session_kind, Now, todo) = AfterCommands(session_kind, Now', todo')
    BY <1>1, <2>1, <2>3 DEF c
  <2>5. QED
    BY <1>1, <1>3, <1>a, <2>2, <2>4 DEF Mirrors, Comparable, Alive, LeakBound
<1>7. QED
  BY <1>1, <1>4, <1>5, <1>6 DEF Mirrors, LeakBound

\* The session goes when its task does.
LEMMA ReleaseTaskMirrors ==
    ASSUME Agreed, NEW t \in Tasks, ReleaseTask(t)
    PROVE  MirrorInv' /\ Mirrors'
<1> USE DEF Agreed
<1> DEFINE c == Command("kDestroySession", t)
           old == WantedBy(Held, session_kind, trace)
           new == WantedBy(Held', session_kind, trace)
<1>1. /\ pc = "finish" /\ task = {t} /\ SendCommand(c) /\ pc' = "idle" /\ task' = {}
      /\ UNCHANGED <<session_kind, todo, trace, strategy, begun, sessions,
                     longbuf, longbuf_fds, pending, child>>
  BY DEF ReleaseTask
<1>2. c \in Commands
  BY DEF Command, Commands, OfSessions
<1>3. /\ todo = <<>> /\ Held = sessions \cup {t} /\ Held' = sessions /\ t \notin sessions
  BY <1>1 DEF MirrorInv, Held, Parts, CallInv
<1>4. UseSockets' = UseSockets /\ Direct' = Direct
  BY <1>1 DEF UseSockets, Direct
<1>5. /\ IsHeld(old) /\ DOMAIN old = Held
      /\ [u \in DOMAIN old \ {t} |-> old[u]] = new
  <2>1. [u \in DOMAIN old \ {t} |-> old[u]] = WantedBy(Held \ {t}, session_kind, trace)
    BY DEF WantedBy
  <2>2. Held \ {t} = Held'
    BY <1>3
  <2>3. QED
    BY <2>1, <2>2, WantedHeld
<1>a. Leaks' = Leaks
  <2>1. Asked' = Asked
    BY <1>1 DEF Asked
  <2>2. QED
    BY <1>1, <2>1, LeaksStay
<1>6. child \in {"exited", "killed"} => ~Comparable'
  BY <1>1 DEF Comparable
<1>7. child \in {"exited", "killed"} => MirrorInv'
  <2>1. child \in {"exited", "killed"} => ~Direct /\ child # "running"
    BY DEF Parts, TypeCalls
  <2>2. QED
    BY <1>1, <1>3, <1>4, <2>1 DEF MirrorInv
<1>8. ASSUME child \notin {"exited", "killed"}
      PROVE  MirrorInv' /\ Mirrors'
  <2>1. /\ Now' = Deliver(session_kind, Now, c)
        /\ child = "running" => \A j \in DOMAIN OnWay' : Fits(OnWay'[j])
        /\ Direct => channel' = channel
    BY <1>1, <1>2, <1>8, SentArrives
  <2>2. MirrorInv'
    BY <1>1, <1>3, <1>4, <2>1 DEF MirrorInv
  <2>3. Now = Holding(old, strategy, Leaks)
    BY <1>1, <1>3, <1>8, FoldShort DEF Mirrors, Comparable, Alive
  <2> HIDE DEF old, new
  <2>4. Deliver(session_kind, Holding(old, strategy, Leaks), Command("kDestroySession", t))
          = Holding(Without(old, t), strategy, Leaks)
    <3>1. IsHeld(old) /\ t \in DOMAIN old
      BY <1>3, <1>5
    <3>2. QED
      BY <3>1, DestroyDelivered
  <2>5. Now' = Holding(new, strategy, Leaks)
    BY <1>5, <2>1, <2>3, <2>4 DEF Without
  <2>6. AfterCommands(session_kind, Now', <<>>) = Now'
    BY FoldShort
  <2>7. QED
    BY <1>1, <1>3, <1>a, <2>2, <2>5, <2>6 DEF Mirrors, new
<1>9. QED
  BY <1>6, <1>7, <1>8 DEF Mirrors

-----------------------------------------------------------------------------
(* The sessions mirror the tasks: the steps of iorap.prefetcherd *)

\* A read loses no command, and swaps none.
LEMMA ReadCommandsMirrors ==
    ASSUME Agreed, ReadCommands
    PROVE  MirrorInv' /\ Mirrors' /\ LeakBound'
<1> USE DEF Agreed
<1>1. /\ child = "running"
      /\ UNCHANGED <<session_kind, pc, task, todo, trace, strategy, begun, sessions, child, served>>
  BY DEF ReadCommands, callVars, taskVars, mapVars
<1>2. OnWay' = OnWay
  BY ReadParses DEF Parts, PipeInv
<1>3. ~Direct
  BY <1>1 DEF Parts, TypeCalls
<1>4. Held' = Held /\ Now' = Now
  BY <1>1, <1>2 DEF Held, Now
<1>5. MirrorInv'
  BY <1>1, <1>2, <1>3 DEF MirrorInv, UseSockets, Direct
<1>a. Leaks' = Leaks
  <2>1. Asked' = Asked
    BY <1>1 DEF Asked
  <2>2. QED
    BY <1>1, <2>1, LeaksStay
<1>6. Mirrors' /\ LeakBound'
  BY <1>1, <1>4, <1>a DEF Mirrors, Comparable, Alive, LeakBound
<1>7. QED
  BY <1>5, <1>6

\* What is carried out is the first thing that was on its way.
LEMMA ReceiveCommandMirrors ==
    ASSUME Agreed, ReceiveCommand
    PROVE  MirrorInv' /\ Mirrors' /\ LeakBound'
<1> USE DEF Agreed
<1>1. /\ child = "running" /\ pending # <<>> /\ served' = Apply(served, Head(pending))
      /\ pending' = Tail(pending)
      /\ UNCHANGED <<session_kind, pc, task, todo, trace, strategy, begun, sessions,
                     channel, longbuf, longbuf_fds, child>>
  BY DEF ReceiveCommand, callVars, taskVars, mapVars
<1>2. /\ OnWay \in Seq(Commands) /\ OnWay # <<>> /\ Head(OnWay) = Head(pending)
      /\ Tail(OnWay) = Tail(pending) \o Whole(Stream)
  BY <1>1, ReceiveShifts DEF Parts
<1>3. OnWay' = Tail(OnWay)
  BY <1>1, <1>2 DEF OnWay, Stream
<1>4. ~Direct
  BY <1>1 DEF Parts, TypeCalls
<1>5. /\ Head(OnWay) = OnWay[1] /\ 1 \in DOMAIN OnWay
      /\ \A i \in DOMAIN OnWay' : i + 1 \in DOMAIN OnWay /\ OnWay'[i] = OnWay[i + 1]
  BY <1>2, <1>3, LeftPlaces
<1>6. Fits(Head(OnWay)) /\ \A j \in DOMAIN OnWay' : Fits(OnWay'[j])
  BY <1>1, <1>5 DEF MirrorInv
<1>7. Deliver(session_kind, served, Head(OnWay)) = served'
  BY <1>1, <1>2, <1>6 DEF Deliver
<1>8. Now = AfterCommands(session_kind, Deliver(session_kind, served, Head(OnWay)), Tail(OnWay))
  BY <1>2, FoldEnds DEF Now
<1>9. Held' = Held /\ Now' = Now
  BY <1>1, <1>3, <1>7, <1>8 DEF Held, Now
<1>10. MirrorInv'
  BY <1>1, <1>4, <1>6 DEF MirrorInv, UseSockets, Direct
<1>a. Leaks' = Leaks
  <2>1. Asked' = Asked
    BY <1>1 DEF Asked
  <2>2. QED
    BY <1>1, <2>1, LeaksStay
<1>11. Mirrors' /\ LeakBound'
  BY <1>1, <1>9, <1>a DEF Mirrors, Comparable, Alive, LeakBound
<1>12. QED
  BY <1>10, <1>11

\* Nothing is compared with a child that has ended.
LEMMA EndMirrors ==
    ASSUME Agreed, Exit \/ Kill
    PROVE  MirrorInv' /\ Mirrors' /\ LeakBound'
<1> USE DEF Agreed
<1>1. /\ child = "running" /\ child' \in {"exited", "killed"}
      /\ UNCHANGED <<session_kind, pc, task, todo, trace, strategy, begun, sessions>>
  BY DEF Exit, Kill, callVars, taskVars, mapVars
<1>2. ~Direct /\ child' # "running"
  BY <1>1 DEF Parts, TypeCalls
<1>3. MirrorInv'
  BY <1>1, <1>2 DEF MirrorInv, UseSockets, Direct
<1>4. Mirrors' /\ LeakBound'
  BY <1>1 DEF Mirrors, Comparable, LeakBound
<1>5. QED
  BY <1>3, <1>4

\* Nothing changes.
LEMMA StutterMirrors ==
    ASSUME Agreed, UNCHANGED vars
    PROVE  MirrorInv' /\ Mirrors' /\ LeakBound'
<1> USE DEF Agreed
<1>1. UNCHANGED <<session_kind, pc, task, todo, trace, strategy, begun, sessions, channel,
                  longbuf, longbuf_fds, pending, child, served>>
  BY DEF vars, callVars, taskVars, mapVars, pipeVars
<1>2. OnWay' = OnWay
  BY <1>1 DEF OnWay, Stream
<1>3. Held' = Held /\ Now' = Now
  BY <1>1, <1>2 DEF Held, Now
<1>4. MirrorInv'
  BY <1>1, <1>2 DEF MirrorInv, UseSockets, Direct
<1>a. Leaks' = Leaks
  <2>1. Asked' = Asked
    BY <1>1 DEF Asked
  <2>2. QED
    BY <1>1, <2>1, LeaksStay
<1>5. Mirrors' /\ LeakBound'
  BY <1>1, <1>3, <1>a DEF Mirrors, Comparable, Alive, LeakBound
<1>6. QED
  BY <1>4, <1>5

\* At first there is nothing, and nothing is promised.
LEMMA InitMirrors ==
    ASSUME Init, Parts
    PROVE  Agreed
<1>1. /\ task = {} /\ todo = <<>> /\ pending = <<>> /\ longbuf = <<>> /\ channel = <<>>
      /\ longbuf_fds = <<>> /\ served = NoService /\ sessions = {} /\ begun = {} /\ pc = "idle"
      /\ trace = [t \in Tasks |-> Missing] /\ strategy = [t \in Tasks |-> "kFadvise"]
  BY DEF Init
<1>2. OnWay = <<>>
  <2>1. Stream = <<>> /\ Stream \in Seq(Chunks) /\ Len(Stream) \div 2 = 0
    BY <1>1 DEF Stream
  <2>2. Whole(Stream) \in Seq(Commands) /\ Len(Whole(Stream)) = 0
    BY <2>1, WholeSequence
  <2> DEFINE W == Whole(Stream)
  <2> HIDE DEF W
  <2>3. W \in Seq(Commands) /\ Len(W) = 0 => W = <<>>
    OBVIOUS
  <2>4. QED
    BY <1>1, <2>2, <2>3 DEF W, OnWay
<1>3. MirrorInv
  BY <1>1, <1>2 DEF MirrorInv
<1>4. Held = {}
  BY <1>1 DEF Held
<1>5. Now = NoService /\ AfterCommands(session_kind, Now, todo) = NoService
  BY <1>1, <1>2, FoldShort DEF Now
<1>a. Leaks = {}
  <2>1. Asked = {}
    BY <1>1, PrefetchAssumption DEF Asked
  <2>2. QED
    BY <2>1 DEF Leaks
<1>6. Holding(WantedBy({}, session_kind, trace), strategy, {}) = NoService
  <2> DEFINE a == WantedBy({}, session_kind, trace)
  <2>1. a = <<>> /\ DOMAIN a = {}
    BY DEF WantedBy
  <2>2. UNION {{t} \X Opened(a[t]) : t \in DOMAIN a} = {}
        /\ UNION {{t} \X Mapped(a[t], strategy[t]) : t \in DOMAIN a} = {}
    BY <2>1
  <2> HIDE DEF a
  <2>3. Holding(a, strategy, {}) = NoService
    BY <2>1, <2>2 DEF Holding, NoService
  <2>4. QED
    BY <2>3 DEF a
<1>7. Mirrors
  BY <1>4, <1>5, <1>6, <1>a DEF Mirrors
<1>8. LeakBound /\ NoneServed
  BY <1>1, <1>5 DEF LeakBound, NoneServed, NoService
<1>9. QED
  BY <1>3, <1>7, <1>8 DEF Agreed

\* A process that has ended holds nothing.
LEMMA NoneServedStays ==
    ASSUME Parts, NoneServed, [Next]_vars
    PROVE  NoneServed'
<1>1. CASE child \in {"exited", "killed"}
  <2>1. ~Direct
    BY <1>1 DEF Parts, TypeCalls
  <2>2. ASSUME NEW c, SendCommand(c)
        PROVE  served' = served
    BY <2>1, <2>2 DEF SendCommand
  <2>3. ASSUME NEW t \in Tasks,
               \/ BeginTask(t) \/ CreateTaskSession(t) \/ OpenTraceFile(t)
               \/ OpenTraceFd(t) \/ CreateFdSession(t) \/ RememberTask(t)
               \/ FinishUnknownTask(t) \/ FinishTask(t) \/ ReleaseTask(t)
        PROVE  served' = served
    BY <2>2, <2>3 DEF BeginTask, CreateTaskSession, OpenTraceFile, OpenTraceFd, CreateFdSession,
       RememberTask, FinishUnknownTask, FinishTask, ReleaseTask
  <2>4. SendNext \/ DestroyReadAhead \/ ReturnFromMain \/ Die => served' = served
    BY <2>1, <2>2 DEF SendNext, DestroyReadAhead, ReturnFromMain, Die
  <2>5. ~Daemon
    BY <1>1 DEF Daemon, ReadCommands, ReceiveCommand, Exit, Kill
  <2>6. served' = served
    BY <2>3, <2>4, <2>5 DEF Next, Launch, vars
  <2>7. QED
    BY <1>1, <2>6 DEF NoneServed
<1>2. CASE child \notin {"exited", "killed"}
  <2>1. child' = child \/ served' = NoService
    BY DEF Next, Launch, Daemon, vars, BeginTask, CreateTaskSession, OpenTraceFile, OpenTraceFd,
       CreateFdSession, RememberTask, FinishUnknownTask, FinishTask, ReleaseTask, SendNext,
       DestroyReadAhead, ReturnFromMain, Die, ReadCommands, ReceiveCommand, Exit, Kill
  <2>2. QED
    BY <1>2, <2>1 DEF NoneServed
<1>3. QED
  BY <1>1, <1>2

\* Every step keeps the sessions as the tasks ask for them.
LEMMA NextAgreed ==
    ASSUME Agreed, [Next]_vars
    PROVE  Agreed'
<1>1. ASSUME NEW t \in Tasks,
             \/ BeginTask(t) \/ CreateTaskSession(t) \/ OpenTraceFile(t)
             \/ OpenTraceFd(t) \/ CreateFdSession(t) \/ RememberTask(t)
             \/ FinishUnknownTask(t) \/ FinishTask(t) \/ ReleaseTask(t)
      PROVE  MirrorInv' /\ Mirrors' /\ LeakBound'
  <2>1. MirrorInv' /\ Mirrors'
    BY <1>1, BeginTaskMirrors, CreateTaskSessionMirrors, OpenTraceFileMirrors,
       OpenTraceFdMirrors, CreateFdSessionMirrors, RememberTaskMirrors,
       FinishUnknownTaskMirrors, FinishTaskMirrors, ReleaseTaskMirrors
  <2>2. pc' \notin {"exit", "gone", "dead"}
    BY <1>1 DEF BeginTask, CreateTaskSession, OpenTraceFile, OpenTraceFd, CreateFdSession,
       RememberTask, FinishUnknownTask, callVars, FinishTask, ReleaseTask
  <2>3. child' \notin {"exited", "killed"} => Comparable'
    BY <2>2 DEF Comparable, Alive
  <2>4. Comparable' => AfterCommands(session_kind', Now', todo').leaked = Leaks'
    BY <2>1 DEF Mirrors, Holding
  <2>5. QED
    BY <2>1, <2>3, <2>4 DEF LeakBound
<1>2. ASSUME SendNext \/ DestroyReadAhead \/ ReturnFromMain \/ Die
      PROVE  MirrorInv' /\ Mirrors' /\ LeakBound'
  BY <1>2, SendNextMirrors, EndingMirrors
<1>3. ASSUME Daemon
      PROVE  MirrorInv' /\ Mirrors' /\ LeakBound'
  BY <1>3, ReadCommandsMirrors, ReceiveCommandMirrors, EndMirrors DEF Daemon
<1>4. ASSUME UNCHANGED vars
      PROVE  MirrorInv' /\ Mirrors' /\ LeakBound'
  BY <1>4, StutterMirrors
<1>5. MirrorInv' /\ Mirrors' /\ LeakBound'
  BY <1>1, <1>2, <1>3, <1>4 DEF Next, Launch
<1>6. Parts' /\ NoneServed'
  BY NextParts, NoneServedStays DEF Agreed
<1>7. QED
  BY <1>5, <1>6 DEF Agreed

-----------------------------------------------------------------------------
(* Theorems *)

\* What the steps keep, and the inductive invariant that it amounts to.
LEMMA Always == Spec => []Agreed
<1>1. Init => Agreed
  BY InitParts, InitMirrors
<1>2. Agreed /\ [Next]_vars => Agreed'
  BY NextAgreed
<1>3. QED
  BY <1>1, <1>2, PTL DEF Spec

\* Whatever iorapd and the child do, and whenever either dies, the commands on
\* their way are such that each finds its session, and the calls, the pipe and
\* the sessions agree with each other (read_ahead.cc, prefetcher_daemon.cc).
THEOREM Invariant == Spec => []IInv
<1>1. Agreed => IInv
  BY IInvParts, MirrorsIs DEF Agreed, Parts
<1>2. QED
  BY <1>1, Always, PTL

\* The types of the variables, and the shape of what is in the pipe.
THEOREM TypeCorrect == Spec => []TypeOK
<1>1. IInv => TypeOK
  BY DEF IInv
<1>2. QED
  BY <1>1, Invariant, PTL

\* iorapd's view and the sessions never drift apart: with the commands that are
\* still on their way, the sessions hold for each task that was begun and not
\* finished what its trace file asks for, and nothing for any other, wherever
\* they live, however the pipe is read and whatever the trace files hold; and the
\* descriptors that are left over are the ones opened for ids given again.
THEOREM SessionsMirror == Spec => []SessionsMirrorTasks
<1>1. IInv => SessionsMirrorTasks
  BY DEF IInv
<1>2. QED
  BY <1>1, Invariant, PTL

\* What a session has open or mapped belongs to a session that still exists, so
\* that destroying it gave back everything it owned (~SessionDirect); a descriptor
\* that outlives its session was opened for an id that the trace file of its task
\* gives twice, which RegisterFilePath opens and then does not keep (session.cc).
THEOREM NothingOutlives == Spec => []NothingOutlivesItsSession
<1>1. Agreed => NothingOutlivesItsSession
  <2> SUFFICES ASSUME Agreed
               PROVE  NothingOutlivesItsSession
    OBVIOUS
  <2>1. Tidy(served) /\ Sequences
    BY DEF Agreed, Parts, PipeInv, Service
  <2>2. served.leaked \subseteq Leaks
    <3>1. CASE child \in {"exited", "killed"}
      <4>1. served = NoService
        BY <3>1 DEF Agreed, NoneServed
      <4>2. QED
        BY <4>1 DEF NoService
    <3>2. CASE child \notin {"exited", "killed"}
      <4>1. OnWay \in Seq(Commands) /\ todo \in Seq(Commands)
        BY <2>1, OnWaySequence DEF Sequences
      <4>2. Tidy(Now) /\ served.leaked \subseteq Now.leaked
        BY <2>1, <4>1, LeaksGrow DEF Now
      <4>3. Now.leaked \subseteq AfterCommands(session_kind, Now, todo).leaked
        BY <4>1, <4>2, LeaksGrow
      <4>4. QED
        BY <3>2, <4>2, <4>3 DEF Agreed, LeakBound
    <3>3. QED
      BY <3>1, <3>2
  <2>3. \A o \in Leaks : trace[o[1]] \in TraceFiles /\ o \in LeakedBy(o[1])
    <3> SUFFICES ASSUME NEW o \in Leaks
                 PROVE  trace[o[1]] \in TraceFiles /\ o \in LeakedBy(o[1])
      OBVIOUS
    <3>1. PICK t \in Asked : o \in LeakedBy(t)
      BY DEF Leaks
    <3>2. o[1] = t
      BY <3>1 DEF LeakedBy
    <3>3. QED
      BY <3>1, <3>2 DEF Asked
  <2>4. QED
    BY <2>1, <2>2, <2>3 DEF Tidy, NothingOutlivesItsSession
<1>2. QED
  BY <1>1, Always, PTL

\* A command that the child carries out meets the session it was meant for:
\* the errors of ReceiveCommand about sessions do not happen.
THEOREM CommandsMeet == Spec => CommandsMeetTheirSession
<1> DEFINE Meets == LET c == Head(pending)
                    IN  c.session_id \in DOMAIN served.sessions
                          <=> c.choice \notin {"kCreateSession", "kCreateFdSession"}
<1>1. IInv /\ [Next]_vars => [ReceiveCommand => Meets]_vars
  <2> SUFFICES ASSUME IInv, ReceiveCommand
               PROVE  Meets
    OBVIOUS
  <2>1. child = "running" /\ pending # <<>> /\ Head(pending).choice # "kExit"
    BY DEF ReceiveCommand
  <2>2. OnWay \in Seq(Commands) /\ OnWay # <<>> /\ Head(OnWay) = Head(pending)
    BY <2>1, ReceiveShifts DEF IInv
  <2>3. Ordered(OnWay, DOMAIN served.sessions)
    BY <2>1 DEF IInv, OrderInv
  <2>4. Head(OnWay).session_id \in DOMAIN served.sessions <=> ~Creates(Head(OnWay))
    BY <2>1, <2>2, <2>3, LeftOrder
  <2>5. QED
    BY <2>2, <2>4 DEF Creates
<1>2. QED
  BY <1>1, Invariant, PTL DEF Spec, CommandsMeetTheirSession
===============================================================================
