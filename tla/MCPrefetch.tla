----------------------------- MODULE MCPrefetch -----------------------------
(* An instance of Prefetch for TLC. *)
EXTENDS PrefetchInv

CONSTANTS t1, t2, plain, long

TwoTasks == {t1, t2}

\* One trace of a file that opens and one that is gone since; one that gives an
\* id to a file whose name SendCommand has no room for, and twice to another.
TwoTraces == {plain, long}
Indices ==
    plain :> <<[id |-> 0, file_name |-> "app.apk"], [id |-> 1, file_name |-> "gone.so"]>>
    @@ long :> <<[id |-> 0, file_name |-> "long.odex"], [id |-> 0, file_name |-> "app.apk"],
                 [id |-> 0, file_name |-> "app.apk"]>>
Lists ==
    plain :> <<[index_id |-> 1, length |-> 1, offset |-> 0],
               [index_id |-> 0, length |-> 1, offset |-> 0]>>
    @@ long :> <<[index_id |-> 0, length |-> 1, offset |-> 0]>>
ExistingFiles == {"app.apk", "long.odex"}
MCStrategies == {"kFadvise", "kMmapLocked"}
OnlyIpc == {"kOutOfProcessIpc"}
LongFiles == {"long.odex"}
=============================================================================
