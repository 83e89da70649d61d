--------------------------- MODULE MCCompilation ---------------------------
(* An instance of Compilation for TLC. *)
EXTENDS Compilation

CONSTANTS a, b, c  \* inodes

AllInodes == {a, b, c}
Event(timestamp, inode, op, index) ==
    [timestamp |-> timestamp, inode |-> inode, op |-> op, index |-> index]
Packet(timestamp, events) == [timestamp |-> timestamp, events |-> events]

\* A page twice, the later time first; another in between.
Twice == <<Packet(5, <<Event(4, a, "add", 0), Event(3, a, "add", 1), Event(3, a, "add", 0),
                       Event(4, b, "other", 7)>>)>>
\* A start given by a packet of its own; a time of 0 before it, which wraps.
Wraps == <<Packet(NoStamp, <<Event(NoStamp, b, "add", 0), Event(9, a, "add", 0),
                             Event(NoStamp, a, "delete", 0)>>),
           Packet(7, <<>>)>>
\* Events over the limit, and one that has its time from them.
Limited == <<Packet(2, <<Event(6, c, "add", 0), Event(NoStamp, c, "add", 3)>>),
             Packet(2, <<Event(4, b, "add", 1), Event(4, a, "add", 1)>>)>>
Deletions == <<Packet(1, <<Event(1, a, "delete", 0)>>)>>
Stampless == <<Packet(NoStamp, <<Event(NoStamp, c, "add", 2), Event(NoStamp, b, "add", 0)>>)>>

Command(traces, limits, proto, blacklist) ==
    [traces |-> traces, limits |-> limits, output_proto |-> proto, blacklist |-> blacklist]
Hand ==
    {Command(<<Twice, Wraps>>, <<15, 15>>, TRUE, {}),
     Command(<<Wraps, Limited, Twice>>, <<15, 5, 15>>, TRUE, {}),
     Command(<<Limited, Stampless>>, <<5, 15>>, TRUE, {1}),
     Command(<<Stampless, Twice>>, <<15, 3>>, FALSE, {}),
     Command(<<Deletions>>, <<15>>, TRUE, {})}

\* Every packet of two events from a small set.
SmallEvents == [timestamp : {NoStamp, 1, 3}, inode : {a, b}, op : {"add", "delete"}, index : {0}]
Generated ==
    {Command(<<<<Packet(t, <<e, f>>)>>>>, <<2>>, TRUE, {}) :
        t \in {NoStamp, 2}, e \in SmallEvents, f \in SmallEvents}
MCCommands == Hand \cup Generated

\* Two inodes may have one name.
Name(inode, name) == [inode |-> inode, name |-> name, error |-> ""]
MCAnswers == {Name(a, 2), Name(b, 1), Name(b, 2), Name(c, 1),
              [inode |-> a, name |-> 0, error |-> "kCouldNotFindFilename"],
              [inode |-> c, name |-> 0, error |-> "errno"]}
=============================================================================
