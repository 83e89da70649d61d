-------------------------- MODULE MCInodeResolver --------------------------
(* An instance of InodeResolver for TLC. *)
EXTENDS InodeResolver

Ino(d, n) == [dev |-> d, ino |-> n]
File(d, n) == [inode |-> Ino(d, n), type |-> "reg", target |-> ""]
Dir(d, n) == [inode |-> Ino(d, n), type |-> "dir", target |-> ""]
Link(d, n, to) == [inode |-> Ino(d, n), type |-> "lnk", target |-> to]

MCInodes == {1, 2} \X {1, 2, 3, 4}
AllInodes == {Ino(i[1], i[2]) : i \in MCInodes}

\* Two partitions that use the same numbers, a link from one to the other, a
\* file whose name has a blank, and a socket.
TwoRoots == <<"/a", "/b">>
Parents == [n \in {"/a", "/b"} |-> ""]
           @@ [n \in {"/a/d", "/a/l"} |-> "/a"] @@ [n \in {"/a/d/f"} |-> "/a/d"]
           @@ [n \in {"/b/my file", "/b/s"} |-> "/b"]
MCNames == DOMAIN Parents
Tree == [n \in {"/a"} |-> Dir(1, 1)] @@ [n \in {"/b"} |-> Dir(2, 1)]
        @@ [n \in {"/a/d"} |-> Dir(1, 2)] @@ [n \in {"/a/l"} |-> Link(1, 4, "/b/my file")]
        @@ [n \in {"/a/d/f"} |-> File(1, 3)] @@ [n \in {"/b/my file"} |-> File(2, 3)]
        @@ [n \in {"/b/s"} |-> [inode |-> Ino(2, 2), type |-> "other", target |-> ""]]
\* A file system that gives no types.
Untyped == [Tree EXCEPT !["/b/my file"].type = "unknown"]
MCDisks == {Tree, Untyped}
MCFileNames == MCNames \cup {"/gone", ""}
MCFirstWord == [n \in {"/b/my file"} |-> "/b/my"]
MCChanging == {"/a/d", "/a/d/f", "/b/my file"}
MCNewNodes == {File(1, 4), File(2, 3)}

Row(i, name) == [kind |-> "row", inode |-> i, name |-> name]
MCCaches == {
    <<>>,
    <<Row(Ino(1, 3), "/gone"), Row(Ino(2, 3), "/b/my file"), Row(Ino(1, 3), "/a/d/f")>>,
    <<[Row(Ino(1, 2), "") EXCEPT !.kind = "nameless"], Row(Ino(1, 3), ""),
      [Row(Ino(1, 1), "") EXCEPT !.kind = "garbage"], Row(Ino(2, 3), "/b/my file")>>}

Find(inodes) == [request |-> "find", list |-> inodes]
MCRequests == {Find({}), Find({Ino(1, 3), Ino(2, 3)}), Find({Ino(1, 2)}),
               Find({Ino(2, 3), Ino(2, 4)}), [request |-> "all", list |-> {}]}
MCOptions == [source : {"diskscan", "textcache"}, verify : {"none", "stat"}]
=============================================================================
