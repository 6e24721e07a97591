----------------------------- MODULE MCFileJobs -----------------------------
(* Small instances of FileJobs for TLC: two jobs that work on the files of a   *)
(* folder "src" and of a folder "dst".                                         *)
EXTENDS FileJobs

MCJob(op, dir, bases, dest) ==
    [op |-> op, sources |-> [i \in DOMAIN bases |-> Path(dir, bases[i], 1)], links |-> {},
     dest |-> dest, crossDevice |-> FALSE, hardLinks |-> TRUE, sessions |-> {}]

MCFiles == {Path("src", "f", 1), Path("src", "g", 1), Path("dst", "f", 1)}

\* A move between devices, and a copy beside its source, both to a new name in "dst".
MoveAcross == [MCJob("move", "src", <<"f">>, "dst") EXCEPT !.crossDevice = TRUE]
CopyBeside == MCJob("copy", "dst", <<"f">>, "dst")

\* A link and a file to a volume without hard links, and a job that deletes the file.
CopyLink == [MCJob("copy", "src", <<"f", "g">>, "dst") EXCEPT !.links = {1}, !.hardLinks = FALSE]
Delete == MCJob("delete", "src", <<"g">>, "src")

\* A move on one device, and one to where the file is, of two sessions that close.
MoveHere == [MCJob("move", "src", <<"f", "g">>, "dst") EXCEPT !.sessions = {"src", "dst"}]
MoveNowhere == [MCJob("move", "src", <<"g">>, "src") EXCEPT !.sessions = {"src"}]

MCSpecs == {<<MoveAcross, CopyBeside>>, <<CopyLink, Delete>>, <<MoveHere, MoveNowhere>>}

\* Two moves on one device that bring a file of the same name.
MCFilesMet == {Path("src", "f", 1), Path("ext", "f", 1)}
MCSpecsMet == {<<MCJob("move", "src", <<"f">>, "dst"), MCJob("move", "ext", <<"f">>, "dst")>>}
=============================================================================
