-------------------------- MODULE MCDirectoryIndexer --------------------------
(* Two directories, one of them scanned, with up to three links that lead       *)
(* anywhere, a directory that cannot be read, exclusions and mounts.            *)
EXTENDS DirectoryIndexer

CONSTANTS r, l, d, f, run, x, g, h, z

MCName == {r, l, d, f, run, x, g, h, z}
MCOrder == <<d, f, g, h, l, r, run, x, z>>
MCRoot == <<r>>
MCConditional == {<<run>>}

Tree1 == <<>> :> Dir @@ <<r>> :> Dir @@ <<run>> :> Dir @@ <<run, h>> :> File

FileSystems(atL, atD, atF, atX) ==
    {Tree1 @@ <<r, l>> :> nl @@ <<r, d>> :> nd @@ <<run, x>> :> nx
        @@ (IF nd.kind = "dir" THEN <<r, d, f>> :> nf ELSE <<>>)
        @@ (IF nx.kind = "dir" THEN <<run, x, g>> :> File ELSE <<>>) :
            nl \in atL, nd \in atD, nf \in atF, nx \in atX}

\* Where links lead when there is no base: to files, directories and links, to what
\* they are in, to nothing, and below a link or a file.
Anywhere == {AbsLink(p) : p \in {<<r>>, <<r, l>>, <<r, d>>, <<r, d, f>>, <<run>>, <<run, x>>,
    <<run, x, g>>, <<run, h>>, <<run, z>>, <<r, l, g>>}} \cup {RelLink(2, <<run, x, g>>), RelLink(1, <<d>>)}

\* Where they lead when links are resolved below the scanned directory.
Below == {AbsLink(p) : p \in {<<>>, <<l>>, <<d>>, <<d, f>>, <<d, g>>, <<run, x>>, <<run, x, g>>}}
            \cup {RelLink(3, <<d, f>>), RelLink(1, <<run, x>>)}

Exclusions == {{}, {<<r, d>>}, {<<run, x, g>>, <<r, l>>}}
\* Only directories are mount points.
MountTables == {{},
    {[point |-> <<>>, type |-> "ext4"], [point |-> <<run>>, type |-> "tmpfs"],
     [point |-> <<run, x>>, type |-> "ext4"]},
    {[point |-> <<>>, type |-> "proc"], [point |-> <<r>>, type |-> "tmpfs"],
     [point |-> <<run>>, type |-> "ext4"]},
    {[point |-> <<run, x>>, type |-> "sysfs"], [point |-> <<run>>, type |-> "tmpfs"]},
    {[point |-> <<run, x>>, type |-> "sysfs"]}}

CasesOf(files, bases, exclusions, tables) ==
    [fs : files, base : bases, exclude : exclusions, mounts : tables]

\* A directory that holds a link to itself and a file that nothing else leads to.
Around == {n @@ <<run, z>> :> File : n \in
    FileSystems({AbsLink(<<run>>), AbsLink(<<run, x, g>>)},
                {AbsLink(<<run, x, h>>), AbsLink(<<run, x, x, h>>)}, {File}, {RelLink(0, <<>>), Dir})}

MCCases ==
    CasesOf(FileSystems(Anywhere, {Dir} \cup Anywhere, {File}, {Dir} \cup Anywhere),
            {NoBase}, {{}}, {{}})
    \cup CasesOf(Around, {NoBase}, {{}}, {{}})
    \cup CasesOf(FileSystems(Anywhere, {Dir} \cup Anywhere, {File, Special}, {Dir, LockedDir}),
            {NoBase}, Exclusions, MountTables)
    \cup CasesOf(FileSystems(Below, {Dir} \cup Below, {File}, {Dir} \cup Below),
            {Root}, {{}}, {{}})
===============================================================================
