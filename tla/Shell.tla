------------------------------- MODULE Shell --------------------------------
(***************************************************************************)
(* The shells of src/src/user/command.c on the file system driver.  A      *)
(* command is a sequence of system calls: each step below is one call, and *)
(* what the shell computes until the next.  Between two calls of a shell   *)
(* the timer may let another shell make its own.                           *)
(*                                                                         *)
(* A path is a sequence of components.  A user who is CAREFUL keeps to     *)
(* what the file system was made for; see Sensible.                        *)
(***************************************************************************)
EXTENDS FAT32

CONSTANTS Shells,
          COMMANDS,        \* what users type
          FolderNames, FileNames,
          Program,         \* the file the disk image comes with
          ProgramSize,
          EchoSize,        \* bytes an echo writes
          MAX_DIR_LENGTH,  \* entries of a DirectoryStack, and values of its length (256)
          CAREFUL          \* whether users are

ASSUME ShellAssumption ==
    /\ COMMANDS \subseteq {"cd", "mkdir", "rmdir", "cat", "cp", "rm", "mv", "echo"}
    /\ Names = FolderNames \cup FileNames /\ FolderNames \cap FileNames = {}
    /\ Program \in FileNames
    /\ {EchoSize, ProgramSize} \subseteq FileSizes
    \* with a file's size, those of the buffers cp reads it with
    /\ "cp" \in COMMANDS =>
          \A size \in FileSizes : \A n \in 0 .. size :
              n * CLUSTER_SIZE < size => (n + 1) * CLUSTER_SIZE \in FileSizes
    /\ MAX_DIR_LENGTH \in Nat \ {0, 1}
    /\ CAREFUL \in BOOLEAN

VARIABLES dir_stack,  \* per shell: the folders from the root to where it is
          cmd,        \* per shell: the command it runs and how far it is
          installed   \* whether the program is on the disk

shellVars == <<vars, dir_stack, cmd, installed>>

-----------------------------------------------------------------------------
(* Paths and working directories *)

Folder(name) == [name |-> name, ext |-> NoExt]
Up == Folder(ParentName)
Folders == {Folder(name) : name \in FolderNames}
Files == [name : FileNames, ext : Extensions \cup {NoExt}]

\* Who cannot leave the root does not go up.
Steps == Folders \cup (IF "cd" \in COMMANDS THEN {Up} ELSE {})
Beginnings == {<<>>} \cup {<<c>> : c \in Steps}
PathsTo(components) == {p \o <<c>> : p \in Beginnings, c \in components}
NewFolders == {p \in PathsTo(Folders) : Up \notin {p[1]}}

RootEntry == [name |-> RootName, cluster |-> ROOT_CLUSTER_NUMBER]

\* Below its first entry lies the end of main()'s buffer for a line, which is
\* zeroes.
EntryAt(stack, k) ==
    IF k \in DOMAIN stack THEN stack[k] ELSE [name |-> NoName, cluster |-> 0]

last_dir(stack) == EntryAt(stack, Len(stack)).name
current_parent_cluster(stack) == EntryAt(stack, Len(stack)).cluster

\* The cluster of the last entry, not of the one before.
prev_parent_cluster_OffByOne(stack) == EntryAt(stack, Len(stack)).cluster

prev_parent_cluster(stack) ==
    EntryAt(stack, IF Len(stack) = 1 THEN 1 ELSE Len(stack) - 1).cluster

\* The length is a byte, which never equals MAX_DIR_LENGTH: the push that fills
\* the array takes it to 0, and no push is refused.
push_dir(stack, entry) ==
    IF Len(stack) + 1 = MAX_DIR_LENGTH THEN <<>> ELSE Append(stack, entry)

pop_dir(stack) == IF stack = <<>> THEN stack ELSE Front(stack)

\* A table's own two entries are never shown.
Shown(table) == {i \in ChildIndex : table[i].live}

ChildFolders(table, name) ==
    {i \in Shown(table) : table[i].name = name /\ table[i].folder}

\* What ls lists, from the cluster of the directory.
handle_ls(s) ==
    LET table == TableAt(current_parent_cluster(dir_stack[s]))
    IN  [i \in Shown(table) |-> table[i]]

-----------------------------------------------------------------------------
(* Typing a command *)

Prompt == [at |-> "prompt"]

Line(s, op, at, paths, content) ==
    [op |-> op, at |-> at, todo |-> Head(paths), more |-> Tail(paths),
     dir |-> current_parent_cluster(dir_stack[s]), found |-> <<>>,
     code |-> 0, size |-> IF op = "echo" THEN EchoSize ELSE CLUSTER_SIZE,
     content |-> content]

\* Where the folders of a path lead, going by the entries ls shows.
FollowedFrom(dir, path) ==
    LET at[n \in 0 .. Len(path)] ==
            IF n = 0 THEN {dir}
            ELSE UNION {IF path[n] = Up THEN {TableAt(d)[1].cluster}
                        ELSE {TableAt(d)[i].cluster :
                                 i \in ChildFolders(TableAt(d), path[n].name)} :
                        d \in at[n - 1]}
    IN  at[Len(path)]

Target(s, path) == FollowedFrom(current_parent_cluster(dir_stack[s]), Front(path))

\* The folders a cd goes down into.
Descents(path) == Cardinality({k \in DOMAIN path : path[k] # Up})

\* What a careful user does not type: cd to more folders than a stack can hold;
\* mkdir of a folder inside one of its name, or of one that exists behind an empty
\* slot; rm of a folder some shell is in; mv within a directory.
Sensible(s, op, paths) ==
    CASE op = "cd" -> Len(dir_stack[s]) + Descents(paths[1]) < MAX_DIR_LENGTH
      [] op = "mkdir" ->
            LET path == paths[1]
            IN  /\ \A k \in DOMAIN path :
                    /\ \A e \in Range(dir_stack[s]) : e.name # path[k].name
                    /\ \A j \in 1 .. (k - 1) : path[j] # path[k]
                    /\ \A d \in FollowedFrom(current_parent_cluster(dir_stack[s]),
                                             SubSeq(path, 1, k - 1)) :
                        \A i \in ChildFolders(TableAt(d), path[k].name) :
                            \A j \in 2 .. i : TableAt(d)[j].live
      [] op = "rmdir" ->
            \E d \in FollowedFrom(current_parent_cluster(dir_stack[s]), paths[1]) :
                \A t \in Shells : \A e \in Range(dir_stack[t]) : e.cluster # d
      [] op = "mv" -> LET from == Target(s, paths[1])
                        to == Target(s, paths[2])
                    IN  {} \notin {from, to} /\ from \cap to = {}
      [] OTHER -> TRUE

Types(s, op, at, paths, content) ==
    /\ op \in COMMANDS
    /\ CAREFUL => Sensible(s, op, paths)
    /\ cmd' = [cmd EXCEPT ![s] = Line(s, op, at, paths, content)]

\* A user types a command; "rmdir" is rm of a folder.
Enter(s) ==
    /\ Idle /\ installed /\ cmd[s] = Prompt
    /\ \/ \E path \in PathsTo(Folders \cup {Up}) :
            Types(s, "cd", "enter", <<path>>, <<>>)
       \/ \E path \in NewFolders : Types(s, "mkdir", "make", <<path>>, <<>>)
       \/ \E path \in PathsTo(Folders) : Types(s, "rmdir", "search", <<path>>, <<>>)
       \/ \E op \in {"cat", "rm"}, path \in PathsTo(Files) :
            Types(s, op, "search", <<path>>, <<>>)
       \/ \E op \in {"cp", "mv"}, from \in PathsTo(Files), to \in PathsTo(Files) :
            Types(s, op, "search", <<from, to>>, <<>>)
       \/ \E path \in PathsTo(Files), tag \in Tags :
            Types(s, "echo", "search", <<path>>, Buffer(tag, EchoSize))
    /\ UNCHANGED <<vars, dir_stack, installed>>

Running(s, at) == Idle /\ cmd[s].at = at

Continue(s, c) == cmd' = [cmd EXCEPT ![s] = c]
Finish(s) == Continue(s, Prompt)

-----------------------------------------------------------------------------
(* The system calls of the commands *)

\* A destination may be missing, whatever else is wrong with it.
MayBeMissing(c) == c.op = "echo" \/ (c.op \in {"cp", "mv"} /\ Len(c.found) = 1)

FirstCall == [cat |-> "read", cp |-> "read", rm |-> "delete", rmdir |-> "delete",
              mv |-> "move", echo |-> "write"]

\* One turn of path_to_dir_stack_from_cwd: the first live entry of the name and
\* extension, the directory's own two included.
LookUp(s) ==
    /\ Running(s, "search")
    /\ LET c == cmd[s]
           component == Head(c.todo)
           found == Found(TableAt(c.dir), component.name, component.ext)
           place == [dir |-> c.dir, name |-> component.name, ext |-> component.ext]
       IN  CASE Len(c.todo) > 1 /\ found # {} ->
                    Continue(s, [c EXCEPT !.todo = Tail(c.todo),
                                    !.dir = TableAt(c.dir)[FirstIndex(found)].cluster])
             [] Len(c.todo) = 1 /\ (found # {} \/ MayBeMissing(c)) ->
                    Continue(s,
                        IF c.more = <<>>
                        THEN [c EXCEPT !.found = Append(@, place), !.at = FirstCall[c.op]]
                        ELSE [c EXCEPT !.found = Append(@, place),
                                       !.todo = Head(c.more), !.more = Tail(c.more),
                                       !.dir = current_parent_cluster(dir_stack[s])])
             [] OTHER -> Finish(s)
    /\ UNCHANGED <<vars, dir_stack, installed>>

\* The tables handle_cd may search: what get_dir finds, and when it finds none,
\* whatever was in the memory it should have filled.
Searched(stack) ==
    LET table == read_directory(prev_parent_cluster(stack), last_dir(stack))
    IN  IF table # {} THEN table
        ELSE {AsTable(Blank)} \cup {TableAt(d) : d \in Directories}

\* One turn of handle_cd.  What earlier turns did stays done when one fails.
EnterDirectory(s) ==
    /\ Running(s, "enter")
    /\ LET c == cmd[s]
           stack == dir_stack[s]
           name == Head(c.todo).name
           rest == IF Len(c.todo) = 1 THEN Prompt ELSE [c EXCEPT !.todo = Tail(@)]
       IN  \/ /\ name = ParentName /\ last_dir(stack) = RootName
              /\ Finish(s)
              /\ UNCHANGED dir_stack
           \/ /\ name = ParentName /\ last_dir(stack) # RootName
              /\ Continue(s, rest)
              /\ dir_stack' = [dir_stack EXCEPT ![s] = pop_dir(stack)]
           \/ /\ name # ParentName
              /\ \E table \in Searched(stack) :
                    LET folders == ChildFolders(table, name)
                    IN  IF folders = {}
                        THEN Finish(s) /\ UNCHANGED dir_stack
                        ELSE /\ Continue(s, rest)
                             /\ dir_stack' = [dir_stack EXCEPT ![s] =
                                   push_dir(stack, [name |-> name,
                                       cluster |-> table[FirstIndex(folders)].cluster])]
    /\ UNCHANGED <<vars, installed>>

\* What is left on the stack of folders has their names.
FolderResidue == {entry \in Residue : entry.name \notin FileNames}

\* handle_mkdir: make_directory, and then a look for what it made or found.
MakeDirectory(s) ==
    /\ Running(s, "make")
    /\ LET c == cmd[s]
           name == Head(c.todo).name
           code == WriteCode(c.dir, name, NoExt, TRUE, 1)
       IN  /\ Continue(s, [c EXCEPT !.at = "made", !.code = code])
           /\ IF code = 0
              THEN /\ call' = "mkdir"
                   /\ \E residue \in FolderResidue :
                        write_folder(c.dir, name, NoExt, residue)
              ELSE UNCHANGED vars
    /\ UNCHANGED <<dir_stack, installed>>

MadeDirectory(s) ==
    /\ Running(s, "made")
    /\ LET c == cmd[s]
           table == TableAt(c.dir)
           named == {i \in Shown(table) : table[i].name = Head(c.todo).name}
           dir == IF named = {} THEN c.dir ELSE table[FirstIndex(named)].cluster
       IN  IF c.code \notin {0, 1} \/ Len(c.todo) = 1
           THEN Finish(s)
           ELSE Continue(s, [c EXCEPT !.at = "make", !.dir = dir, !.todo = Tail(@)])
    /\ UNCHANGED <<vars, dir_stack, installed>>

\* Reading what was found, with a larger buffer until the file fits; then the
\* command goes on as `read_it` says.
ReadFound(s, op, read_it) ==
    /\ Running(s, "read") /\ cmd[s].op = op
    /\ LET c == cmd[s]
           from == c.found[1]
           code == ReadCode(from.dir, from.name, from.ext, c.size)
       IN  CASE code = 0 -> Continue(s, read_it)
             [] code = 2 -> Continue(s, [c EXCEPT !.size = @ + CLUSTER_SIZE])
             [] OTHER -> Finish(s)
    /\ UNCHANGED <<vars, dir_stack, installed>>

\* handle_cat prints it, handle_cp goes on with the buffer and its size.
ShowSource(s) == ReadFound(s, "cat", Prompt)

ReadSource(s) ==
    LET c == cmd[s]
        blocks == read(c.found[1].dir, c.found[1].name, c.found[1].ext)
    IN  ReadFound(s, "cp",
            [c EXCEPT !.at = "write",
                      !.content = [j \in 1 .. ClusterAmount(c.size) |->
                          IF j \in DOMAIN blocks THEN blocks[j] ELSE Blank]])

\* The copy has the size of the buffer.
WriteTarget(s) ==
    /\ Running(s, "write")
    /\ LET c == cmd[s]
           to == Last(c.found)
       IN  IF WriteCode(to.dir, to.name, to.ext, FALSE, ClusterAmount(c.size)) = 0
           THEN /\ call' = "write"
                /\ write_file(to.dir, to.name, to.ext, c.size, c.content)
           ELSE UNCHANGED vars
    /\ Finish(s)
    /\ UNCHANGED <<dir_stack, installed>>

DeleteFound(s) ==
    /\ Running(s, "delete")
    /\ LET at == cmd[s].found[1]
       IN  IF DeleteCode(at.dir, at.name, at.ext) = 0
           THEN call' = "delete" /\ delete(at.dir, at.name, at.ext)
           ELSE UNCHANGED vars
    /\ Finish(s)
    /\ UNCHANGED <<dir_stack, installed>>

MoveFound(s) ==
    /\ Running(s, "move")
    /\ LET from == cmd[s].found[1]
           to == cmd[s].found[2]
       IN  IF MoveCode(from.dir, from.name, from.ext, to.dir) = 0
           THEN /\ call' = "move"
                /\ move(from.dir, from.name, from.ext, to.dir, to.name, to.ext)
           ELSE UNCHANGED vars
    /\ Finish(s)
    /\ UNCHANGED <<dir_stack, installed>>

-----------------------------------------------------------------------------
(* find, which only reads *)

\* Where find begins, and the directories it then goes through.
FindBegins == read_directory(ROOT_CLUSTER_NUMBER, RootName)

FindVisits == DirectoriesBelow(disk, ROOT_CLUSTER_NUMBER)

\* The names of the tables on the way up from a directory.
NamesAbove(start) ==
    LET up[n \in 0 .. CLUSTER_MAP_SIZE] ==
            IF n = 0 THEN [dir |-> start, names |-> <<>>]
            ELSE LET below == up[n - 1]
                 IN  IF below.dir = ROOT_CLUSTER_NUMBER THEN below
                     ELSE [dir |-> TableAt(below.dir)[1].cluster,
                           names |-> <<Folder(TableAt(below.dir)[0].name)>> \o below.names]
    IN  up[CLUSTER_MAP_SIZE].names

\* Where find says a directory is.  It pushes an entry of it, these names from below
\* and one more, and prints all but the last; of those pushed before the length
\* wrapped nothing is left.
PathUp(start) ==
    LET names == NamesAbove(start)
    IN  IF Len(names) + 2 <= MAX_DIR_LENGTH THEN names
        ELSE SubSeq(names, 1, (Len(names) + 1) % MAX_DIR_LENGTH)

-----------------------------------------------------------------------------
(* The system *)

ShellInit ==
    /\ Init
    /\ dir_stack = [s \in Shells |-> <<RootEntry>>]
    /\ cmd = [s \in Shells |-> Prompt]
    /\ installed = FALSE

\* The inserter of the host puts the program on the formatted image.
Install ==
    /\ Idle /\ ~installed
    /\ installed' = TRUE
    /\ call' = "write"
    /\ \E tag \in Tags : write_file(ROOT_CLUSTER_NUMBER, Program, NoExt, ProgramSize,
                                    Buffer(tag, ProgramSize))
    /\ UNCHANGED <<dir_stack, cmd>>

Disk == write_clusters /\ UNCHANGED <<dir_stack, cmd, installed>>

Step(s) ==
    \/ LookUp(s)
    \/ EnterDirectory(s)
    \/ MakeDirectory(s)
    \/ MadeDirectory(s)
    \/ ShowSource(s)
    \/ ReadSource(s)
    \/ WriteTarget(s)
    \/ DeleteFound(s)
    \/ MoveFound(s)

ShellNext ==
    \/ Install
    \/ Disk
    \/ \E s \in Shells : Enter(s) \/ Step(s)

ShellSpec == ShellInit /\ [][ShellNext]_shellVars

-----------------------------------------------------------------------------
(* Properties *)

\* Whatever users type, with directories removed under them and stacks that wrapped:
\* each directory a shell remembers is a cluster of the disk and never the
\* allocation table's, a stack is no longer than a byte can say, and the file
\* system's own state keeps its types.
ShellTypeOK ==
    /\ TypeOK
    /\ \A s \in Shells :
        /\ Len(dir_stack[s]) < MAX_DIR_LENGTH
        /\ \A k \in DOMAIN dir_stack[s] :
              dir_stack[s][k].cluster \in Cluster \ {FAT_CLUSTER_NUMBER}
        /\ cmd[s].at \in {"prompt", "search", "enter", "make", "made",
                          "read", "write", "delete", "move"}
        /\ cmd[s] # Prompt => cmd[s].dir \in Cluster \ {FAT_CLUSTER_NUMBER}

\* Wherever the commands of all shells have led, a working directory is a chain
\* of folders from the root that are there, each a live entry of the one before;
\* provided no cd goes deeper than a stack can count.
WorkingDirectoriesExist ==
    Idle => \A s \in Shells :
        /\ dir_stack[s] # <<>> /\ dir_stack[s][1] = RootEntry
        /\ \A k \in 2 .. Len(dir_stack[s]) :
              \E i \in ChildFolders(TableAt(dir_stack[s][k - 1].cluster),
                                    dir_stack[s][k].name) :
                  TableAt(dir_stack[s][k - 1].cluster)[i].cluster = dir_stack[s][k].cluster

\* cd, which finds its directory by name, searches the entries that ls lists,
\* which goes by the cluster, as deep as a stack can count.
CdSearchesWhatLsLists ==
    Idle => \A s \in Shells : \A table \in Searched(dir_stack[s]) :
        [i \in Shown(table) |-> table[i]] = handle_ls(s)

\* find begins in the root, and the path that it prints for what is in a directory
\* leads from the root to that directory and to no other, as long as the stack
\* on which it makes the path does not wrap.
FindPrintsPaths ==
    Idle =>
        /\ FindBegins = {TableAt(ROOT_CLUSTER_NUMBER)}
        /\ \A d \in FindVisits : Len(NamesAbove(d)) + 2 <= MAX_DIR_LENGTH =>
              FollowedFrom(ROOT_CLUSTER_NUMBER, PathUp(d)) = {d}

\* A file has the blocks of one single write in order, and behind them, when it
\* is a copy, only rubbish: never parts of two versions of what was copied.
CopiesOneVersion ==
    Idle => \A p \in Places :
        LET entry == TableAt(p[1])[p[2]]
            block == [j \in 1 .. ClustersFor(entry.filesize) |->
                        BlockOn(disk, cluster_map, entry.cluster, j)]
        IN  ~entry.folder =>
                \E tag \in Tags, n \in DOMAIN block : \A j \in DOMAIN block :
                    block[j] = IF j <= n THEN Data(tag, j) ELSE Blank

=============================================================================
