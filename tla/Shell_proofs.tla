---------------------------- MODULE Shell_proofs ----------------------------
(***************************************************************************)
(* What any number of shells do to the driver and the disk, for every set  *)
(* of commands, careful users or not: a shell that goes on with a          *)
(* directory another one has removed writes into whatever is there now,    *)
(* but never outside the disk, over the allocation table, or anything but  *)
(* a directory table, a block or the allocation table.                     *)
(* The second part has the users who are careful.                          *)
(***************************************************************************)
EXTENDS Shell, FAT32Sound_proofs

-----------------------------------------------------------------------------
(* The invariant *)

Component == [name : Names \cup {ParentName}, ext : EntryExt]
Path == {path \in Seq(Component) : path # <<>>}
Place == [dir : Aside, name : Names \cup {ParentName}, ext : EntryExt]

Command ==
    [op : COMMANDS,
     at : {"search", "enter", "make", "made", "read", "write", "delete", "move"},
     todo : Path, more : Seq(Path), dir : Aside, found : Seq(Place),
     code : Int, size : Nat, content : Seq(Content)]

\* The sizes of the buffers in which cp finds room for a file.
BufferSize ==
    {(n + 1) * CLUSTER_SIZE :
        n \in {m \in Nat : \E size \in FileSizes : m <= size /\ m * CLUSTER_SIZE < size}}

\* What a command has before it makes its call: the places it found, and for a
\* write a size that a file may have and as many blocks as the driver takes.
Ready(c) ==
    /\ c.at = "search" =>
          /\ c.op \in {"cat", "cp", "rm", "rmdir", "mv", "echo"}
          /\ c.size = IF c.op = "echo" THEN EchoSize ELSE CLUSTER_SIZE
          /\ c.op = "echo" => Len(c.content) = ClusterAmount(EchoSize)
          /\ c.op = "mv" => Len(c.found) + Len(c.more) = 1
    /\ c.at \in {"read", "write", "delete"} => c.found # <<>>
    /\ c.at = "read" /\ c.op = "cp" => c.size \in BufferSize
    /\ c.at = "write" => c.size \in FileSizes /\ Len(c.content) = ClusterAmount(c.size)
    /\ c.at = "move" => Len(c.found) = 2

Commands == {Prompt} \cup {c \in Command : Ready(c)}

\* Stacks never hold the allocation table's cluster.  One that has wrapped is empty,
\* and then need not begin with the root.
StackEntry == [name : EntryName, cluster : Aside]
Stacks == {stack \in Seq(StackEntry) : Len(stack) < MAX_DIR_LENGTH}

ShellInv ==
    /\ IInv
    /\ dir_stack \in [Shells -> Stacks]
    /\ cmd \in [Shells -> Commands]

-----------------------------------------------------------------------------
(* Sizes, paths and stacks *)

LEMMA ShellConstants ==
    /\ COMMANDS \subseteq {"cd", "mkdir", "rmdir", "cat", "cp", "rm", "mv", "echo"}
    /\ FolderNames \subseteq Names /\ FileNames \subseteq Names /\ Program \in Names
    /\ EchoSize \in FileSizes /\ ProgramSize \in FileSizes /\ FileSizes \subseteq Nat \ {0}
    /\ CLUSTER_SIZE \in Nat \ {0} /\ MAX_DIR_LENGTH \in Nat \ {0, 1}
BY FAT32Assumption, ShellAssumption DEF FAT32Assumption, ShellAssumption

\* A cluster is the first buffer, and the next has one more: sizes a file may
\* have when cp is used.
LEMMA BufferSizes ==
    /\ CLUSTER_SIZE \in BufferSize /\ BufferSize \subseteq Nat
    /\ \A a \in BufferSize, size \in FileSizes \cup {0} :
          a < size => a + CLUSTER_SIZE \in BufferSize
    /\ "cp" \in COMMANDS => BufferSize \subseteq FileSizes
<1>1. CLUSTER_SIZE \in Nat \ {0} /\ FileSizes \subseteq Nat \ {0} /\ EchoSize \in FileSizes
    BY ShellConstants
<1>2. CLUSTER_SIZE \in BufferSize
    <2>1. 0 \in Nat /\ 0 <= EchoSize /\ 0 * CLUSTER_SIZE < EchoSize
          /\ (0 + 1) * CLUSTER_SIZE = CLUSTER_SIZE
        BY <1>1
    <2> QED
        BY <1>1, <2>1 DEF BufferSize
<1>3. BufferSize \subseteq Nat
    BY <1>1 DEF BufferSize
<1>4. ASSUME NEW a \in BufferSize, NEW size \in FileSizes \cup {0}, a < size
      PROVE  a + CLUSTER_SIZE \in BufferSize
    <2>1. PICK n \in Nat : a = (n + 1) * CLUSTER_SIZE
        BY DEF BufferSize
    <2>2. n + 1 \in Nat /\ (n + 1) + 1 \in Nat
        OBVIOUS
    <2>3. a + CLUSTER_SIZE = ((n + 1) + 1) * CLUSTER_SIZE
        BY <1>1, <2>1, <2>2
    <2>4. size \in FileSizes /\ size \in Nat /\ a \in Nat
        BY <1>1, <1>3, <1>4
    <2>5. n + 1 <= a
        BY <1>1, <2>1
    <2>6. n + 1 <= size
        BY <1>4, <2>4, <2>5
    <2> QED
        BY <1>4, <2>1, <2>2, <2>3, <2>4, <2>6 DEF BufferSize
<1>5. ASSUME "cp" \in COMMANDS, NEW a \in BufferSize
      PROVE  a \in FileSizes
    <2>1. PICK n \in Nat : /\ a = (n + 1) * CLUSTER_SIZE
                           /\ \E size \in FileSizes : n <= size /\ n * CLUSTER_SIZE < size
        BY DEF BufferSize
    <2>2. PICK size \in FileSizes : n <= size /\ n * CLUSTER_SIZE < size
        BY <2>1
    <2>3. n \in 0 .. size
        BY <1>1, <2>2
    <2> QED
        BY <1>5, <2>1, <2>2, <2>3, ShellAssumption DEF ShellAssumption
<1> QED
    BY <1>2, <1>3, <1>4, <1>5

\* What users type are paths.
LEMMA PathsAre ==
    /\ Up \in Component /\ Folders \subseteq Component /\ Files \subseteq Component
    /\ \A components \in SUBSET Component : PathsTo(components) \subseteq Path
    /\ NewFolders \subseteq Path
<1>1. FolderNames \subseteq Names /\ FileNames \subseteq Names
    BY ShellConstants
<1>2. Up \in Component /\ Folders \subseteq Component /\ Files \subseteq Component
    BY <1>1 DEF Up, Folder, Folders, Files, Component, EntryExt
<1>3. ASSUME NEW components \in SUBSET Component, NEW path \in PathsTo(components)
      PROVE  path \in Path
    <2>1. PICK p \in Beginnings, c \in components : path = p \o <<c>>
        BY DEF PathsTo
    <2>2. p \in Seq(Component) /\ <<c>> \in Seq(Component) /\ Len(<<c>>) = 1
        <3>1. \A a \in Component : <<a>> \in Seq(Component)
            OBVIOUS
        <3>2. Steps \subseteq Component
            BY <1>2 DEF Steps
        <3>3. p = <<>> \/ \E a \in Steps : p = <<a>>
            BY <2>1 DEF Beginnings
        <3>4. <<>> \in Seq(Component)
            BY EmptySeq
        <3>5. p \in Seq(Component)
            BY <3>1, <3>2, <3>3, <3>4, Zenon
        <3>6. c \in Component /\ \A a : Len(<<a>>) = 1
            BY <2>1
        <3> QED
            BY <3>1, <3>5, <3>6, Zenon
    <2> HIDE DEF Component
    <2>3. path \in Seq(Component) /\ Len(path) = Len(p) + 1
        BY <2>1, <2>2
    <2>4. path # <<>>
        BY <2>2, <2>3
    <2> QED
        BY <2>3, <2>4 DEF Path
<1>4. NewFolders \subseteq PathsTo(Folders)
    BY DEF NewFolders
<1> QED
    BY <1>2, <1>3, <1>4

\* What is first in a path, and the rest of it.
LEMMA PathParts ==
    ASSUME NEW path \in Path
    PROVE  /\ Head(path) \in Component
           /\ Len(path) \in Nat \ {0}
           /\ Len(path) # 1 => Tail(path) \in Path
<1>1. path \in Seq(Component) /\ path # <<>>
    BY DEF Path
<1>2. Len(path) \in Nat \ {0} /\ Head(path) \in Component /\ Tail(path) \in Seq(Component)
      /\ Len(Tail(path)) = Len(path) - 1
    BY <1>1
<1>3. Len(path) # 1 => Tail(path) # <<>>
    BY <1>2, EmptySeq
<1> QED
    BY <1>2, <1>3 DEF Path

\* What is on a stack, and what lies below it.
LEMMA EntryOfStack ==
    ASSUME NEW stack \in Stacks, NEW k
    PROVE  EntryAt(stack, k).cluster \in Aside
<1>1. CASE k \in DOMAIN stack
    <2>1. stack \in Seq(StackEntry)
        BY DEF Stacks
    <2>2. stack[k] \in StackEntry
        BY <1>1, <2>1
    <2> QED
        BY <1>1, <2>2 DEF EntryAt, StackEntry
<1>2. CASE k \notin DOMAIN stack
    <2>1. 0 \in Aside
        BY Constants DEF Aside, FAT_CLUSTER_NUMBER
    <2> QED
        BY <1>2, <2>1 DEF EntryAt
<1> QED
    BY <1>1, <1>2

\* A working directory is a place for a directory.
LEMMA WorkingDirectoryIsAside ==
    ASSUME NEW stack \in Stacks
    PROVE  current_parent_cluster(stack) \in Aside /\ prev_parent_cluster(stack) \in Aside
BY EntryOfStack DEF current_parent_cluster, prev_parent_cluster

\* A stack that is not empty loses its last entry.
LEMMA StackAfterPop ==
    ASSUME NEW stack \in Stacks
    PROVE  pop_dir(stack) \in Stacks
<1>1. stack \in Seq(StackEntry) /\ Len(stack) \in Nat /\ Len(stack) < MAX_DIR_LENGTH
      /\ MAX_DIR_LENGTH \in Nat
    BY ShellConstants DEF Stacks
<1>2. CASE stack = <<>>
    BY <1>2 DEF pop_dir
<1>3. CASE stack # <<>>
    <2> DEFINE n == Len(stack) - 1
    <2>1. Len(stack) # 0
        BY <1>1, <1>3, EmptySeq
    <2>2. n \in Nat /\ n <= Len(stack) /\ n < MAX_DIR_LENGTH
        BY <1>1, <2>1
    <2>3. pop_dir(stack) = SubSeq(stack, 1, n)
        BY <1>3 DEF pop_dir, Front
    <2> HIDE DEF n
    <2>4. SubSeq(stack, 1, n) \in Seq(StackEntry) /\ Len(SubSeq(stack, 1, n)) = n
        BY <1>1, <2>2
    <2> QED
        BY <2>2, <2>3, <2>4 DEF Stacks
<1> QED
    BY <1>2, <1>3

\* One that is pushed onto grows, or wraps.
LEMMA StackAfterPush ==
    ASSUME NEW stack \in Stacks, NEW entry \in StackEntry
    PROVE  push_dir(stack, entry) \in Stacks
<1>1. stack \in Seq(StackEntry) /\ Len(stack) \in Nat /\ Len(stack) < MAX_DIR_LENGTH
      /\ MAX_DIR_LENGTH \in Nat /\ MAX_DIR_LENGTH > 0
    BY ShellConstants DEF Stacks
<1>2. Append(stack, entry) \in Seq(StackEntry) /\ Len(Append(stack, entry)) = Len(stack) + 1
    BY <1>1
<1>3. Len(stack) + 1 # MAX_DIR_LENGTH => Len(stack) + 1 < MAX_DIR_LENGTH
    BY <1>1
<1>4. <<>> \in Stacks
    BY <1>1, EmptySeq DEF Stacks
<1> QED
    BY <1>2, <1>3, <1>4 DEF push_dir, Stacks

-----------------------------------------------------------------------------
(* Commands *)

\* A shell that is not at its prompt runs a command.
LEMMA CommandRuns ==
    ASSUME ShellInv, NEW s \in Shells, cmd[s].at # "prompt"
    PROVE  cmd[s] \in Command /\ Ready(cmd[s])
BY DEF ShellInv, Commands, Prompt

\* A command in progress is none that was finished.
LEMMA CommandIsNoPrompt ==
    ASSUME NEW c \in Command
    PROVE  c # Prompt
<1>1. c.at # "prompt" /\ Prompt.at = "prompt"
    BY DEF Command, Prompt
<1> QED
    BY <1>1

\* A step that makes no call.
LEMMA StepWithoutCall ==
    ASSUME ShellInv, NEW s \in Shells, NEW c \in Commands, NEW stack \in Stacks,
           Continue(s, c), dir_stack' = [dir_stack EXCEPT ![s] = stack], UNCHANGED vars
    PROVE  ShellInv'
<1>1. IInv'
    BY DEF ShellInv, vars, IInv, OnDisk
<1>2. cmd' \in [Shells -> Commands] /\ dir_stack' \in [Shells -> Stacks]
    BY DEF ShellInv, Continue
<1> QED
    BY <1>1, <1>2 DEF ShellInv

\* A step that only goes on with the command.
LEMMA CommandGoesOn ==
    ASSUME ShellInv, NEW s \in Shells, NEW c \in Commands,
           Continue(s, c), UNCHANGED <<vars, dir_stack>>
    PROVE  ShellInv'
<1>1. dir_stack' = [dir_stack EXCEPT ![s] = dir_stack[s]] /\ dir_stack[s] \in Stacks
    BY DEF ShellInv
<1> QED
    BY <1>1, StepWithoutCall

\* A command that is over.
LEMMA CommandIsOver ==
    ASSUME ShellInv, IInv', NEW s \in Shells, Finish(s), UNCHANGED dir_stack
    PROVE  ShellInv'
BY DEF ShellInv, Finish, Continue, Commands

\* What users may type.
Typed(op, at, paths, content) ==
    /\ at \in {"search", "enter", "make"}
    /\ at = "search" => op \notin {"cd", "mkdir"}
    /\ paths \in Seq(Path) /\ paths # <<>>
    /\ op = "mv" => Len(paths) = 2
    /\ content \in Seq(Content)
    /\ op = "echo" => Len(content) = ClusterAmount(EchoSize)

LEMMA TypedIsCommand ==
    ASSUME ShellInv, NEW s \in Shells, NEW op \in COMMANDS,
           NEW at, NEW paths, NEW content, Typed(op, at, paths, content)
    PROVE  Line(s, op, at, paths, content) \in Commands
<1> DEFINE line == Line(s, op, at, paths, content)
<1>1. Head(paths) \in Path /\ Tail(paths) \in Seq(Path) /\ Len(Tail(paths)) = Len(paths) - 1
    BY HeadTailProperties, EmptySeq DEF Typed
<1>2. current_parent_cluster(dir_stack[s]) \in Aside
    BY WorkingDirectoryIsAside DEF ShellInv
<1>3. EchoSize \in Nat /\ CLUSTER_SIZE \in Nat
    BY ShellConstants
<1>5. at = "search" => op \in {"cat", "cp", "rm", "rmdir", "mv", "echo"}
    BY ShellConstants DEF Typed
<1>6. line \in Command
    <2>1. at \in {"search", "enter", "make", "made", "read", "write", "delete", "move"}
        BY Zenon DEF Typed
    <2>4. <<>> \in Seq(Place) /\ 0 \in Int
        BY EmptySeq
    <2>2. (IF op = "echo" THEN EchoSize ELSE CLUSTER_SIZE) \in Nat
        BY <1>3
    <2> QED
        BY <1>1, <1>2, <2>1, <2>2, <2>4, Zenon DEF Line, Command, Typed
<1>7. Ready(line)
    <2>1. /\ line.op = op /\ line.at = at /\ line.more = Tail(paths) /\ line.found = <<>>
          /\ line.size = IF op = "echo" THEN EchoSize ELSE CLUSTER_SIZE
          /\ line.content = content
        BY DEF Line
    <2> HIDE DEF line
    <2>2. Len(<<>>) = 0 /\ 2 - 1 = 1 /\ 0 + 1 = 1
        OBVIOUS
    <2>3. line.op = "mv" => Len(line.found) + Len(line.more) = 1
        <3>1. op = "mv" => Len(paths) = 2
            BY DEF Typed
        <3>2. op = "mv" => Len(Tail(paths)) = 1
            BY <1>1, <2>2, <3>1
        <3> QED
            BY ONLY <2>1, <2>2, <3>2
    <2>4. at \notin {"read", "write", "delete", "move"}
        BY DEF Typed
    <2>5. op = "echo" => Len(content) = ClusterAmount(EchoSize)
        BY DEF Typed
    <2> QED
        BY <1>5, <2>1, <2>3, <2>4, <2>5 DEF Ready
<1> QED
    BY <1>6, <1>7 DEF Commands

LEMMA EnterKeeps ==
    ASSUME ShellInv, NEW s \in Shells, Enter(s)
    PROVE  ShellInv'
<1>1. ASSUME NEW op, NEW at, NEW paths, NEW content,
             Types(s, op, at, paths, content), Typed(op, at, paths, content)
      PROVE  ShellInv'
    <2>1. op \in COMMANDS /\ Continue(s, Line(s, op, at, paths, content))
        BY <1>1 DEF Types, Continue
    <2>2. Line(s, op, at, paths, content) \in Commands
        BY <1>1, <2>1, TypedIsCommand
    <2> QED
        BY <2>1, <2>2, CommandGoesOn DEF Enter
<1>2. PathsTo(Folders \cup {Up}) \subseteq Path /\ PathsTo(Folders) \subseteq Path
      /\ PathsTo(Files) \subseteq Path /\ NewFolders \subseteq Path
    BY PathsAre
<1>3. \A path \in Path : <<path>> \in Seq(Path) /\ <<path>> # <<>>
    OBVIOUS
<1>4. <<>> \in Seq(Content)
    BY EmptySeq
<1>5. CASE \E path \in PathsTo(Folders \cup {Up}) : Types(s, "cd", "enter", <<path>>, <<>>)
    <2>1. \A path \in Path : Typed("cd", "enter", <<path>>, <<>>)
        BY <1>3, <1>4 DEF Typed
    <2> QED
        BY <1>1, <1>2, <1>5, <2>1
<1>6. CASE \E path \in NewFolders : Types(s, "mkdir", "make", <<path>>, <<>>)
    <2>1. \A path \in Path : Typed("mkdir", "make", <<path>>, <<>>)
        BY <1>3, <1>4 DEF Typed
    <2> QED
        BY <1>1, <1>2, <1>6, <2>1
<1>7. CASE \E path \in PathsTo(Folders) : Types(s, "rmdir", "search", <<path>>, <<>>)
    <2>1. \A path \in Path : Typed("rmdir", "search", <<path>>, <<>>)
        BY <1>3, <1>4 DEF Typed
    <2> QED
        BY <1>1, <1>2, <1>7, <2>1
<1>8. CASE \E op \in {"cat", "rm"}, path \in PathsTo(Files) :
              Types(s, op, "search", <<path>>, <<>>)
    <2>1. \A op \in {"cat", "rm"}, path \in Path : Typed(op, "search", <<path>>, <<>>)
        BY <1>3, <1>4 DEF Typed
    <2> QED
        BY <1>1, <1>2, <1>8, <2>1
<1>9. CASE \E op \in {"cp", "mv"}, from \in PathsTo(Files), to \in PathsTo(Files) :
              Types(s, op, "search", <<from, to>>, <<>>)
    <2>1. PICK op \in {"cp", "mv"}, from \in Path, to \in Path :
              Types(s, op, "search", <<from, to>>, <<>>)
        BY <1>2, <1>9
    <2>2. <<from, to>> \in Seq(Path) /\ Len(<<from, to>>) = 2 /\ <<from, to>> # <<>>
        OBVIOUS
    <2>3. Typed(op, "search", <<from, to>>, <<>>)
        BY <1>4, <2>1, <2>2 DEF Typed
    <2> QED
        BY <1>1, <2>1, <2>3
<1>10. CASE \E path \in PathsTo(Files), tag \in Tags :
              Types(s, "echo", "search", <<path>>, Buffer(tag, EchoSize))
    <2>1. PICK path \in Path, tag \in Tags :
              Types(s, "echo", "search", <<path>>, Buffer(tag, EchoSize))
        BY <1>2, <1>10
    <2>2. Buffer(tag, EchoSize) \in Seq(Content)
          /\ Len(Buffer(tag, EchoSize)) = ClusterAmount(EchoSize)
        BY AmountIsPositive, BufferIsContent, ShellConstants
    <2>3. Typed("echo", "search", <<path>>, Buffer(tag, EchoSize))
        BY <1>3, <2>2 DEF Typed
    <2> QED
        BY <1>1, <2>1, <2>3
<1> QED
    BY <1>5, <1>6, <1>7, <1>8, <1>9, <1>10 DEF Enter
-----------------------------------------------------------------------------
(* Steps that only read *)

\* The first of some entries of a table leads where a directory may be.
LEMMA FirstLeadsAside ==
    ASSUME NEW table \in TableType, NEW some \in SUBSET Index, some # {}
    PROVE  table[FirstIndex(some)].cluster \in Aside
<1>1. FirstIndex(some) \in Index
    BY Constants, FirstIsMember
<1> QED
    BY <1>1 DEF TableType, SafeEntry, Entry, Aside

\* The call a command makes once all its places are found.
LEMMA FirstCalls ==
    /\ FirstCall["cat"] = "read" /\ FirstCall["cp"] = "read"
    /\ FirstCall["rm"] = "delete" /\ FirstCall["rmdir"] = "delete"
    /\ FirstCall["mv"] = "move" /\ FirstCall["echo"] = "write"
BY DEF FirstCall

LEMMA LookUpKeeps ==
    ASSUME ShellInv, NEW s \in Shells, LookUp(s)
    PROVE  ShellInv'
<1> DEFINE c == cmd[s]
           component == Head(c.todo)
           found == Found(TableAt(c.dir), component.name, component.ext)
           place == [dir |-> c.dir, name |-> component.name, ext |-> component.ext]
           deeper == [c EXCEPT !.todo = Tail(c.todo),
                               !.dir = TableAt(c.dir)[FirstIndex(found)].cluster]
           ready == [c EXCEPT !.found = Append(@, place), !.at = FirstCall[c.op]]
           other == [c EXCEPT !.found = Append(@, place),
                              !.todo = Head(c.more), !.more = Tail(c.more),
                              !.dir = current_parent_cluster(dir_stack[s])]
<1>1. c \in Command /\ Ready(c) /\ c.at = "search"
    BY CommandRuns DEF LookUp, Running
<1>2. /\ c.dir \in Aside /\ c.todo \in Path /\ c.found \in Seq(Place)
      /\ c.more \in Seq(Path) /\ c.op \in {"cat", "cp", "rm", "rmdir", "mv", "echo"}
      /\ c.dir \in Cluster
    BY <1>1 DEF Command, Ready, Aside
<1>3. TableAt(c.dir) \in TableType
    BY <1>2, TableIsTable DEF ShellInv
<1>4. /\ place \in Place
      /\ Append(c.found, place) \in Seq(Place) /\ Append(c.found, place) # <<>>
      /\ Len(Append(c.found, place)) = Len(c.found) + 1
    <2>1. component \in Component
        BY <1>2, PathParts
    <2>2. place \in Place
        BY <1>2, <2>1 DEF Component, Place
    <2> HIDE DEF place
    <2> QED
        BY ONLY <1>2, <2>2, AppendProperties
<1>5. CASE Len(c.todo) > 1 /\ found # {} /\ Continue(s, deeper)
    <2>1. Tail(c.todo) \in Path
        <3>1. Len(c.todo) # 1
            <4>1. \A n : n > 1 => n # 1
                <5>1. ~(1 > 1)
                    OBVIOUS
                <5> QED
                    BY <5>1, Zenon
            <4> QED
                BY <1>5, <4>1, Zenon
        <3> QED
            BY ONLY <1>2, <3>1, PathParts
    <2>2. TableAt(c.dir)[FirstIndex(found)].cluster \in Aside
        BY <1>3, <1>5, FirstLeadsAside DEF Found
    <2>3. deeper \in Command
        BY <1>1, <2>1, <2>2 DEF Command
    <2>4. Ready(deeper)
        BY <1>1 DEF Ready, Command
    <2> QED
        BY <1>5, <2>3, <2>4, CommandGoesOn DEF LookUp, Commands
<1>6. CASE c.more = <<>> /\ Continue(s, ready)
    <2>1. FirstCall[c.op] \in {"read", "write", "delete", "move"}
        BY <1>2, FirstCalls
    <2>2. ready \in Command
        BY <1>1, <1>4, <2>1 DEF Command
    <2>3. /\ ready.at = FirstCall[c.op] /\ ready.op = c.op /\ ready.size = c.size
          /\ ready.content = c.content /\ ready.found = Append(c.found, place)
        BY <1>1 DEF Command
    <2>4. /\ ready.at = "read" => c.size = CLUSTER_SIZE
          /\ ready.at = "write" => /\ c.size = EchoSize
                                   /\ Len(c.content) = ClusterAmount(EchoSize)
        BY <1>1, <1>2, <2>3, FirstCalls DEF Ready
    <2>5. ready.at = "move" => Len(c.found) + 1 = 2
        <3>1. ready.at = "move" => Len(c.found) + Len(c.more) = 1
            BY <1>1, <1>2, <2>3, FirstCalls DEF Ready
        <3>2. Len(c.more) = 0 /\ Len(c.found) \in Nat
            BY <1>2, <1>6
        <3>3. \A n \in Nat : n + 0 = 1 => n + 1 = 2
            OBVIOUS
        <3> QED
            BY <3>1, <3>2, <3>3
    <2> HIDE DEF ready, place
    <2>6. Ready(ready)
        BY <1>4, <2>1, <2>3, <2>4, <2>5, BufferSizes, ShellConstants DEF Ready
    <2> QED
        BY <1>6, <2>2, <2>6, CommandGoesOn DEF LookUp, Commands
<1>7. CASE c.more # <<>> /\ Continue(s, other)
    <2>1. Head(c.more) \in Path /\ Tail(c.more) \in Seq(Path)
          /\ Len(Tail(c.more)) = Len(c.more) - 1
        BY <1>2, <1>7, HeadTailProperties
    <2>2. current_parent_cluster(dir_stack[s]) \in Aside
        BY WorkingDirectoryIsAside DEF ShellInv
    <2>3. other \in Command
        BY <1>1, <1>4, <2>1, <2>2 DEF Command
    <2>4. /\ other.at = "search" /\ other.op = c.op /\ other.size = c.size
          /\ other.content = c.content /\ other.found = Append(c.found, place)
          /\ other.more = Tail(c.more)
        BY <1>1 DEF Command
    <2> HIDE DEF other, place
    <2>5. Len(other.found) + Len(other.more) = Len(c.found) + Len(c.more)
        <3>1. Len(c.found) \in Nat /\ Len(c.more) \in Nat
            BY <1>2
        <3>2. \A m, n \in Nat : (m + 1) + (n - 1) = m + n
            OBVIOUS
        <3>3. Len(other.found) = Len(c.found) + 1 /\ Len(other.more) = Len(c.more) - 1
            BY <1>4, <2>1, <2>4
        <3> QED
            BY ONLY <3>1, <3>2, <3>3
    <2>6. Ready(other)
        BY <1>1, <2>4, <2>5 DEF Ready
    <2> QED
        BY <1>7, <2>3, <2>6, CommandGoesOn DEF LookUp, Commands
<1>8. CASE Finish(s)
    BY <1>8, CommandGoesOn DEF LookUp, Finish, Commands
<1>9. \/ Len(c.todo) > 1 /\ found # {} /\ Continue(s, deeper)
      \/ c.more = <<>> /\ Continue(s, ready)
      \/ c.more # <<>> /\ Continue(s, other)
      \/ Finish(s)
    BY DEF LookUp
<1> QED
    BY <1>5, <1>6, <1>7, <1>8, <1>9

\* Whatever handle_cd searches is a table.
LEMMA SearchedAreTables ==
    ASSUME ShellInv, NEW stack \in Stacks, NEW table \in Searched(stack)
    PROVE  table \in TableType
<1> DEFINE parent == prev_parent_cluster(stack)
           named == FolderNamed(parent, last_dir(stack))
<1>1. IInv /\ parent \in Cluster
    BY WorkingDirectoryIsAside DEF ShellInv, Aside
<1>2. CASE table \in read_directory(parent, last_dir(stack))
    <2>1. named # {} /\ named \subseteq Index
          /\ table = TableAt(TableAt(parent)[FirstIndex(named)].cluster)
        BY <1>2 DEF read_directory, FolderNamed
    <2>2. TableAt(parent)[FirstIndex(named)].cluster \in Cluster
        BY <1>1, <2>1, FirstLeadsAside, TableIsTable DEF Aside
    <2> QED
        BY <1>1, <2>1, <2>2, TableIsTable
<1>3. CASE table = AsTable(Blank)
    BY <1>3, ReadAsTable, ContentKinds
<1>4. CASE \E d \in Directories : table = TableAt(d)
    BY <1>1, <1>4, DirectoryIsTable
<1> QED
    BY <1>2, <1>3, <1>4 DEF Searched

LEMMA EnterDirectoryKeeps ==
    ASSUME ShellInv, NEW s \in Shells, EnterDirectory(s)
    PROVE  ShellInv'
<1> DEFINE c == cmd[s]
           stack == dir_stack[s]
           name == Head(c.todo).name
           rest == IF Len(c.todo) = 1 THEN Prompt ELSE [c EXCEPT !.todo = Tail(@)]
           entry(table) == [name |-> name,
               cluster |-> table[FirstIndex(ChildFolders(table, name))].cluster]
<1>1. c \in Command /\ c.at = "enter" /\ c.todo \in Path /\ stack \in Stacks
    <2>1. c \in Command /\ c.at = "enter"
        BY CommandRuns DEF EnterDirectory, Running
    <2> QED
        BY <2>1 DEF Command, ShellInv
<1>2. rest \in Commands
    <2>1. CASE Len(c.todo) = 1
        BY <2>1 DEF Commands
    <2>2. CASE Len(c.todo) # 1
        <3>1. Tail(c.todo) \in Path
            BY <1>1, <2>2, PathParts
        <3>2. rest \in Command /\ rest.at = "enter"
            BY <1>1, <2>2, <3>1 DEF Command
        <3>3. Ready(rest)
            BY <3>2 DEF Ready
        <3> QED
            BY <3>2, <3>3 DEF Commands
    <2> QED
        BY <2>1, <2>2
<1>3. name \in EntryName
    <2>1. Head(c.todo) \in Component
        BY <1>1, PathParts
    <2> QED
        BY <2>1 DEF Component, EntryName
<1>4. CASE Finish(s) /\ UNCHANGED dir_stack
    BY <1>4, CommandGoesOn DEF EnterDirectory, Finish, Commands
<1>5. CASE /\ last_dir(stack) # RootName /\ Continue(s, rest)
           /\ dir_stack' = [dir_stack EXCEPT ![s] = pop_dir(stack)]
    <2>1. pop_dir(stack) \in Stacks
        BY <1>1, <1>5, StackAfterPop
    <2> QED
        BY <1>2, <1>5, <2>1, StepWithoutCall DEF EnterDirectory
<1>6. ASSUME NEW table \in Searched(stack), ChildFolders(table, name) # {},
             Continue(s, rest),
             dir_stack' = [dir_stack EXCEPT ![s] = push_dir(stack, entry(table))]
      PROVE  ShellInv'
    <2>1. table \in TableType
        BY <1>1, SearchedAreTables
    <2>2. ChildFolders(table, name) \subseteq Index
        BY Constants DEF ChildFolders, Shown
    <2>3. entry(table) \in StackEntry
        BY <1>3, <1>6, <2>1, <2>2, FirstLeadsAside DEF StackEntry
    <2>4. push_dir(stack, entry(table)) \in Stacks
        BY <1>1, <2>3, StackAfterPush
    <2> QED
        BY <1>2, <1>6, <2>4, StepWithoutCall DEF EnterDirectory
<1>7. \/ Finish(s) /\ UNCHANGED dir_stack
      \/ /\ last_dir(stack) # RootName /\ Continue(s, rest)
         /\ dir_stack' = [dir_stack EXCEPT ![s] = pop_dir(stack)]
      \/ \E table \in Searched(stack) :
            /\ ChildFolders(table, name) # {} /\ Continue(s, rest)
            /\ dir_stack' = [dir_stack EXCEPT ![s] = push_dir(stack, entry(table))]
    <2> HIDE DEF rest
    <2> QED
        BY DEF EnterDirectory, rest
<1> QED
    BY <1>4, <1>5, <1>6, <1>7
LEMMA MadeDirectoryKeeps ==
    ASSUME ShellInv, NEW s \in Shells, MadeDirectory(s)
    PROVE  ShellInv'
<1> DEFINE c == cmd[s]
           table == TableAt(c.dir)
           named == {i \in Shown(table) : table[i].name = Head(c.todo).name}
           dir == IF named = {} THEN c.dir ELSE table[FirstIndex(named)].cluster
           next == [c EXCEPT !.at = "make", !.dir = dir, !.todo = Tail(@)]
<1>1. c \in Command /\ c.dir \in Aside /\ c.dir \in Cluster /\ c.todo \in Path
    <2>1. c \in Command
        BY CommandRuns DEF MadeDirectory, Running
    <2> QED
        BY <2>1 DEF Command, Aside
<1>2. dir \in Aside
    <2>1. named \subseteq Index
        BY Constants DEF Shown
    <2>2. table \in TableType
        BY <1>1, TableIsTable DEF ShellInv
    <2> QED
        BY <1>1, <2>1, <2>2, FirstLeadsAside
<1>3. CASE Finish(s)
    BY <1>3, CommandGoesOn DEF MadeDirectory, Finish, Commands
<1>4. CASE Len(c.todo) # 1 /\ Continue(s, next)
    <2>1. Tail(c.todo) \in Path
        BY <1>1, <1>4, PathParts
    <2> HIDE DEF dir
    <2>2. next \in Command /\ next.at = "make"
        BY <1>1, <1>2, <2>1 DEF Command
    <2>3. Ready(next)
        BY <2>2 DEF Ready
    <2> QED
        BY <1>4, <2>2, <2>3, CommandGoesOn DEF MadeDirectory, Commands
<1>5. Finish(s) \/ (Len(c.todo) # 1 /\ Continue(s, next))
    BY DEF MadeDirectory
<1> QED
    BY <1>3, <1>4, <1>5

\* What a reading command remembers of the entry it found.
LEMMA SourceFound ==
    ASSUME ShellInv, NEW s \in Shells, cmd[s].at \in {"read", "write", "delete"}
    PROVE  /\ cmd[s].found \in Seq(Place) /\ cmd[s].found # <<>>
           /\ cmd[s].found[1] \in Place /\ Last(cmd[s].found) \in Place
<1>1. cmd[s].found \in Seq(Place) /\ cmd[s].found # <<>>
    BY CommandRuns DEF Command, Ready
<1>2. /\ Len(cmd[s].found) \in 1 .. Len(cmd[s].found)
      /\ 1 \in 1 .. Len(cmd[s].found)
    <2>1. Len(cmd[s].found) \in Nat /\ Len(cmd[s].found) # 0
        BY <1>1, EmptySeq
    <2>2. \A n \in Nat : n # 0 => 1 \in 1 .. n /\ n \in 1 .. n
        OBVIOUS
    <2> QED
        BY <2>1, <2>2
<1> QED
    BY <1>1, <1>2, ElementOfSeq DEF Last

\* A reading command gets a larger buffer, gives up, or goes on.
LEMMA ReadFoundKeeps ==
    ASSUME ShellInv, NEW s \in Shells, NEW op, NEW goOn,
           ReadFound(s, op, goOn),
           ReadCode(cmd[s].found[1].dir, cmd[s].found[1].name,
                    cmd[s].found[1].ext, cmd[s].size) = 0 => goOn \in Commands
    PROVE  ShellInv'
<1> DEFINE c == cmd[s]
           from == c.found[1]
           code == ReadCode(from.dir, from.name, from.ext, c.size)
           larger == [c EXCEPT !.size = @ + CLUSTER_SIZE]
<1>1. c \in Command /\ Ready(c) /\ c.at = "read" /\ c.op = op /\ c.size \in Nat
    <2>1. c \in Command /\ Ready(c) /\ c.at = "read" /\ c.op = op
        BY CommandRuns DEF ReadFound, Running
    <2> QED
        BY <2>1 DEF Command
<1>2. from \in Place
    BY <1>1, SourceFound
<1>3. CASE code = 0 /\ Continue(s, goOn)
    BY <1>3, CommandGoesOn DEF ReadFound
<1>4. CASE code = 2 /\ Continue(s, larger)
    <2>1. PICK size \in FileSizes \cup {0} : c.size < size
        <3> DEFINE files == Readable(from.dir, from.name, from.ext)
                   table == TableAt(from.dir)
        <3>1. files # {} /\ c.size < table[FirstIndex(files)].filesize
            BY <1>4 DEF ReadCode
        <3>2. table \in TableType /\ files \subseteq Index /\ Index \subseteq Nat
            BY <1>2, TableIsTable, Constants DEF ShellInv, Place, Aside, Readable, Found
        <3>3. FirstIndex(files) \in Index
            BY <3>1, <3>2, FirstIsMember
        <3>4. table[FirstIndex(files)].filesize \in FileSizes \cup {0}
            BY <3>2, <3>3 DEF TableType, SafeEntry, Entry
        <3> QED
            BY <3>1, <3>4
    <2>2. c.size + CLUSTER_SIZE \in Nat
        BY <1>1, ShellConstants
    <2>3. c.op = "cp" => c.size + CLUSTER_SIZE \in BufferSize
        BY <1>1, <2>1, BufferSizes DEF Ready
    <2>4. /\ larger \in Command /\ larger.at = "read" /\ larger.op = c.op
          /\ larger.found = c.found /\ larger.size = c.size + CLUSTER_SIZE
        BY <1>1, <2>2 DEF Command
    <2>5. Ready(larger)
        BY <1>1, <2>3, <2>4 DEF Ready
    <2> QED
        BY <1>4, <2>4, <2>5, CommandGoesOn DEF ReadFound, Commands
<1>5. CASE Finish(s)
    BY <1>5, CommandGoesOn DEF ReadFound, Finish, Commands
<1>6. \/ code = 0 /\ Continue(s, goOn)
      \/ code = 2 /\ Continue(s, larger)
      \/ Finish(s)
    BY DEF ReadFound
<1> QED
    BY <1>3, <1>4, <1>5, <1>6

LEMMA ShowSourceKeeps ==
    ASSUME ShellInv, NEW s \in Shells, ShowSource(s)
    PROVE  ShellInv'
BY ReadFoundKeeps DEF ShowSource, Commands

LEMMA ReadSourceKeeps ==
    ASSUME ShellInv, NEW s \in Shells, ReadSource(s)
    PROVE  ShellInv'
<1> DEFINE c == cmd[s]
           blocks == read(c.found[1].dir, c.found[1].name, c.found[1].ext)
           copy == [j \in 1 .. ClusterAmount(c.size) |->
                       IF j \in DOMAIN blocks THEN blocks[j] ELSE Blank]
           next == [c EXCEPT !.at = "write", !.content = copy]
<1>1. /\ c \in Command /\ Ready(c) /\ c.at = "read" /\ c.op = "cp"
      /\ ReadFound(s, "cp", next)
    BY CommandRuns DEF ReadSource, ReadFound, Running
<1>2. /\ c.op \in COMMANDS /\ c.size \in BufferSize
      /\ c.size \in FileSizes /\ ClusterAmount(c.size) \in Nat
    <2>1. c.op \in COMMANDS /\ c.size \in BufferSize
        BY <1>1 DEF Command, Ready
    <2>2. c.size \in FileSizes
        BY <1>1, <2>1, BufferSizes
    <2> QED
        BY <2>1, <2>2, AmountIsPositive
<1>3. copy \in Seq(Content) /\ Len(copy) = ClusterAmount(c.size)
    <2>1. \A j \in DOMAIN blocks : blocks[j] \in Content
        BY ContentKinds DEF read, BlockOn, ShellInv, IInv
    <2>2. copy \in [1 .. ClusterAmount(c.size) -> Content]
        BY <2>1, ContentKinds
    <2> HIDE DEF copy
    <2> QED
        BY <1>2, <2>2
<1>4. next \in Commands
    <2> HIDE DEF copy
    <2>1. /\ next \in Command /\ next.at = "write" /\ next.found = c.found
          /\ next.size = c.size /\ next.content = copy
        BY <1>1, <1>3 DEF Command
    <2>2. Ready(next)
        BY <1>1, <1>2, <1>3, <2>1 DEF Ready
    <2> QED
        BY <2>1, <2>2 DEF Commands
<1> QED
    BY <1>1, <1>4, ReadFoundKeeps

-----------------------------------------------------------------------------
(* Steps that change the disk *)

LEMMA MakeDirectoryKeeps ==
    ASSUME ShellInv, NEW s \in Shells, MakeDirectory(s)
    PROVE  ShellInv'
<1> DEFINE c == cmd[s]
           name == Head(c.todo).name
           code == WriteCode(c.dir, name, NoExt, TRUE, 1)
           next == [c EXCEPT !.at = "made", !.code = code]
<1>1. /\ c \in Command /\ c.dir \in Aside /\ c.todo \in Path /\ Idle
      /\ Continue(s, next) /\ UNCHANGED dir_stack
    <2>1. c \in Command
        BY CommandRuns DEF MakeDirectory, Running
    <2> QED
        BY <2>1 DEF Command, MakeDirectory, Running
<1>2. name \in EntryName
    <2>1. Head(c.todo) \in Component
        BY <1>1, PathParts
    <2> QED
        BY <2>1 DEF Component, EntryName
<1>3. next \in Commands
    <2>1. code \in Int
        BY DEF WriteCode
    <2> HIDE DEF code
    <2>2. next \in Command /\ next.at = "made"
        BY <1>1, <2>1 DEF Command
    <2>3. Ready(next)
        BY <2>2 DEF Ready
    <2> QED
        BY <2>2, <2>3 DEF Commands
<1>4. IInv'
    <2>1. CASE UNCHANGED vars
        BY <2>1 DEF ShellInv, vars, IInv, OnDisk
    <2>2. CASE \E residue \in Residue : write_folder(c.dir, name, NoExt, residue)
        BY <1>1, <1>2, <2>2, FolderKeeps DEF ShellInv
    <2>3. \/ UNCHANGED vars
          \/ \E residue \in Residue : write_folder(c.dir, name, NoExt, residue)
        BY DEF MakeDirectory, FolderResidue
    <2> QED
        BY <2>1, <2>2, <2>3
<1> QED
    BY <1>1, <1>3, <1>4 DEF ShellInv, Continue

\* A place is one for the driver's calls.
LEMMA PlaceParts ==
    ASSUME NEW place \in Place
    PROVE  place.dir \in Aside /\ place.name \in EntryName /\ place.ext \in EntryExt
BY DEF Place, EntryName

LEMMA WriteTargetKeeps ==
    ASSUME ShellInv, NEW s \in Shells, WriteTarget(s)
    PROVE  ShellInv'
<1> DEFINE c == cmd[s]
           to == Last(c.found)
<1>1. /\ c \in Command /\ Ready(c) /\ c.at = "write"
      /\ Idle /\ Finish(s) /\ UNCHANGED dir_stack
    BY CommandRuns DEF WriteTarget, Running
<1>2. /\ to.dir \in Aside /\ to.name \in EntryName /\ to.ext \in EntryExt
    BY <1>1, SourceFound, PlaceParts
<1>3. c.size \in FileSizes /\ c.content \in [1 .. ClusterAmount(c.size) -> Content]
    <2>1. c.size \in FileSizes /\ Len(c.content) = ClusterAmount(c.size)
          /\ c.content \in Seq(Content)
        BY <1>1 DEF Ready, Command
    <2>2. c.content \in [1 .. Len(c.content) -> Content]
        BY <2>1
    <2> QED
        BY <2>1, <2>2
<1>4. IInv'
    <2>1. CASE UNCHANGED vars
        BY <2>1 DEF ShellInv, vars, IInv, OnDisk
    <2>2. CASE write_file(to.dir, to.name, to.ext, c.size, c.content)
        BY <1>1, <1>2, <1>3, <2>2, WriteKeeps DEF ShellInv
    <2> QED
        BY <2>1, <2>2 DEF WriteTarget
<1> QED
    BY <1>1, <1>4, CommandIsOver

LEMMA DeleteFoundKeeps ==
    ASSUME ShellInv, NEW s \in Shells, DeleteFound(s)
    PROVE  ShellInv'
<1> DEFINE at == cmd[s].found[1]
<1>1. Idle /\ cmd[s].at = "delete" /\ Finish(s) /\ UNCHANGED dir_stack
    BY DEF DeleteFound, Running
<1>2. at.dir \in Aside
    BY <1>1, SourceFound, PlaceParts
<1>3. IInv'
    <2>1. CASE UNCHANGED vars
        BY <2>1 DEF ShellInv, vars, IInv, OnDisk
    <2>2. CASE delete(at.dir, at.name, at.ext)
        BY <1>1, <1>2, <2>2, DeletionKeeps DEF ShellInv
    <2> QED
        BY <2>1, <2>2 DEF DeleteFound
<1> QED
    BY <1>1, <1>3, CommandIsOver

LEMMA MoveFoundKeeps ==
    ASSUME ShellInv, NEW s \in Shells, MoveFound(s)
    PROVE  ShellInv'
<1> DEFINE from == cmd[s].found[1]
           to == cmd[s].found[2]
<1>1. Idle /\ cmd[s].at = "move" /\ Finish(s) /\ UNCHANGED dir_stack
    BY DEF MoveFound, Running
<1>2. /\ from.dir \in Aside
      /\ to.dir \in Aside /\ to.name \in EntryName /\ to.ext \in EntryExt
    <2>1. cmd[s].found \in Seq(Place) /\ Len(cmd[s].found) = 2
        BY <1>1, CommandRuns DEF Command, Ready
    <2>2. 1 \in 1 .. 2 /\ 2 \in 1 .. 2
        OBVIOUS
    <2>3. from \in Place /\ to \in Place
        BY <2>1, <2>2, ElementOfSeq
    <2> QED
        BY <2>3, PlaceParts
<1>3. IInv'
    <2>1. CASE UNCHANGED vars
        BY <2>1 DEF ShellInv, vars, IInv, OnDisk
    <2>2. CASE move(from.dir, from.name, from.ext, to.dir, to.name, to.ext)
        BY <1>1, <1>2, <2>2, EntryMoveKeeps DEF ShellInv
    <2> QED
        BY <2>1, <2>2 DEF MoveFound
<1> QED
    BY <1>1, <1>3, CommandIsOver

LEMMA InstallKeeps ==
    ASSUME ShellInv, Install
    PROVE  ShellInv'
<1>1. PICK tag \in Tags : write_file(ROOT_CLUSTER_NUMBER, Program, NoExt, ProgramSize,
                                     Buffer(tag, ProgramSize))
    BY DEF Install
<1>2. Program \in EntryName /\ NoExt \in EntryExt /\ ProgramSize \in FileSizes
    BY ShellConstants DEF EntryName, EntryExt
<1>3. IInv'
    BY <1>1, <1>2, RootIsAside, BufferIsContent, WriteKeeps DEF ShellInv, Install
<1> QED
    BY <1>3 DEF ShellInv, Install

LEMMA DiskKeeps ==
    ASSUME ShellInv, Disk
    PROVE  ShellInv'
BY ClusterWrittenKeeps DEF ShellInv, Disk

-----------------------------------------------------------------------------
(* The theorems *)

LEMMA ShellInitKeeps == ShellInit => ShellInv
<1> SUFFICES ASSUME ShellInit PROVE ShellInv
    OBVIOUS
<1>1. IInv
    BY InitKeeps DEF ShellInit
<1>2. RootEntry \in StackEntry
    BY RootIsAside DEF RootEntry, StackEntry, EntryName
<1>3. <<RootEntry>> \in Stacks
    <2>1. \A entry \in StackEntry : <<entry>> \in Seq(StackEntry) /\ Len(<<entry>>) = 1
        OBVIOUS
    <2>2. 1 < MAX_DIR_LENGTH
        BY ShellConstants
    <2> QED
        BY <1>2, <2>1, <2>2 DEF Stacks
<1> QED
    BY <1>1, <1>3 DEF ShellInit, ShellInv, Commands

LEMMA ShellStepKeeps == ShellInv /\ [ShellNext]_shellVars => ShellInv'
<1> SUFFICES ASSUME ShellInv, [ShellNext]_shellVars PROVE ShellInv'
    OBVIOUS
<1>1. CASE Install
    BY <1>1, InstallKeeps
<1>2. CASE Disk
    BY <1>2, DiskKeeps
<1>3. ASSUME NEW s \in Shells, Enter(s) PROVE ShellInv'
    BY <1>3, EnterKeeps
<1>4. ASSUME NEW s \in Shells, Step(s) PROVE ShellInv'
    BY <1>4, LookUpKeeps, EnterDirectoryKeeps, MakeDirectoryKeeps, MadeDirectoryKeeps,
       ShowSourceKeeps, ReadSourceKeeps, WriteTargetKeeps, DeleteFoundKeeps,
       MoveFoundKeeps DEF Step
<1>5. CASE UNCHANGED shellVars
    BY <1>5 DEF shellVars, ShellInv, vars, IInv, OnDisk
<1> QED
    BY <1>1, <1>2, <1>3, <1>4, <1>5 DEF ShellNext

\* Whatever users type into any number of shells, in whatever order their calls
\* come, with folders removed under a shell and with stacks that wrapped: no shell
\* comes to remember the allocation table as a directory, or a cluster off the disk,
\* and no stack is longer than its length can say.
THEOREM ShellTypeCorrect == ShellSpec => []ShellTypeOK
<1>1. ShellInv => ShellTypeOK
    <2> SUFFICES ASSUME ShellInv PROVE ShellTypeOK
        OBVIOUS
    <2>1. TypeOK
        BY InvariantIsType DEF ShellInv
    <2>2. ASSUME NEW s \in Shells
          PROVE  /\ Len(dir_stack[s]) < MAX_DIR_LENGTH
                 /\ \A k \in DOMAIN dir_stack[s] :
                       dir_stack[s][k].cluster \in Cluster \ {FAT_CLUSTER_NUMBER}
        <3>1. dir_stack[s] \in Stacks
            BY DEF ShellInv
        <3>2. \A k \in DOMAIN dir_stack[s] : EntryAt(dir_stack[s], k) = dir_stack[s][k]
            BY DEF EntryAt
        <3> QED
            BY <3>1, <3>2, EntryOfStack DEF Stacks, Aside
    <2>3. ASSUME NEW s \in Shells
          PROVE  /\ cmd[s].at \in {"prompt", "search", "enter", "make", "made",
                                   "read", "write", "delete", "move"}
                 /\ cmd[s] # Prompt => cmd[s].dir \in Cluster \ {FAT_CLUSTER_NUMBER}
        <3>1. CASE cmd[s] = Prompt
            BY <3>1 DEF Prompt
        <3>2. CASE cmd[s] \in Command
            BY <3>2 DEF Command, Aside
        <3> QED
            BY <3>1, <3>2 DEF ShellInv, Commands
    <2> QED
        BY <2>1, <2>2, <2>3 DEF ShellTypeOK
<1> QED
    BY <1>1, ShellInitKeeps, ShellStepKeeps, PTL DEF ShellSpec

\* However the calls of the shells follow one another, between two of them the
\* allocation table in memory is the one on the disk.
THEOREM ShellsMemoryIsDisk == ShellSpec => []MapIsOnDisk
<1>1. ShellInv => MapIsOnDisk
    BY DEF ShellInv, IInv, MapIsOnDisk, Idle, WritesFat
<1> QED
    BY <1>1, ShellInitKeeps, ShellStepKeeps, PTL DEF ShellSpec

-----------------------------------------------------------------------------
(***************************************************************************)
(* What careful users of the shells can rely on: working directories that  *)
(* exist, a cd and an ls that look at the same directory, a find that      *)
(* tells the truth, copies of one version and files that stay whole, for   *)
(* every size of disk, cluster and table, all names and contents.          *)
(*                                                                         *)
(* The invariant (CarefulInv) says of the disk that names tell what an     *)
(* entry is and where a table stands (Tidy), and of every command how what *)
(* it has in hand relates to that disk (CommandFits).  This part goes      *)
(* from paths and where they lead, over what the kinds of calls change     *)
(* (FilesChange, FolderComes, FolderGoes), to one lemma per step of a      *)
(* shell, and ends with the theorems.                                      *)
(***************************************************************************)

-----------------------------------------------------------------------------
(* Careful users *)

OneShell == \A s, t \in Shells : s = t

\* Users as the shell is meant for, who call nothing like a table's own entries.
\* Nobody goes deeper than his stack can count, of which push_dir takes no notice.
\* Where there are several shells nobody removes a folder, which another shell may
\* be in or on its way to, and nobody leaves the root, so that what a user knows of
\* the folders on his path when he types it is still so when it is followed.
CarefulUsers ==
    /\ CAREFUL
    /\ Names \cap {RootName, ParentName} = {}
    /\ OneShell \/ COMMANDS \cap {"cd", "rmdir"} = {}

\* What files hold.  Another shell may shorten a file while a copy of it is made.
Texts == IF OneShell THEN WholeTexts ELSE PaddedTexts

\* The live folders of a name in a directory, and where a component leads.
FoldersOf(contents, d, name) ==
    {i \in ChildIndex : FolderAt(contents, d, i) /\ Slot(contents, d, i).name = name}

Led(contents, d, component) ==
    IF component = Up THEN {Slot(contents, d, 1).cluster}
    ELSE {Slot(contents, d, i).cluster : i \in FoldersOf(contents, d, component.name)}

AllLed(contents, dirs, component) == UNION {Led(contents, d, component) : d \in dirs}

\* Folders and files have names of their kind, in a folder's own entries are its
\* name, which is not its parent's, and its parent.  The dead entry of a folder
\* never has a file's name.
NamedSlot(contents, d, j) ==
    /\ FolderAt(contents, d, j) =>
          LET c == Slot(contents, d, j).cluster
          IN  /\ Slot(contents, d, j).name \in FolderNames
              /\ Slot(contents, c, 0).name = Slot(contents, d, j).name
              /\ Slot(contents, c, 1).cluster = d
              /\ Slot(contents, d, j).name # Slot(contents, d, 0).name
    /\ FileAt(contents, d, j) => Slot(contents, d, j).name \in FileNames
    /\ ~Slot(contents, d, j).live /\ Slot(contents, d, j).folder =>
          Slot(contents, d, j).name \notin FileNames

NamedRoot(contents) ==
    /\ Slot(contents, ROOT_CLUSTER_NUMBER, 0).folder
    /\ Slot(contents, ROOT_CLUSTER_NUMBER, 0).cluster = ROOT_CLUSTER_NUMBER
    /\ Slot(contents, ROOT_CLUSTER_NUMBER, 1).cluster = ROOT_CLUSTER_NUMBER

Named(contents, dirs) ==
    NamedRoot(contents) /\ \A d \in dirs, j \in ChildIndex : NamedSlot(contents, d, j)

\* No folder comes after one of its name, dead or alive, in the same directory.
Unhidden(contents, dirs) ==
    \A d \in dirs, j, i \in ChildIndex :
        FolderAt(contents, d, j) /\ i < j /\ Slot(contents, d, i).folder =>
            Slot(contents, d, i).name # Slot(contents, d, j).name

Tidy(contents, dirs) ==
    /\ contents \in [Cluster -> Content] /\ Good(Texts, contents, dirs)
    /\ Named(contents, dirs) /\ (OneShell => Unhidden(contents, dirs))

\* A stack is a chain of folders that are there, from the root.
StackFits(contents, dirs, stack) ==
    /\ stack # <<>> /\ stack[1] = RootEntry
    /\ \A k \in 1 .. Len(stack) : stack[k].cluster \in dirs
    /\ \A k \in 2 .. Len(stack) :
          \E i \in FoldersOf(contents, stack[k - 1].cluster, stack[k].name) :
              Slot(contents, stack[k - 1].cluster, i).cluster = stack[k].cluster
    /\ ~OneShell => stack = <<RootEntry>>

\* No folder of the name comes after an empty slot.
NoHoleBefore(contents, d, name) ==
    \A i \in FoldersOf(contents, d, name) : \A j \in 2 .. i : Slot(contents, d, j).live

\* The directories the last component of a path may be looked for in.
ToDir(contents, d, path) == IF Len(path) = 1 THEN {d} ELSE Led(contents, d, path[1])

\* What a command has in hand when it looks for its paths, depending on what it is
\* about to do with what it finds.
PathFits(contents, stack, c) ==
    /\ c.todo \in PathsTo(IF c.op = "rmdir" THEN Folders ELSE Files)
    /\ \A k \in DOMAIN c.more : c.more[k] \in PathsTo(Files)
    /\ Len(c.todo) = 2 => c.dir = current_parent_cluster(stack)
    /\ c.op \notin {"cp", "mv"} => c.more = <<>> /\ c.found = <<>>

\* rm of a folder: one the shell is not in.
IsAside(stack, d) == \A k \in 1 .. Len(stack) : stack[k].cluster # d

TargetIsAside(contents, stack, c) ==
    \E d \in AllLed(contents, ToDir(contents, c.dir, c.todo), Last(c.todo)) : IsAside(stack, d)

\* mv: from one directory to another.
Apart(contents, stack, c) ==
    /\ ToDir(contents, c.dir, c.todo) # {}
    /\ \A k \in DOMAIN c.more :
          LET to == ToDir(contents, current_parent_cluster(stack), c.more[k])
          IN  to # {} /\ ToDir(contents, c.dir, c.todo) \cap to = {}
    /\ \A k \in DOMAIN c.found : c.found[k].dir \notin ToDir(contents, c.dir, c.todo)

\* mkdir: no folder in one of its name, or after an empty slot.
NewNames(contents, c) ==
    /\ c.todo \in NewFolders
    /\ \A k \in 1 .. Len(c.todo) : c.todo[k].name # Slot(contents, c.dir, 0).name
    /\ Len(c.todo) = 2 => c.todo[1].name # c.todo[2].name

NewPlaces(contents, c) ==
    /\ Len(c.todo) = 2 =>
          \A d \in Led(contents, c.dir, c.todo[1]) : NoHoleBefore(contents, d, c.todo[2].name)
    /\ c.at = "make" => NoHoleBefore(contents, c.dir, c.todo[1].name)
    /\ c.at = "made" /\ c.code \in {0, 1} => Led(contents, c.dir, c.todo[1]) # {}

\* cp: the buffer is as long as the file, or the last one was too short.
NotTooLong(contents, c) ==
    LET from == c.found[1]
        table == AsTable(contents[from.dir])
        files == {i \in Found(table, from.name, from.ext) : ~table[i].folder}
    IN  files # {} =>
            \E n \in Nat : /\ c.size = (n + 1) * CLUSTER_SIZE
                           /\ n * CLUSTER_SIZE < table[FirstIndex(files)].filesize

IsText(content, size) ==
    \E text \in Texts : \A j \in 1 .. ClustersFor(size) : content[j] = text[j]

CommandFits(contents, dirs, stack, c) ==
    /\ c.dir \in dirs
    /\ \A k \in DOMAIN c.found :
          /\ c.found[k].dir \in dirs
          /\ c.found[k].name \in IF c.op = "rmdir" THEN FolderNames ELSE FileNames
    /\ c.at = "enter" => /\ c.op = "cd" /\ c.todo \in PathsTo(Folders \cup {Up})
                          /\ Len(stack) + Descents(c.todo) < MAX_DIR_LENGTH
    /\ c.at = "search" => PathFits(contents, stack, c)
    /\ c.at = "search" /\ c.op = "rmdir" => TargetIsAside(contents, stack, c)
    /\ c.at = "search" /\ c.op = "mv" => Apart(contents, stack, c)
    /\ c.at \in {"make", "made"} => NewNames(contents, c)
    /\ c.at \in {"make", "made"} /\ OneShell => NewPlaces(contents, c)
    /\ c.at \in {"read", "write", "move"} => c.op # "rmdir"
    /\ c.at = "delete" /\ c.op = "rmdir" =>
          \E d \in Led(contents, c.found[1].dir, Folder(c.found[1].name)) : IsAside(stack, d)
    /\ c.at = "move" => c.found[1].dir # c.found[2].dir
    /\ c.at = "read" /\ c.op = "cp" /\ OneShell => NotTooLong(contents, c)
    /\ c.at = "write" \/ (c.at = "search" /\ c.op = "echo") => IsText(c.content, c.size)

ShellFits(contents, dirs, stack, c) ==
    StackFits(contents, dirs, stack) /\ (c = Prompt \/ CommandFits(contents, dirs, stack, c))

CarefulInv ==
    /\ ShellInv /\ SoundFor(Texts)
    /\ ~installed => \A s \in Shells : cmd[s] = Prompt
    /\ \E dirs :
          /\ Tidy(Settled, dirs)
          /\ \A s \in Shells : ShellFits(Settled, dirs, dir_stack[s], cmd[s])

-----------------------------------------------------------------------------
(* Paths and where they lead *)

\* Paths of one or two components.
LEMMA Pairs ==
    ASSUME NEW b, NEW c
    PROVE  /\ <<b>> \o <<c>> = <<b, c>> /\ <<>> \o <<c>> = <<c>>
           /\ SubSeq(<<b, c>>, 1, 1) = <<b>>
<1> DEFINE T == {b, c}
<1>1. <<b>> \in Seq(T) /\ <<c>> \in Seq(T) /\ <<b, c>> \in Seq(T)
    OBVIOUS
<1>2. (\A i \in 1 .. 2 : i = 1 \/ i = 2) /\ (\A i \in 1 .. 1 : i = 1)
    OBVIOUS
<1>3. Len(<<b, c>>) = 2 /\ <<b, c>>[1] = b /\ <<b, c>>[2] = c /\ Len(<<b>>) = 1 /\ <<b>>[1] = b
    OBVIOUS
<1>4. <<b>> \o <<c>> = <<b, c>>
    <2>1. /\ Len(<<b>> \o <<c>>) = 2 /\ <<b>> \o <<c>> \in Seq(T)
          /\ (<<b>> \o <<c>>)[1] = b /\ (<<b>> \o <<c>>)[2] = c
        BY <1>1
    <2>2. \A i \in 1 .. Len(<<b>> \o <<c>>) : (<<b>> \o <<c>>)[i] = <<b, c>>[i]
        BY <1>2, <1>3, <2>1, Zenon
    <2> QED
        BY <1>1, <1>3, <2>1, <2>2, SeqEqual, Zenon
<1>5. SubSeq(<<b, c>>, 1, 1) = <<b>>
    <2>1. /\ Len(SubSeq(<<b, c>>, 1, 1)) = 1 /\ SubSeq(<<b, c>>, 1, 1) \in Seq(T)
          /\ SubSeq(<<b, c>>, 1, 1)[1] = b
        BY <1>1
    <2>2. \A i \in 1 .. Len(SubSeq(<<b, c>>, 1, 1)) : SubSeq(<<b, c>>, 1, 1)[i] = <<b>>[i]
        BY <1>2, <1>3, <2>1, Zenon
    <2> QED
        BY <1>1, <1>3, <2>1, <2>2, SeqEqual, Zenon
<1>6. <<>> \o <<c>> = <<c>>
    BY <1>1
<1> QED
    BY <1>4, <1>5, <1>6

\* A path has one component or two.
LEMMA PathShape ==
    ASSUME NEW S \in SUBSET Component, NEW path \in PathsTo(S)
    PROVE  /\ Len(path) \in {1, 2} /\ Head(path) = path[1] /\ Last(path) \in S
           /\ Len(path) = 1 => path[1] \in S /\ path = <<path[1]>> /\ Front(path) = <<>>
                               /\ Last(path) = path[1]
           /\ Len(path) = 2 => /\ path[1] \in Steps /\ path[2] \in S
                               /\ path = <<path[1], path[2]>> /\ Last(path) = path[2]
                               /\ Tail(path) = <<path[2]>> /\ Front(path) = <<path[1]>>
                               /\ Tail(path) \in PathsTo(S)
<1>1. PICK p \in Beginnings, c \in S : path = p \o <<c>>
    BY DEF PathsTo
<1>2. <<>> \o <<c>> = <<c>>
    BY Pairs
<1>3. CASE p = <<>>
    <2>1. path = <<c>>
        BY <1>1, <1>2, <1>3
    <2> QED
        BY <2>1 DEF Last, Front
<1>4. CASE \E b \in Steps : p = <<b>>
    <2> PICK b \in Steps : p = <<b>>
        BY <1>4
    <2>1. path = <<b, c>>
        BY <1>1, Pairs, Zenon
    <2>2. <<c>> \in PathsTo(S)
        <3>1. <<>> \in Beginnings /\ <<c>> = <<>> \o <<c>>
            BY <1>2 DEF Beginnings
        <3> QED
            BY <3>1 DEF PathsTo
    <2>3. /\ Len(path) = 2 /\ path[1] = b /\ path[2] = c /\ Head(path) = b
          /\ Tail(path) = <<c>>
        BY <2>1
    <2>4. Front(path) = <<b>>
        <3>1. SubSeq(<<b, c>>, 1, 1) = <<b>>
            BY Pairs, Zenon
        <3>2. 2 - 1 = 1
            OBVIOUS
        <3> QED
            BY <2>1, <2>3, <3>1, <3>2 DEF Front
    <2>5. Last(path) = c
        BY <2>3 DEF Last
    <2> HIDE DEF Steps
    <2> QED
        BY <2>1, <2>2, <2>3, <2>4, <2>5
<1> QED
    BY <1>1, <1>3, <1>4 DEF Beginnings

Composes(f, next, start, N) ==
    f[0] = start /\ \A n \in 1 .. N : f[n] = next[n][f[n - 1]]

\* A function can be defined by applying one function after another.
LEMMA StepsExist ==
    ASSUME NEW X, NEW N \in Nat, NEW next \in [1 .. N -> [X -> X]], NEW start \in X
    PROVE  \E f \in [0 .. N -> X] : Composes(f, next, start, N)
<1> DEFINE Y == (0 .. N) \X X
           step == [y \in Y |-> IF y[1] < N THEN <<y[1] + 1, next[y[1] + 1][y[2]]>> ELSE y]
           first == <<0, start>>
<1>1. step \in [Y -> Y] /\ first \in Y
    OBVIOUS
<1>2. \A m \in 0 .. (N - 1), x \in X : step[<<m, x>>] = <<m + 1, next[m + 1][x]>>
    OBVIOUS
<1>3. PICK g : Iterates(g, step, first, N)
    <2> HIDE DEF Y, step, first
    <2> QED
        BY <1>1, IterationExists
<1>4. g \in [0 .. N -> Y] /\ g[0] = first /\ \A n \in 1 .. N : g[n] = step[g[n - 1]]
    <2> HIDE DEF Y, step, first
    <2> QED
        BY <1>1, <1>3, IterationObeys
<1> DEFINE T == {n \in 0 .. N : g[n][1] = n}
<1>5. \A n \in 0 .. N : g[n] = <<g[n][1], g[n][2]>> /\ g[n][2] \in X
    BY <1>4
<1>6. g[0][1] = 0 /\ g[0][2] = start
    BY <1>4
<1>7. ASSUME NEW n \in 0 .. (N - 1), g[n][1] = n
      PROVE  g[n + 1][1] = n + 1 /\ g[n + 1][2] = next[n + 1][g[n][2]]
    <2>1. n + 1 \in 1 .. N /\ n + 1 - 1 = n /\ n \in 0 .. N
        OBVIOUS
    <2>2. g[n + 1] = step[<<n, g[n][2]>>]
        <3> HIDE DEF step, Y, first
        <3>1. g[n] = <<n, g[n][2]>>
            BY <1>5, <1>7, <2>1
        <3>2. g[n + 1] = step[g[n + 1 - 1]]
            BY <1>4, <2>1
        <3> QED
            BY <2>1, <3>1, <3>2
    <2>3. step[<<n, g[n][2]>>] = <<n + 1, next[n + 1][g[n][2]]>>
        BY <1>2, <1>5, <2>1
    <2> HIDE DEF step
    <2> QED
        BY <2>2, <2>3
<1> HIDE DEF Y, step, first
<1>8. \A n \in 0 .. N : n \in T
    <2>1. 0 \in T
        BY <1>6
    <2>2. ASSUME NEW n \in 0 .. (N - 1), n \in T PROVE n + 1 \in T
        BY <1>7, <2>2
    <2> HIDE DEF T
    <2> QED
        BY <2>1, <2>2, BoundedInduction
<1> DEFINE f == [n \in 0 .. N |-> g[n][2]]
<1>9. f \in [0 .. N -> X]
    BY <1>5
<1>10. f[0] = start
    BY <1>6
<1>11. ASSUME NEW n \in 1 .. N PROVE f[n] = next[n][f[n - 1]]
    <2>1. n - 1 \in 0 .. (N - 1) /\ n - 1 + 1 = n /\ n - 1 \in 0 .. N /\ n \in 0 .. N
        OBVIOUS
    <2>2. g[n][2] = next[n][g[n - 1][2]]
        BY <1>7, <1>8, <2>1
    <2> QED
        BY <2>1, <2>2
<1> HIDE DEF f
<1> QED
    BY <1>9, <1>10, <1>11 DEF Composes

\* The folders a user sees, and where they lead.
LEMMA FoldersAre ==
    \A d, name : ChildFolders(TableAt(d), name) = FoldersOf(disk, d, name)
BY DEF ChildFolders, Shown, TableAt, FoldersOf, FolderAt, Slot

WalkOf(at, dir, path) ==
    at = [n \in 0 .. Len(path) |->
            IF n = 0 THEN {dir}
            ELSE UNION {IF path[n] = Up THEN {TableAt(d)[1].cluster}
                        ELSE {TableAt(d)[i].cluster :
                                 i \in ChildFolders(TableAt(d), path[n].name)} :
                        d \in at[n - 1]}]

Walk(dir, path) == CHOOSE at : WalkOf(at, dir, path)

LEMMA LedAre ==
    ASSUME NEW dirs, NEW component
    PROVE  UNION {IF component = Up THEN {TableAt(d)[1].cluster}
                  ELSE {TableAt(d)[i].cluster :
                           i \in ChildFolders(TableAt(d), component.name)} :
                  d \in dirs} = AllLed(disk, dirs, component)
<1> DEFINE F(d) == IF component = Up THEN {TableAt(d)[1].cluster}
                   ELSE {TableAt(d)[i].cluster : i \in ChildFolders(TableAt(d), component.name)}
<1>1. \A d : F(d) = Led(disk, d, component)
    BY FoldersAre DEF Led, TableAt, Slot
<1> HIDE DEF F
<1>2. UNION {F(d) : d \in dirs} = AllLed(disk, dirs, component)
    BY <1>1 DEF AllLed
<1> QED
    BY <1>2, Zenon DEF F

LEMMA LedToClusters ==
    ASSUME NEW contents \in [Cluster -> Content], NEW d \in Cluster, NEW component
    PROVE  Led(contents, d, component) \subseteq Cluster
<1>1. \A j \in Index : Slot(contents, d, j).cluster \in Cluster
    BY SlotIsEntry DEF SafeEntry, Entry
<1>2. 1 \in Index /\ ChildIndex \subseteq Index
    BY Constants
<1> QED
    BY <1>1, <1>2 DEF Led, FoldersOf

\* A path is followed component by component.
LEMMA WalkDefined ==
    ASSUME disk \in [Cluster -> Content], NEW dir \in Cluster, NEW path, Len(path) \in Nat
    PROVE  LET at == Walk(dir, path)
           IN  /\ FollowedFrom(dir, path) = at[Len(path)]
               /\ at[0] = {dir}
               /\ \A n \in 0 .. Len(path) : at[n] \subseteq Cluster
               /\ \A n \in 1 .. Len(path) : at[n] = AllLed(disk, at[n - 1], path[n])
<1> DEFINE N == Len(path)
           X == SUBSET Cluster
           next == [n \in 1 .. N |-> [dirs \in X |-> AllLed(disk, dirs, path[n])]]
           start == {dir}
           at == Walk(dir, path)
<1>1. start \in X /\ \A n \in 1 .. N : \A dirs \in X : AllLed(disk, dirs, path[n]) \in X
    BY LedToClusters DEF AllLed
<1>2. next \in [1 .. N -> [X -> X]]
    BY <1>1
<1>3. \A f : WalkOf(f, dir, path) <=>
          f = [n \in 0 .. N |-> IF n = 0 THEN start ELSE AllLed(disk, f[n - 1], path[n])]
    BY LedAre, Zenon DEF WalkOf
<1>4. PICK g \in [0 .. N -> X] :
          g[0] = start /\ \A n \in 1 .. N : g[n] = next[n][g[n - 1]]
    <2> HIDE DEF X, next, start, N
    <2>1. N \in Nat /\ start \in X
        BY <1>1 DEF N
    <2>2. \E g \in [0 .. N -> X] : Composes(g, next, start, N)
        BY ONLY <1>2, <2>1, StepsExist
    <2> QED
        BY <2>2 DEF Composes
<1>5. \A n \in 0 .. N : g[n] = IF n = 0 THEN start ELSE AllLed(disk, g[n - 1], path[n])
    <2>1. ASSUME NEW n \in 0 .. N, n # 0
          PROVE  next[n][g[n - 1]] = AllLed(disk, g[n - 1], path[n])
        <3>1. n \in 1 .. N /\ n - 1 \in 0 .. N
            BY <2>1
        <3>2. g[n - 1] \in X
            BY <3>1
        <3> HIDE DEF X
        <3> QED
            BY <3>1, <3>2
    <2>2. \A n \in 0 .. N : n # 0 => n \in 1 .. N
        OBVIOUS
    <2> HIDE DEF next, start, X, N
    <2> QED
        BY <1>4, <2>1, <2>2
<1>6. WalkOf(g, dir, path)
    <2> HIDE DEF next, start, X, N
    <2>1. g = [n \in 0 .. N |-> g[n]]
        BY <1>4
    <2>2. [n \in 0 .. N |-> g[n]]
          = [n \in 0 .. N |-> IF n = 0 THEN start ELSE AllLed(disk, g[n - 1], path[n])]
        BY <1>5, Zenon
    <2> QED
        BY <1>3, <2>1, <2>2, Zenon
<1>7. WalkOf(at, dir, path)
    BY <1>6 DEF Walk
<1>8. FollowedFrom(dir, path) = at[N]
    BY Zenon DEF FollowedFrom, Walk, WalkOf
<1> DEFINE e(n) == IF n = 0 THEN start ELSE AllLed(disk, at[n - 1], path[n])
<1>9. \A n \in 0 .. N : at[n] = e(n)
    <2>1. at = [n \in 0 .. N |-> e(n)]
        BY <1>3, <1>7
    <2> HIDE DEF e, at
    <2> QED
        BY <2>1
<1>10. at[0] = {dir} /\ \A n \in 1 .. N : at[n] = AllLed(disk, at[n - 1], path[n])
    <2>1. N \in Nat
        OBVIOUS
    <2> HIDE DEF at, N
    <2> QED
        BY <1>9, <2>1
<1> DEFINE S == {n \in 0 .. N : at[n] \in X}
<1>11. \A n \in 0 .. N : n \in S
    <2>1. 0 \in S
        BY <1>1, <1>10
    <2>2. ASSUME NEW n \in 0 .. (N - 1), n \in S PROVE n + 1 \in S
        <3>1. n + 1 \in 1 .. N /\ n + 1 - 1 = n /\ n + 1 \in 0 .. N
            OBVIOUS
        <3>2. at[n + 1] = AllLed(disk, at[n], path[n + 1])
            BY <1>10, <3>1
        <3> HIDE DEF at, X
        <3> QED
            BY <1>1, <2>2, <3>1, <3>2
    <2> HIDE DEF S
    <2> QED
        BY <2>1, <2>2, BoundedInduction
<1> QED
    BY <1>8, <1>10, <1>11

LEMMA ShortPaths ==
    ASSUME disk \in [Cluster -> Content], NEW dir \in Cluster, NEW a, NEW b
    PROVE  /\ FollowedFrom(dir, <<>>) = {dir}
           /\ FollowedFrom(dir, <<a>>) = Led(disk, dir, a)
           /\ FollowedFrom(dir, <<a, b>>) = AllLed(disk, Led(disk, dir, a), b)
<1>1. /\ Len(<<>>) = 0 /\ Len(<<a>>) = 1 /\ Len(<<a, b>>) = 2
      /\ <<a>>[1] = a /\ <<a, b>>[1] = a /\ <<a, b>>[2] = b
      /\ 0 \in Nat /\ 1 \in Nat /\ 2 \in Nat /\ 1 \in 1 .. 1 /\ 1 \in 1 .. 2 /\ 2 \in 1 .. 2
      /\ 1 - 1 = 0 /\ 2 - 1 = 1
    OBVIOUS
<1>2. \A component : AllLed(disk, {dir}, component) = Led(disk, dir, component)
    BY DEF AllLed
<1>3. FollowedFrom(dir, <<>>) = {dir}
    BY <1>1, WalkDefined
<1>4. FollowedFrom(dir, <<a>>) = Led(disk, dir, a)
    <2> DEFINE path == <<a>>
               at == Walk(dir, path)
    <2>1. Len(path) = 1 /\ path[1] = a
        OBVIOUS
    <2> HIDE DEF path
    <2>2. /\ FollowedFrom(dir, path) = at[Len(path)] /\ at[0] = {dir}
          /\ \A n \in 1 .. Len(path) : at[n] = AllLed(disk, at[n - 1], path[n])
        <3>1. disk \in [Cluster -> Content] /\ dir \in Cluster /\ Len(path) \in Nat
            BY <1>1, <2>1
        <3> QED
            BY ONLY <3>1, WalkDefined
    <2> HIDE DEF at
    <2>3. FollowedFrom(dir, path) = Led(disk, dir, a)
        BY <1>1, <1>2, <2>1, <2>2
    <2> QED
        BY <2>3 DEF path
<1>5. FollowedFrom(dir, <<a, b>>) = AllLed(disk, Led(disk, dir, a), b)
    <2> DEFINE path == <<a, b>>
               at == Walk(dir, path)
    <2>1. Len(path) = 2 /\ path[1] = a /\ path[2] = b
        OBVIOUS
    <2> HIDE DEF path
    <2>2. /\ FollowedFrom(dir, path) = at[Len(path)] /\ at[0] = {dir}
          /\ \A n \in 1 .. Len(path) : at[n] = AllLed(disk, at[n - 1], path[n])
        <3>1. disk \in [Cluster -> Content] /\ dir \in Cluster /\ Len(path) \in Nat
            BY <1>1, <2>1
        <3> QED
            BY ONLY <3>1, WalkDefined
    <2> HIDE DEF at
    <2>3. FollowedFrom(dir, path) = AllLed(disk, Led(disk, dir, a), b)
        BY <1>1, <1>2, <2>1, <2>2
    <2> QED
        BY <2>3 DEF path
<1> QED
    BY <1>3, <1>4, <1>5

\* Where the folders of a path lead, and where all of it does.
LEMMA PathLeads ==
    ASSUME disk \in [Cluster -> Content], NEW dir \in Cluster,
           NEW S \in SUBSET Component, NEW path \in PathsTo(S)
    PROVE  /\ FollowedFrom(dir, Front(path)) = ToDir(disk, dir, path)
           /\ FollowedFrom(dir, path) = AllLed(disk, ToDir(disk, dir, path), Last(path))
<1>1. CASE Len(path) = 1
    <2>1. path = <<path[1]>> /\ Front(path) = <<>> /\ Last(path) = path[1]
        BY <1>1, PathShape
    <2>2. ToDir(disk, dir, path) = {dir} /\ AllLed(disk, {dir}, path[1]) = Led(disk, dir, path[1])
        BY <1>1 DEF ToDir, AllLed
    <2>3. FollowedFrom(dir, <<>>) = {dir} /\ FollowedFrom(dir, <<path[1]>>) = Led(disk, dir, path[1])
        BY ShortPaths
    <2> QED
        BY <2>1, <2>2, <2>3, Zenon
<1>2. CASE Len(path) = 2
    <2>1. path = <<path[1], path[2]>> /\ Front(path) = <<path[1]>> /\ Last(path) = path[2]
        BY <1>2, PathShape
    <2>2. ToDir(disk, dir, path) = Led(disk, dir, path[1])
        BY <1>2 DEF ToDir
    <2>3. /\ FollowedFrom(dir, <<path[1]>>) = Led(disk, dir, path[1])
          /\ FollowedFrom(dir, <<path[1], path[2]>>)
             = AllLed(disk, Led(disk, dir, path[1]), path[2])
        BY ShortPaths
    <2> QED
        BY <2>1, <2>2, <2>3, Zenon
<1> QED
    BY <1>1, <1>2, PathShape

-----------------------------------------------------------------------------
(* Tidy disks *)

LEMMA NamesApart ==
    /\ FolderNames \cap FileNames = {}
    /\ CarefulUsers => \A name \in FolderNames \cup FileNames :
          name # RootName /\ name # ParentName
BY ShellAssumption DEF ShellAssumption, CarefulUsers

\* A directory's own two entries.
LEMMA OwnEntries ==
    ASSUME NEW contents, NEW dirs, Tidy(contents, dirs), NEW d \in dirs
    PROVE  /\ d \in Cluster /\ Slot(contents, d, 0).folder
           /\ Slot(contents, d, 0).name \in FolderNames \cup {RootName}
           /\ Slot(contents, d, 1).name = ParentName
           /\ Slot(contents, d, 0).cluster \in dirs /\ Slot(contents, d, 1).cluster \in dirs
<1>1. Tree(contents, dirs) /\ Named(contents, dirs)
    BY DEF Tidy, Good
<1>2. d \in Cluster
    BY <1>1, Constants DEF Tree
<1>3. CASE d = ROOT_CLUSTER_NUMBER
    BY <1>1, <1>2, <1>3 DEF Tree, Named, NamedRoot
<1>4. CASE d # ROOT_CLUSTER_NUMBER
    <2>1. PICK b \in dirs, j \in ChildIndex :
              /\ FolderAt(contents, b, j) /\ Slot(contents, b, j).cluster = d
              /\ Slot(contents, d, 0).cluster = b
        BY <1>1, <1>4 DEF Tree
    <2>2. /\ Slot(contents, b, j).name \in FolderNames
          /\ Slot(contents, d, 0).name = Slot(contents, b, j).name
          /\ Slot(contents, d, 1).cluster = b
        BY <1>1, <2>1 DEF Named, NamedSlot
    <2> QED
        BY <1>1, <1>2, <1>4, <2>1, <2>2 DEF Tree
<1> QED
    BY <1>3, <1>4

\* Its other entries: what a name tells of them, and where folders lead.
LEMMA ChildrenAre ==
    ASSUME NEW contents, NEW dirs, Tidy(contents, dirs), NEW d \in dirs, NEW j \in ChildIndex
    PROVE  /\ Slot(contents, d, j).live /\ Slot(contents, d, j).name \in FolderNames
              => FolderAt(contents, d, j)
           /\ Slot(contents, d, j).name \in FileNames => ~Slot(contents, d, j).folder
           /\ FolderAt(contents, d, j) => Slot(contents, d, j).cluster \in dirs
           /\ NamedSlot(contents, d, j)
<1>1. Tree(contents, dirs) /\ Named(contents, dirs)
    BY DEF Tidy, Good
<1>2. NamedSlot(contents, d, j)
    BY <1>1 DEF Named
<1>3. FolderAt(contents, d, j) => Slot(contents, d, j).cluster \in dirs
    BY <1>1 DEF Tree
<1> QED
    BY <1>2, <1>3, NamesApart DEF NamedSlot, FolderAt, FileAt

LEMMA LedToDirectories ==
    ASSUME NEW contents, NEW dirs, Tidy(contents, dirs), NEW d \in dirs, NEW component
    PROVE  Led(contents, d, component) \subseteq dirs
BY OwnEntries, ChildrenAre DEF Led, FoldersOf

\* For a single shell a path leads to one directory at most.
LEMMA LedIsOne ==
    ASSUME NEW contents, NEW dirs, Tidy(contents, dirs), OneShell, NEW d \in dirs,
           NEW component, NEW a \in Led(contents, d, component),
           NEW b \in Led(contents, d, component)
    PROVE  a = b
<1>1. CASE component = Up
    BY <1>1 DEF Led
<1>2. CASE component # Up
    <2>1. PICK i \in FoldersOf(contents, d, component.name) : a = Slot(contents, d, i).cluster
        BY <1>2 DEF Led
    <2>2. PICK j \in FoldersOf(contents, d, component.name) : b = Slot(contents, d, j).cluster
        BY <1>2 DEF Led
    <2>3. ~(i < j) /\ ~(j < i)
        BY <2>1, <2>2 DEF Tidy, Unhidden, FoldersOf, FolderAt
    <2>4. i \in Nat /\ j \in Nat
        BY Constants DEF FoldersOf
    <2> QED
        BY <2>1, <2>2, <2>3, <2>4
<1> QED
    BY <1>1, <1>2

-----------------------------------------------------------------------------
(* What calls change *)

\* No folder goes, and at most one comes, of a cluster that was no directory.
Grows(contents, dirs, new, dirs2, b, i) ==
    /\ dirs \subseteq dirs2
    /\ \A d \in dirs : /\ Slot(new, d, 0) = Slot(contents, d, 0)
                       /\ Slot(new, d, 1) = Slot(contents, d, 1)
    /\ \A d \in dirs, j \in ChildIndex :
          FolderAt(contents, d, j) => Slot(new, d, j) = Slot(contents, d, j)
    /\ \A d \in dirs, j \in ChildIndex :
          FolderAt(new, d, j) /\ ~FolderAt(contents, d, j) =>
              d = b /\ j = i /\ Slot(new, d, j).cluster \notin dirs

\* Paths lead where they led, or to the one that has come.
LEMMA LedGrows ==
    ASSUME NEW contents, NEW dirs, NEW new, NEW dirs2, NEW b, NEW i,
           Grows(contents, dirs, new, dirs2, b, i), NEW d \in dirs, NEW component
    PROVE  /\ FoldersOf(contents, d, component.name) \subseteq FoldersOf(new, d, component.name)
           /\ Led(contents, d, component) \subseteq Led(new, d, component)
           /\ \A x \in Led(new, d, component) \ Led(contents, d, component) :
                 x \notin dirs /\ d = b /\ component # Up /\ component.name = Slot(new, b, i).name
<1>1. FoldersOf(contents, d, component.name) \subseteq FoldersOf(new, d, component.name)
    BY DEF Grows, FoldersOf, FolderAt
<1>2. CASE component = Up
    BY <1>1, <1>2 DEF Grows, Led
<1>3. CASE component # Up
    <2>1. ASSUME NEW j \in FoldersOf(contents, d, component.name)
          PROVE  j \in FoldersOf(new, d, component.name) /\ Slot(new, d, j) = Slot(contents, d, j)
        BY <1>1, <2>1 DEF Grows, FoldersOf
    <2>2. ASSUME NEW j \in FoldersOf(new, d, component.name),
                 j \notin FoldersOf(contents, d, component.name)
          PROVE  /\ Slot(new, d, j).cluster \notin dirs /\ d = b
                 /\ component.name = Slot(new, b, i).name
        BY <2>2 DEF Grows, FoldersOf
    <2> QED
        BY <1>1, <1>3, <2>1, <2>2 DEF Led
<1> QED
    BY <1>2, <1>3

\* Nothing below the root of such a stack is ever looked at.
LEMMA StackIsRooted ==
    ASSUME NEW contents, NEW dirs, NEW stack \in Stacks, StackFits(contents, dirs, stack)
    PROVE  LET n == Len(stack)
           IN  /\ stack \in Seq(StackEntry) /\ n \in Nat /\ n >= 1 /\ n \in 1 .. n
               /\ stack # <<>> /\ stack[1] = RootEntry
               /\ last_dir(stack) = stack[n].name
               /\ current_parent_cluster(stack) = stack[n].cluster
               /\ n = 1 => prev_parent_cluster(stack) = stack[1].cluster
               /\ n # 1 => prev_parent_cluster(stack) = stack[n - 1].cluster
               /\ pop_dir(stack) = SubSeq(stack, 1, n - 1)
<1> DEFINE n == Len(stack)
<1>1. stack \in Seq(StackEntry) /\ n \in Nat /\ stack # <<>> /\ stack[1] = RootEntry
    BY DEF Stacks, StackFits
<1>2. n # 0
    BY <1>1, EmptySeq
<1>3. n >= 1 /\ n \in 1 .. n /\ 1 \in 1 .. n /\ (n # 1 => n - 1 \in 1 .. n)
    <2>1. \A m \in Nat : m # 0 =>
              m >= 1 /\ m \in 1 .. m /\ 1 \in 1 .. m /\ (m # 1 => m - 1 \in 1 .. m)
        OBVIOUS
    <2> QED
        BY <1>1, <1>2, <2>1, Zenon
<1>4. \A k \in 1 .. n : EntryAt(stack, k) = stack[k]
    <2>1. DOMAIN stack = 1 .. n
        BY <1>1
    <2> HIDE DEF n
    <2> QED
        BY <2>1 DEF EntryAt
<1>5. pop_dir(stack) = SubSeq(stack, 1, n - 1)
    BY <1>1 DEF pop_dir, Front
<1>6. /\ last_dir(stack) = stack[n].name
      /\ current_parent_cluster(stack) = stack[n].cluster
    BY <1>3, <1>4 DEF last_dir, current_parent_cluster
<1>7. /\ n = 1 => prev_parent_cluster(stack) = stack[1].cluster
      /\ n # 1 => prev_parent_cluster(stack) = stack[n - 1].cluster
    <2> HIDE DEF n
    <2>1. prev_parent_cluster(stack) = EntryAt(stack, IF n = 1 THEN 1 ELSE n - 1).cluster
        BY DEF prev_parent_cluster, n
    <2> QED
        BY <1>3, <1>4, <2>1
<1> QED
    BY <1>1, <1>3, <1>5, <1>6, <1>7

LEMMA StackGrows ==
    ASSUME NEW contents, NEW dirs, NEW new, NEW dirs2, NEW b, NEW i,
           Grows(contents, dirs, new, dirs2, b, i),
           NEW stack \in Stacks, StackFits(contents, dirs, stack)
    PROVE  StackFits(new, dirs2, stack)
<1>1. \A k \in 1 .. Len(stack) : stack[k].cluster \in dirs /\ stack[k].cluster \in dirs2
    BY DEF StackFits, Grows
<1>2. ASSUME NEW k \in 2 .. Len(stack)
      PROVE  \E j \in FoldersOf(new, stack[k - 1].cluster, stack[k].name) :
                Slot(new, stack[k - 1].cluster, j).cluster = stack[k].cluster
    <2> DEFINE d == stack[k - 1].cluster
    <2>1. PICK j \in FoldersOf(contents, d, stack[k].name) :
              Slot(contents, d, j).cluster = stack[k].cluster
        BY DEF StackFits
    <2>2. d \in dirs
        <3>1. Len(stack) \in Nat
            BY DEF Stacks
        <3>2. k - 1 \in 1 .. Len(stack)
            BY <3>1
        <3> QED
            BY <1>1, <3>2
    <2>3. Slot(new, d, j) = Slot(contents, d, j)
        BY <2>1, <2>2 DEF Grows, FoldersOf
    <2> HIDE DEF d
    <2>4. j \in FoldersOf(new, d, stack[k].name)
        BY <2>1, <2>3 DEF FoldersOf, FolderAt
    <2> QED
        BY <2>1, <2>3, <2>4 DEF d
<1> QED
    BY <1>1, <1>2 DEF StackFits

\* The directories a path's last component may be looked for in.
LEMMA ToDirGrows ==
    ASSUME NEW contents, NEW dirs, NEW new, NEW dirs2, NEW b, NEW i,
           Grows(contents, dirs, new, dirs2, b, i), Tidy(contents, dirs),
           NEW d \in dirs, NEW path \in PathsTo(Files)
    PROVE  /\ ToDir(contents, d, path) \subseteq dirs
           /\ ToDir(contents, d, path) \subseteq ToDir(new, d, path)
           /\ \A x \in ToDir(new, d, path) \ ToDir(contents, d, path) :
                 x \notin dirs /\ d = b /\ Len(path) = 2
                 /\ path[1] = Folder(Slot(new, b, i).name)
<1>1. Len(path) \in {1, 2} /\ (Len(path) = 2 => path[1] \in Folders \cup {Up})
    BY PathShape, PathsAre DEF Steps
<1>2. CASE Len(path) = 1
    BY <1>2 DEF ToDir
<1>3. CASE Len(path) = 2
    <2>1. Led(contents, d, path[1]) \subseteq dirs
        BY LedToDirectories
    <2>2. /\ Led(contents, d, path[1]) \subseteq Led(new, d, path[1])
          /\ \A x \in Led(new, d, path[1]) \ Led(contents, d, path[1]) :
                x \notin dirs /\ d = b /\ path[1] # Up /\ path[1].name = Slot(new, b, i).name
        BY LedGrows
    <2>3. path[1] # Up => path[1] = Folder(path[1].name)
        <3>1. path[1] # Up => \E name \in FolderNames : path[1] = Folder(name)
            BY <1>1, <1>3 DEF Folders
        <3>2. \A name : Folder(name).name = name
            BY DEF Folder
        <3> QED
            BY <3>1, <3>2
    <2> QED
        BY <1>3, <2>1, <2>2, <2>3 DEF ToDir
<1> QED
    BY <1>1, <1>2, <1>3

\* What another shell had in hand of the disk is so still.
LEMMA ApartGrows ==
    ASSUME NEW contents, NEW dirs, NEW new, NEW dirs2, NEW b, NEW i,
           Grows(contents, dirs, new, dirs2, b, i), Tidy(contents, dirs),
           NEW stack, current_parent_cluster(stack) \in dirs,
           NEW c, c.op = "mv", c.dir \in dirs, \A k \in DOMAIN c.found : c.found[k].dir \in dirs,
           PathFits(contents, stack, c), Apart(contents, stack, c)
    PROVE  Apart(new, stack, c)
<1> DEFINE cwd == current_parent_cluster(stack)
           name == Slot(new, b, i).name
           from == ToDir(contents, c.dir, c.todo)
           from2 == ToDir(new, c.dir, c.todo)
<1>1. c.todo \in PathsTo(Files) /\ \A k \in DOMAIN c.more : c.more[k] \in PathsTo(Files)
    BY DEF PathFits
<1>2. /\ from \subseteq dirs /\ from \subseteq from2
      /\ \A x \in from2 \ from :
            x \notin dirs /\ c.dir = b /\ Len(c.todo) = 2 /\ c.todo[1] = Folder(name)
    BY <1>1, ToDirGrows
<1>3. from # {}
    BY DEF Apart
<1> HIDE DEF from, from2, name
<1>4. ASSUME NEW k \in DOMAIN c.more
      PROVE  ToDir(new, cwd, c.more[k]) # {} /\ from2 \cap ToDir(new, cwd, c.more[k]) = {}
    <2> DEFINE to == ToDir(contents, cwd, c.more[k])
               to2 == ToDir(new, cwd, c.more[k])
    <2>1. /\ to \subseteq dirs /\ to \subseteq to2
          /\ \A x \in to2 \ to :
                x \notin dirs /\ cwd = b /\ Len(c.more[k]) = 2 /\ c.more[k][1] = Folder(name)
        BY <1>1, ToDirGrows DEF name
    <2>2. to # {} /\ from \cap to = {}
        BY DEF Apart, from
    <2>3. Len(c.todo) = 2 /\ Len(c.more[k]) = 2 /\ c.todo[1] = c.more[k][1] => from = to
        <3>1. Len(c.todo) = 2 => c.dir = cwd
            BY DEF PathFits
        <3> QED
            BY <3>1 DEF ToDir, from
    <2> HIDE DEF to, to2, cwd
    <2>4. ASSUME NEW x \in from2 \cap to2 PROVE FALSE
        <3>1. x \in from <=> x \in dirs
            BY <1>2, <2>4
        <3>2. x \in to <=> x \in dirs
            BY <2>1, <2>4
        <3>3. x \notin dirs
            BY <2>2, <3>1, <3>2
        <3>4. from = to
            BY <1>2, <2>1, <2>3, <2>4, <3>1, <3>2, <3>3
        <3> QED
            BY <1>3, <2>2, <3>4
    <2>5. to2 # {} /\ from2 \cap to2 = {}
        BY <2>1, <2>2, <2>4
    <2> QED
        BY <2>5 DEF to2
<1>5. ASSUME NEW k \in DOMAIN c.found PROVE c.found[k].dir \notin from2
    BY <1>2, <1>5 DEF Apart, from
<1> QED
    BY <1>2, <1>3, <1>4, <1>5 DEF Apart, from2, cwd

LEMMA WorkingDirectoryIsThere ==
    ASSUME NEW contents, NEW dirs, NEW stack \in Stacks, StackFits(contents, dirs, stack)
    PROVE  /\ Len(stack) \in Nat /\ Len(stack) \in 1 .. Len(stack)
           /\ current_parent_cluster(stack) \in dirs
<1>1. /\ Len(stack) \in Nat /\ Len(stack) \in 1 .. Len(stack)
      /\ current_parent_cluster(stack) = stack[Len(stack)].cluster
    BY StackIsRooted
<1> QED
    BY <1>1 DEF StackFits

LEMMA OthersFit ==
    ASSUME NEW contents, NEW dirs, NEW new, NEW dirs2, NEW b, NEW i,
           CarefulUsers, ~OneShell, Grows(contents, dirs, new, dirs2, b, i), Tidy(contents, dirs),
           NEW stack \in Stacks, NEW c \in Commands, ShellFits(contents, dirs, stack, c)
    PROVE  ShellFits(new, dirs2, stack, c)
<1>1. StackFits(new, dirs2, stack) /\ current_parent_cluster(stack) \in dirs
    BY StackGrows, WorkingDirectoryIsThere DEF ShellFits
<1>2. ASSUME c # Prompt PROVE CommandFits(new, dirs2, stack, c)
    <2>1. CommandFits(contents, dirs, stack, c) /\ c \in Command
        BY <1>2 DEF ShellFits, Commands
    <2>2. c.op # "rmdir"
        BY <2>1 DEF CarefulUsers, Command
    <2>3. dirs \subseteq dirs2
        BY DEF Grows
    <2>4. c.at \in {"make", "made"} => NewNames(new, c)
        BY <2>1 DEF CommandFits, NewNames, Grows
    <2>5. c.at = "search" => PathFits(new, stack, c)
        BY <2>1 DEF CommandFits, PathFits
    <2>6. c.at = "search" /\ c.op = "mv" => Apart(new, stack, c)
        BY <1>1, <2>1, ApartGrows DEF CommandFits
    <2> QED
        BY <2>1, <2>2, <2>3, <2>4, <2>5, <2>6 DEF CommandFits
<1> QED
    BY <1>1, <1>2 DEF ShellFits

\* No folder comes or goes, and what comes instead of anything else is a file.
FilesChange(contents, dirs, new) ==
    \A d \in dirs :
        /\ Slot(new, d, 0) = Slot(contents, d, 0) /\ Slot(new, d, 1) = Slot(contents, d, 1)
        /\ \A j \in ChildIndex :
              \/ Slot(new, d, j) = Slot(contents, d, j)
              \/ /\ ~FolderAt(contents, d, j) /\ ~Slot(new, d, j).folder
                 /\ Slot(new, d, j).live => Slot(new, d, j).name \in FileNames

LEMMA FilesChangeTidy ==
    ASSUME NEW contents, NEW dirs, NEW new \in [Cluster -> Content],
           Tidy(contents, dirs), FilesChange(contents, dirs, new), Good(Texts, new, dirs)
    PROVE  Tidy(new, dirs) /\ \A b, i : Grows(contents, dirs, new, dirs, b, i)
<1>1. \A b, i : Grows(contents, dirs, new, dirs, b, i)
    BY DEF FilesChange, Grows, FolderAt
<1>2. ASSUME NEW d \in dirs, NEW j \in ChildIndex PROVE NamedSlot(new, d, j)
    <2>1. NamedSlot(contents, d, j) /\ (FolderAt(contents, d, j) => Slot(contents, d, j).cluster \in dirs)
        BY ChildrenAre
    <2>2. CASE Slot(new, d, j) = Slot(contents, d, j)
        <3>1. FolderAt(contents, d, j) =>
                LET c == Slot(contents, d, j).cluster
                IN  Slot(new, c, 0) = Slot(contents, c, 0) /\ Slot(new, c, 1) = Slot(contents, c, 1)
            BY <2>1 DEF FilesChange
        <3>2. Slot(new, d, 0) = Slot(contents, d, 0)
            BY DEF FilesChange
        <3> QED
            BY <2>1, <2>2, <3>1, <3>2 DEF NamedSlot, FolderAt, FileAt
    <2>3. CASE /\ ~FolderAt(contents, d, j) /\ ~Slot(new, d, j).folder
               /\ Slot(new, d, j).live => Slot(new, d, j).name \in FileNames
        BY <2>3 DEF NamedSlot, FolderAt, FileAt
    <2> QED
        BY <2>2, <2>3 DEF FilesChange
<1>3. NamedRoot(new)
    <2>1. ROOT_CLUSTER_NUMBER \in dirs /\ NamedRoot(contents)
        BY DEF Tidy, Good, Tree, Named
    <2> QED
        BY <2>1 DEF FilesChange, NamedRoot
<1>4. ASSUME OneShell PROVE Unhidden(new, dirs)
    <2> SUFFICES ASSUME NEW d \in dirs, NEW j \in ChildIndex, NEW i \in ChildIndex,
                        FolderAt(new, d, j), i < j, Slot(new, d, i).folder
                 PROVE  Slot(new, d, i).name # Slot(new, d, j).name
        BY DEF Unhidden
    <2>1. Slot(new, d, j) = Slot(contents, d, j) /\ Slot(new, d, i) = Slot(contents, d, i)
        BY DEF FilesChange, FolderAt
    <2> QED
        BY <1>4, <2>1 DEF Tidy, Unhidden, FolderAt
<1> QED
    BY <1>1, <1>2, <1>3, <1>4 DEF Tidy, Named

\* A folder comes, where no folder of its name was and no empty slot is before it.
FolderComes(contents, dirs, new, b, i, location) ==
    /\ b \in dirs /\ i \in ChildIndex /\ location \notin dirs /\ ~Slot(contents, b, i).live
    /\ OnlyChanges(contents, dirs, new, {<<b, i>>})
    /\ FolderAt(new, b, i) /\ Slot(new, b, i).cluster = location
    /\ Slot(new, b, i).name \in FolderNames
    /\ Slot(new, b, i).name # Slot(contents, b, 0).name
    /\ Slot(new, location, 0).name = Slot(new, b, i).name
    /\ Slot(new, location, 1).cluster = b
    /\ \A j \in ChildIndex : /\ ~Slot(new, location, j).live
                             /\ Slot(new, location, j).name \notin FileNames
    /\ OneShell =>
          /\ \A j \in 2 .. (i - 1) : /\ Slot(contents, b, j).live
                                     /\ ~(/\ Slot(contents, b, j).folder
                                          /\ Slot(contents, b, j).name = Slot(new, b, i).name)
          /\ NoHoleBefore(contents, b, Slot(new, b, i).name)

LEMMA FolderComesTidy ==
    ASSUME NEW contents, NEW dirs, NEW new \in [Cluster -> Content], NEW b, NEW i, NEW location,
           Tidy(contents, dirs), FolderComes(contents, dirs, new, b, i, location),
           Good(Texts, new, dirs \cup {location})
    PROVE  /\ Tidy(new, dirs \cup {location})
           /\ Grows(contents, dirs, new, dirs \cup {location}, b, i)
           /\ OneShell => \A component :
                 component.name = Slot(new, b, i).name /\ component # Up =>
                     Led(new, b, component) = {location}
<1> DEFINE name == Slot(new, b, i).name
<1>1. /\ b \in dirs /\ i \in ChildIndex /\ location \notin dirs /\ ~Slot(contents, b, i).live
      /\ FolderAt(new, b, i) /\ Slot(new, b, i).cluster = location
    BY DEF FolderComes
<1>2. \A d \in dirs, j \in Index : d # b \/ j # i => Slot(new, d, j) = Slot(contents, d, j)
    <2>1. \A d, j : <<d, j>> \in {<<b, i>>} <=> d = b /\ j = i
        OBVIOUS
    <2> QED
        BY <2>1, Zenon DEF FolderComes, OnlyChanges
<1>3. 0 \in Index /\ 1 \in Index /\ ChildIndex \subseteq Index /\ 0 # i /\ 1 # i
      /\ ChildIndex \subseteq Nat
    BY <1>1, Constants DEF ChildIndex
<1>4. \A d \in dirs : Slot(new, d, 0) = Slot(contents, d, 0) /\ Slot(new, d, 1) = Slot(contents, d, 1)
    BY <1>2, <1>3
<1>5. Grows(contents, dirs, new, dirs \cup {location}, b, i)
    <2>1. ASSUME NEW d \in dirs, NEW j \in ChildIndex, FolderAt(contents, d, j)
          PROVE  Slot(new, d, j) = Slot(contents, d, j)
        BY <1>1, <1>2, <1>3, <2>1 DEF FolderAt
    <2>2. ASSUME NEW d \in dirs, NEW j \in ChildIndex,
                 FolderAt(new, d, j), ~FolderAt(contents, d, j)
          PROVE  d = b /\ j = i
        BY <1>2, <1>3, <2>2 DEF FolderAt
    <2> QED
        BY <1>1, <1>4, <2>1, <2>2 DEF Grows
<1>6. ASSUME NEW d \in dirs, NEW j \in ChildIndex PROVE NamedSlot(new, d, j)
    <2>1. CASE d = b /\ j = i
        BY <1>1, <1>4, <2>1 DEF FolderComes, NamedSlot, FileAt, FolderAt
    <2>2. CASE d # b \/ j # i
        <3>1. Slot(new, d, j) = Slot(contents, d, j)
            BY <1>2, <1>3, <2>2
        <3>2. NamedSlot(contents, d, j)
              /\ (FolderAt(contents, d, j) => Slot(contents, d, j).cluster \in dirs)
            BY ChildrenAre
        <3> QED
            BY <1>4, <3>1, <3>2 DEF NamedSlot, FolderAt, FileAt
    <2> QED
        BY <2>1, <2>2
<1>7. ASSUME NEW j \in ChildIndex PROVE NamedSlot(new, location, j)
    BY DEF FolderComes, NamedSlot, FolderAt, FileAt
<1>8. NamedRoot(new)
    <2>1. ROOT_CLUSTER_NUMBER \in dirs /\ NamedRoot(contents)
        BY DEF Tidy, Good, Tree, Named
    <2> QED
        BY <1>4, <2>1 DEF NamedRoot
<1>9. ASSUME OneShell, NEW j \in ChildIndex, j # i,
             Slot(new, b, j).folder, Slot(new, b, j).name = name
      PROVE  i < j /\ ~Slot(new, b, j).live
    <2>1. Slot(new, b, j) = Slot(contents, b, j)
        BY <1>1, <1>2, <1>3, <1>9
    <2>2. j \notin 2 .. (i - 1)
        BY <1>9, <2>1 DEF FolderComes
    <2>3. i < j
        BY <1>1, <1>9, <2>2 DEF ChildIndex
    <2>4. i \in 2 .. j
        BY <1>1, <1>3, <2>3 DEF ChildIndex
    <2>5. j \notin FoldersOf(contents, b, name)
        BY <1>1, <1>9, <2>4 DEF FolderComes, NoHoleBefore
    <2> QED
        BY <1>9, <2>1, <2>3, <2>5 DEF FoldersOf, FolderAt
<1>10. ASSUME OneShell PROVE Unhidden(new, dirs \cup {location})
    <2> SUFFICES ASSUME NEW d \in dirs \cup {location}, NEW j \in ChildIndex, NEW k \in ChildIndex,
                        FolderAt(new, d, j), k < j, Slot(new, d, k).folder,
                        Slot(new, d, k).name = Slot(new, d, j).name
                 PROVE  FALSE
        BY DEF Unhidden
    <2>1. d # location
        BY DEF FolderComes, FolderAt
    <2>2. CASE d = b /\ j = i
        BY <1>3, <1>9, <1>10, <2>2
    <2>3. CASE d = b /\ k = i
        BY <1>3, <1>9, <1>10, <2>3 DEF FolderAt
    <2>4. CASE d # b \/ (j # i /\ k # i)
        <3>1. Slot(new, d, j) = Slot(contents, d, j) /\ Slot(new, d, k) = Slot(contents, d, k)
            BY <1>2, <1>3, <2>1, <2>4
        <3> QED
            BY <1>10, <2>1, <3>1 DEF Tidy, Unhidden, FolderAt
    <2> QED
        BY <2>2, <2>3, <2>4
<1>11. ASSUME OneShell, NEW component, component.name = name, component # Up
       PROVE  Led(new, b, component) = {location}
    <2>1. FoldersOf(new, b, name) = {i}
        BY <1>1, <1>9, <1>11 DEF FoldersOf, FolderAt
    <2> QED
        BY <1>1, <1>11, <2>1 DEF Led
<1> QED
    BY <1>5, <1>6, <1>7, <1>8, <1>10, <1>11 DEF Tidy, Named

\* A folder goes that the shell is not in.
LEMMA FolderGoesTidy ==
    ASSUME NEW contents, NEW dirs, NEW new \in [Cluster -> Content], Tidy(contents, dirs),
           NEW b \in dirs, NEW i \in ChildIndex, FolderAt(contents, b, i),
           Slot(contents, b, i).name \in FolderNames,
           Good(Texts, new, dirs \ {Slot(contents, b, i).cluster}),
           OnlyChanges(contents, dirs, new, {<<b, i>>}),
           Slot(new, b, i) = [Slot(contents, b, i) EXCEPT !.live = FALSE]
    PROVE  LET gone == Slot(contents, b, i).cluster
           IN  /\ Tidy(new, dirs \ {gone})
               /\ \A stack \in Stacks :
                     StackFits(contents, dirs, stack) /\ IsAside(stack, gone) =>
                         StackFits(new, dirs \ {gone}, stack)
<1> DEFINE gone == Slot(contents, b, i).cluster
           dirs2 == dirs \ {gone}
<1>1. \A d \in dirs, j \in Index : d # b \/ j # i => Slot(new, d, j) = Slot(contents, d, j)
    <2>1. \A d, j : <<d, j>> \in {<<b, i>>} <=> d = b /\ j = i
        OBVIOUS
    <2> QED
        BY <2>1, Zenon DEF OnlyChanges
<1>2. 0 \in Index /\ 1 \in Index /\ ChildIndex \subseteq Index /\ 0 # i /\ 1 # i
    BY Constants DEF ChildIndex
<1>3. \A d \in dirs : Slot(new, d, 0) = Slot(contents, d, 0) /\ Slot(new, d, 1) = Slot(contents, d, 1)
    BY <1>1, <1>2
<1>4. /\ ~Slot(new, b, i).live /\ Slot(new, b, i).folder = Slot(contents, b, i).folder
      /\ Slot(new, b, i).name = Slot(contents, b, i).name
    <2>1. Slot(contents, b, i) \in SafeEntry
        <3>1. b \in Cluster /\ i \in Index
            BY <1>2, OwnEntries
        <3> QED
            BY <3>1, SlotIsEntry DEF Tidy
    <2> QED
        BY <2>1 DEF SafeEntry, Entry
<1>5. \A d \in dirs, j \in ChildIndex :
          /\ FolderAt(new, d, j) \/ FileAt(new, d, j) => Slot(new, d, j) = Slot(contents, d, j)
          /\ Slot(new, d, j).folder = Slot(contents, d, j).folder
          /\ Slot(new, d, j).name = Slot(contents, d, j).name
    BY <1>1, <1>2, <1>4 DEF FolderAt, FileAt
<1> HIDE DEF gone
<1>6. ASSUME NEW d \in dirs2, NEW j \in ChildIndex PROVE NamedSlot(new, d, j)
    <2>1. NamedSlot(contents, d, j)
          /\ (FolderAt(contents, d, j) => Slot(contents, d, j).cluster \in dirs)
        BY ChildrenAre
    <2>2. CASE d = b /\ j = i
        BY <1>4, <2>2, NamesApart DEF NamedSlot, FolderAt, FileAt
    <2>3. CASE d # b \/ j # i
        <3>1. Slot(new, d, j) = Slot(contents, d, j)
            BY <1>1, <1>2, <2>3
        <3> QED
            BY <1>3, <2>1, <3>1 DEF NamedSlot, FolderAt, FileAt
    <2> QED
        BY <2>2, <2>3
<1>7. NamedRoot(new)
    <2>1. ROOT_CLUSTER_NUMBER \in dirs /\ NamedRoot(contents)
        BY DEF Tidy, Good, Tree, Named
    <2> QED
        BY <1>3, <2>1 DEF NamedRoot
<1>8. ASSUME OneShell PROVE Unhidden(new, dirs2)
    BY <1>5, <1>8 DEF Tidy, Unhidden, FolderAt
<1>9. ASSUME NEW stack \in Stacks, StackFits(contents, dirs, stack), IsAside(stack, gone)
      PROVE  StackFits(new, dirs2, stack)
    <2>1. \A k \in 1 .. Len(stack) : stack[k].cluster \in dirs /\ stack[k].cluster # gone
        BY <1>9 DEF StackFits, IsAside
    <2>2. ASSUME NEW k \in 2 .. Len(stack)
          PROVE  \E j \in FoldersOf(new, stack[k - 1].cluster, stack[k].name) :
                    Slot(new, stack[k - 1].cluster, j).cluster = stack[k].cluster
        <3> DEFINE d == stack[k - 1].cluster
        <3>1. PICK j \in FoldersOf(contents, d, stack[k].name) :
                  Slot(contents, d, j).cluster = stack[k].cluster
            BY <1>9 DEF StackFits
        <3>2. Len(stack) \in Nat
            BY DEF Stacks
        <3>3. k - 1 \in 1 .. Len(stack) /\ k \in 1 .. Len(stack)
            BY <3>2
        <3>4. d \in dirs /\ Slot(contents, d, j).cluster # gone
            BY <2>1, <3>1, <3>3
        <3> HIDE DEF d
        <3>5. Slot(new, d, j) = Slot(contents, d, j)
            BY <1>1, <1>2, <3>1, <3>4 DEF FoldersOf, gone
        <3>6. j \in FoldersOf(new, d, stack[k].name)
            BY <3>1, <3>5 DEF FoldersOf, FolderAt
        <3> QED
            BY <3>1, <3>5, <3>6 DEF d
    <2> QED
        BY <1>9, <2>1, <2>2 DEF StackFits
<1>10. Tidy(new, dirs2)
    BY <1>6, <1>7, <1>8 DEF Tidy, Named, gone
<1> QED
    BY <1>9, <1>10 DEF gone

-----------------------------------------------------------------------------
(* Steps without a call *)

LEMMA IdleIsTidy ==
    ASSUME CarefulInv, Idle
    PROVE  /\ Settled = disk /\ disk \in [Cluster -> Content] /\ Tidy(disk, Directories)
           /\ Directories \subseteq Cluster
           /\ \A s \in Shells : ShellFits(disk, Directories, dir_stack[s], cmd[s])
<1>1. Settled = disk /\ disk \in [Cluster -> Content] /\ Directories \subseteq Cluster
    BY IdleIsGood DEF CarefulInv
<1>2. PICK dirs : /\ Tidy(disk, dirs)
                  /\ \A s \in Shells : ShellFits(disk, dirs, dir_stack[s], cmd[s])
    BY <1>1 DEF CarefulInv
<1>3. Directories = dirs
    BY <1>1, <1>2, DirectoriesAre DEF Tidy
<1> QED
    BY <1>1, <1>2, <1>3

LEMMA SoundStutters ==
    ASSUME SoundFor(Texts), UNCHANGED vars
    PROVE  SoundFor(Texts)' /\ Settled' = Settled
<1>1. IInv'
    BY StepKeeps DEF SoundFor
<1>2. Settled' = Settled
    BY DEF vars, Settled
<1> QED
    BY <1>1, <1>2 DEF vars, SoundFor, Idle

LEMMA StepFits ==
    ASSUME CarefulInv, Idle, ShellInv', UNCHANGED <<vars, installed>>, installed,
           NEW s \in Shells, NEW c, NEW stack, Continue(s, c),
           dir_stack' = [dir_stack EXCEPT ![s] = stack],
           ShellFits(disk, Directories, stack, c)
    PROVE  CarefulInv'
<1>1. SoundFor(Texts)' /\ Settled' = Settled
    BY SoundStutters DEF CarefulInv
<1>2. /\ Settled = disk /\ Tidy(disk, Directories)
      /\ \A t \in Shells : ShellFits(disk, Directories, dir_stack[t], cmd[t])
    BY IdleIsTidy
<1>3. \A t \in Shells : ShellFits(disk, Directories, dir_stack'[t], cmd'[t])
    BY <1>2 DEF CarefulInv, ShellInv, Continue
<1>4. Tidy(Settled', Directories)
    BY <1>1, <1>2
<1>5. \E dirs : /\ Tidy(Settled', dirs)
                /\ \A t \in Shells : ShellFits(Settled', dirs, dir_stack'[t], cmd'[t])
    BY <1>1, <1>2, <1>3, <1>4
<1> QED
    BY <1>1, <1>5 DEF CarefulInv

\* The command goes on, or is over, where it is.
LEMMA GoesOnFits ==
    ASSUME CarefulInv, Idle, ShellInv', UNCHANGED <<vars, dir_stack, installed>>, installed,
           NEW s \in Shells, NEW c, Continue(s, c),
           c = Prompt \/ CommandFits(disk, Directories, dir_stack[s], c)
    PROVE  CarefulInv'
<1>1. dir_stack' = [dir_stack EXCEPT ![s] = dir_stack[s]]
    BY DEF CarefulInv, ShellInv
<1>2. ShellFits(disk, Directories, dir_stack[s], c)
    BY IdleIsTidy DEF ShellFits
<1> QED
    BY <1>1, <1>2, StepFits

\* A shell that runs a command does so on a disk with the program.
LEMMA RunsWithProgram ==
    ASSUME CarefulInv, NEW s \in Shells, cmd[s].at # "prompt"
    PROVE  installed /\ cmd[s] # Prompt
BY DEF CarefulInv, Prompt

\* The name of the directory a shell is in is the name it has on the stack.
LEMMA OwnNameIsLast ==
    ASSUME NEW contents, NEW dirs, Tidy(contents, dirs),
           NEW stack \in Stacks, StackFits(contents, dirs, stack)
    PROVE  Slot(contents, current_parent_cluster(stack), 0).name = last_dir(stack)
<1> DEFINE n == Len(stack)
<1>1. /\ n \in Nat /\ n \in 1 .. n /\ stack[1] = RootEntry
      /\ last_dir(stack) = stack[n].name /\ current_parent_cluster(stack) = stack[n].cluster
    BY StackIsRooted
<1>2. CASE n = 1
    BY <1>1, <1>2 DEF Tidy, Good, Tree, RootEntry
<1>3. CASE n # 1
    <2> DEFINE d == stack[n - 1].cluster
    <2>1. n \in 2 .. n /\ n - 1 \in 1 .. n
        <3>1. \A m \in Nat : m \in 1 .. m /\ m # 1 => m \in 2 .. m /\ m - 1 \in 1 .. m
            OBVIOUS
        <3> QED
            BY <1>1, <1>3, <3>1, Zenon
    <2>2. PICK i \in FoldersOf(contents, d, stack[n].name) :
              Slot(contents, d, i).cluster = stack[n].cluster
        BY <2>1 DEF StackFits
    <2>3. d \in dirs
        BY <2>1 DEF StackFits
    <2> HIDE DEF d
    <2>4. NamedSlot(contents, d, i)
        BY <2>2, <2>3, ChildrenAre DEF FoldersOf
    <2>5. Slot(contents, Slot(contents, d, i).cluster, 0).name = Slot(contents, d, i).name
        BY <2>2, <2>4 DEF NamedSlot, FoldersOf
    <2>6. Slot(contents, d, i).name = stack[n].name
        BY <2>2 DEF FoldersOf
    <2> QED
        BY <1>1, <2>2, <2>5, <2>6
<1> QED
    BY <1>2, <1>3

\* What a stack has in it.
LEMMA StackHas ==
    ASSUME NEW contents, NEW dirs, NEW stack \in Stacks, StackFits(contents, dirs, stack)
    PROVE  /\ \A k \in 1 .. Len(stack) : stack[k] \in Range(stack)
           /\ [name |-> last_dir(stack), cluster |-> current_parent_cluster(stack)] \in Range(stack)
<1>1. /\ stack \in Seq(StackEntry) /\ Len(stack) \in Nat /\ Len(stack) >= 1
      /\ last_dir(stack) = stack[Len(stack)].name
      /\ current_parent_cluster(stack) = stack[Len(stack)].cluster
    BY StackIsRooted
<1>2. \A k \in 1 .. Len(stack) : stack[k] \in Range(stack)
    BY <1>1 DEF Range
<1>3. Len(stack) \in 1 .. Len(stack)
    BY <1>1
<1>4. stack[Len(stack)] \in StackEntry
    BY <1>1, <1>3, ElementOfSeq
<1>5. stack[Len(stack)] = [name |-> stack[Len(stack)].name, cluster |-> stack[Len(stack)].cluster]
    BY <1>4 DEF StackEntry
<1> QED
    BY <1>1, <1>2, <1>3, <1>5

-----------------------------------------------------------------------------
(* What careful users type *)

\* The line of a command with one path, and with two.
LineOf(line, s, op, at, content) ==
    /\ line.op = op /\ line.at = at /\ line.dir = current_parent_cluster(dir_stack[s])
    /\ line.found = <<>> /\ DOMAIN line.found = {} /\ line.content = content
    /\ line.size = IF op = "echo" THEN EchoSize ELSE CLUSTER_SIZE

LineOfOne(line, path) == line.todo = path /\ line.more = <<>> /\ DOMAIN line.more = {}

LineOfTwo(line, from, to) ==
    line.todo = from /\ line.more = <<to>> /\ \A k \in DOMAIN line.more : line.more[k] = to

LEMMA OnePath ==
    ASSUME NEW s, NEW op, NEW at, NEW path, NEW content
    PROVE  /\ LineOf(Line(s, op, at, <<path>>, content), s, op, at, content)
           /\ LineOfOne(Line(s, op, at, <<path>>, content), path)
<1>1. Head(<<path>>) = path /\ Tail(<<path>>) = <<>> /\ DOMAIN <<>> = {}
    OBVIOUS
<1> QED
    BY <1>1 DEF Line, LineOf, LineOfOne

LEMMA TwoPaths ==
    ASSUME NEW s, NEW op, NEW at, NEW from, NEW to, NEW content
    PROVE  /\ LineOf(Line(s, op, at, <<from, to>>, content), s, op, at, content)
           /\ LineOfTwo(Line(s, op, at, <<from, to>>, content), from, to)
<1>1. /\ Head(<<from, to>>) = from /\ Tail(<<from, to>>) = <<to>> /\ DOMAIN <<>> = {}
      /\ \A k \in DOMAIN <<to>> : <<to>>[k] = to
    OBVIOUS
<1> QED
    BY <1>1 DEF Line, LineOf, LineOfTwo

\* A new folder's path.
LEMMA NewFolderShape ==
    ASSUME CarefulUsers, NEW path \in NewFolders
    PROVE  /\ path \in PathsTo(Folders) /\ path \in Path
           /\ Len(path) \in {1, 2} /\ Head(path) = path[1] /\ Last(path) = path[Len(path)]
           /\ \A k \in 1 .. Len(path) : /\ path[k] \in Folders /\ path[k] # Up
                                        /\ path[k].name \in FolderNames
                                        /\ path[k] = Folder(path[k].name)
           /\ Len(path) = 2 => Tail(path) \in NewFolders /\ Tail(path) = <<path[2]>>
                               /\ path = <<path[1], path[2]>>
           /\ Len(path) = 1 => path = <<path[1]>>
<1>1. path \in PathsTo(Folders) /\ path[1] # Up /\ path \in Path
    BY PathsAre DEF NewFolders
<1>2. Folders \subseteq Component /\ Folders \in SUBSET Component
    BY PathsAre
<1>3. /\ Len(path) \in {1, 2} /\ Head(path) = path[1]
      /\ Len(path) = 1 => path[1] \in Folders /\ path = <<path[1]>> /\ Last(path) = path[1]
      /\ Len(path) = 2 => /\ path[1] \in Steps /\ path[2] \in Folders
                          /\ path = <<path[1], path[2]>> /\ Last(path) = path[2]
                          /\ Tail(path) = <<path[2]>> /\ Tail(path) \in PathsTo(Folders)
    BY <1>1, <1>2, PathShape
<1>4. \A c \in Folders : c.name \in FolderNames /\ c = Folder(c.name)
    BY DEF Folders, Folder
<1>5. Up \notin Folders
    BY <1>4, NamesApart DEF Up, Folder
<1>6. CASE Len(path) = 1
    BY <1>1, <1>3, <1>4, <1>5, <1>6
<1>7. CASE Len(path) = 2
    <2>1. path[1] \in Folders
        BY <1>1, <1>3, <1>7 DEF Steps
    <2>2. Tail(path) \in NewFolders
        <3>1. Tail(path)[1] = path[2]
            BY <1>3, <1>7
        <3> QED
            BY <1>3, <1>5, <1>7, <3>1 DEF NewFolders
    <2> QED
        BY <1>1, <1>3, <1>4, <1>5, <1>7, <2>1, <2>2
<1> QED
    BY <1>3, <1>6, <1>7

\* What Sensible says of each command.
LEMMA SensibleMkdir ==
    ASSUME NEW s, NEW path, Sensible(s, "mkdir", <<path>>)
    PROVE  \A k \in DOMAIN path :
              /\ \A e \in Range(dir_stack[s]) : e.name # path[k].name
              /\ \A j \in 1 .. (k - 1) : path[j] # path[k]
              /\ \A d \in FollowedFrom(current_parent_cluster(dir_stack[s]),
                                       SubSeq(path, 1, k - 1)) :
                    NoHoleBefore(disk, d, path[k].name)
<1>1. <<path>>[1] = path
    OBVIOUS
<1> QED
    BY <1>1, FoldersAre DEF Sensible, NoHoleBefore, TableAt, Slot

LEMMA SensibleCd ==
    ASSUME NEW s, NEW path, Sensible(s, "cd", <<path>>)
    PROVE  Len(dir_stack[s]) + Descents(path) < MAX_DIR_LENGTH
<1>1. <<path>>[1] = path
    OBVIOUS
<1> QED
    BY <1>1 DEF Sensible

LEMMA SensibleRmdir ==
    ASSUME NEW s \in Shells, NEW path, Sensible(s, "rmdir", <<path>>), dir_stack[s] \in Stacks,
           StackFits(disk, Directories, dir_stack[s])
    PROVE  \E d \in FollowedFrom(current_parent_cluster(dir_stack[s]), path) :
              IsAside(dir_stack[s], d)
<1>1. <<path>>[1] = path
    OBVIOUS
<1>2. PICK d \in FollowedFrom(current_parent_cluster(dir_stack[s]), path) :
          \A e \in Range(dir_stack[s]) : e.cluster # d
    BY <1>1 DEF Sensible
<1> QED
    BY <1>2, StackHas DEF IsAside

LEMMA SensibleMv ==
    ASSUME NEW s, NEW from, NEW to, Sensible(s, "mv", <<from, to>>)
    PROVE  LET cwd == current_parent_cluster(dir_stack[s])
           IN  /\ FollowedFrom(cwd, Front(from)) # {} /\ FollowedFrom(cwd, Front(to)) # {}
               /\ FollowedFrom(cwd, Front(from)) \cap FollowedFrom(cwd, Front(to)) = {}
<1>1. <<from, to>>[1] = from /\ <<from, to>>[2] = to
    OBVIOUS
<1>2. /\ {} \notin {Target(s, from), Target(s, to)}
      /\ Target(s, from) \cap Target(s, to) = {}
    BY <1>1 DEF Sensible
<1> QED
    BY <1>2 DEF Target

\* A command just typed fits the disk and the stack it was typed for.
TypedFor(s, op, at, paths, content) ==
    CommandFits(disk, Directories, dir_stack[s], Line(s, op, at, paths, content))

LEMMA TypedMkdir ==
    ASSUME CarefulInv, CarefulUsers, Idle, NEW s \in Shells, NEW path \in NewFolders,
           Sensible(s, "mkdir", <<path>>)
    PROVE  TypedFor(s, "mkdir", "make", <<path>>, <<>>)
<1> DEFINE c == Line(s, "mkdir", "make", <<path>>, <<>>)
           stack == dir_stack[s]
           cwd == current_parent_cluster(stack)
<1>1. /\ c.op = "mkdir" /\ c.at = "make" /\ c.todo = path /\ c.dir = cwd /\ c.found = <<>>
      /\ DOMAIN c.found = {}
    <2>1. LineOf(c, s, "mkdir", "make", <<>>) /\ LineOfOne(c, path)
        BY OnePath, Zenon
    <2> HIDE DEF c
    <2> QED
        BY <2>1 DEF LineOf, LineOfOne
<1>2. /\ Tidy(disk, Directories) /\ StackFits(disk, Directories, stack) /\ stack \in Stacks
      /\ disk \in [Cluster -> Content]
    BY IdleIsTidy DEF ShellFits, CarefulInv, ShellInv
<1>3. cwd \in Directories /\ cwd \in Cluster /\ Slot(disk, cwd, 0).name = last_dir(stack)
    BY <1>2, WorkingDirectoryIsThere, OwnNameIsLast, IdleIsTidy
<1>4. \E e \in Range(stack) : e.name = last_dir(stack)
    BY <1>2, StackHas
<1>5. /\ Len(path) \in {1, 2} /\ DOMAIN path = 1 .. Len(path)
      /\ \A k \in 1 .. Len(path) : path[k] # Up /\ path[k] = Folder(path[k].name)
      /\ Len(path) = 2 => path = <<path[1], path[2]>>
      /\ Len(path) = 1 => path = <<path[1]>>
    <2>1. path \in Seq(Component)
        BY NewFolderShape DEF Path
    <2> QED
        BY <2>1, NewFolderShape
<1> HIDE DEF c, cwd
<1>6. \A k \in 1 .. Len(path) :
          /\ path[k].name # Slot(disk, cwd, 0).name
          /\ \A j \in 1 .. (k - 1) : path[j] # path[k]
          /\ \A d \in FollowedFrom(cwd, SubSeq(path, 1, k - 1)) :
                NoHoleBefore(disk, d, path[k].name)
    <2>1. \A k \in DOMAIN path :
              /\ \A e \in Range(stack) : e.name # path[k].name
              /\ \A j \in 1 .. (k - 1) : path[j] # path[k]
              /\ \A d \in FollowedFrom(cwd, SubSeq(path, 1, k - 1)) :
                    NoHoleBefore(disk, d, path[k].name)
        BY SensibleMkdir, Zenon DEF cwd
    <2> QED
        BY <1>3, <1>4, <1>5, <2>1, Zenon
<1>7. NewNames(disk, c)
    <2>1. Len(path) = 2 => path[1] # path[2]
        <3>1. 2 \in 1 .. 2 /\ 1 \in 1 .. (2 - 1)
            OBVIOUS
        <3> QED
            BY <1>6, <3>1
    <2>2. Len(path) = 2 => path[1].name # path[2].name
        <3>1. 1 \in 1 .. 2 /\ 2 \in 1 .. 2
            OBVIOUS
        <3>2. Len(path) = 2 => path[1] = Folder(path[1].name) /\ path[2] = Folder(path[2].name)
            BY <1>5, <3>1
        <3> QED
            BY <2>1, <3>2
    <2> QED
        BY <1>1, <1>6, <2>2 DEF NewNames
<1>8. NewPlaces(disk, c)
    <2>1. NoHoleBefore(disk, cwd, path[1].name)
        <3>1. 1 \in 1 .. Len(path) /\ SubSeq(path, 1, 1 - 1) = <<>>
            BY <1>5
        <3>2. FollowedFrom(cwd, <<>>) = {cwd}
            BY <1>2, <1>3, ShortPaths
        <3> QED
            BY <1>6, <3>1, <3>2
    <2>2. ASSUME Len(path) = 2
          PROVE  \A d \in Led(disk, cwd, path[1]) : NoHoleBefore(disk, d, path[2].name)
        <3>1. 2 \in 1 .. Len(path) /\ 2 - 1 = 1
            BY <2>2
        <3>2. SubSeq(path, 1, 1) = <<path[1]>>
            BY <1>5, <2>2, Pairs, Zenon
        <3>3. FollowedFrom(cwd, <<path[1]>>) = Led(disk, cwd, path[1])
            BY <1>2, <1>3, ShortPaths
        <3> QED
            BY <1>6, <3>1, <3>2, <3>3
    <2> QED
        BY <1>1, <2>1, <2>2 DEF NewPlaces
<1>9. CommandFits(disk, Directories, stack, c)
    BY <1>1, <1>3, <1>7, <1>8 DEF CommandFits
<1> QED
    BY <1>9 DEF TypedFor, c

LEMMA TypedRmdir ==
    ASSUME CarefulInv, CarefulUsers, Idle, NEW s \in Shells,
           NEW path \in PathsTo(Folders), Sensible(s, "rmdir", <<path>>)
    PROVE  TypedFor(s, "rmdir", "search", <<path>>, <<>>)
<1> DEFINE c == Line(s, "rmdir", "search", <<path>>, <<>>)
           stack == dir_stack[s]
           cwd == current_parent_cluster(stack)
<1>1. /\ c.op = "rmdir" /\ c.at = "search" /\ c.todo = path /\ c.dir = cwd
      /\ c.found = <<>> /\ c.more = <<>> /\ DOMAIN c.found = {} /\ DOMAIN c.more = {}
    <2>1. LineOf(c, s, "rmdir", "search", <<>>) /\ LineOfOne(c, path)
        BY OnePath, Zenon
    <2> HIDE DEF c
    <2> QED
        BY <2>1 DEF LineOf, LineOfOne
<1>2. /\ disk \in [Cluster -> Content] /\ stack \in Stacks /\ StackFits(disk, Directories, stack)
      /\ cwd \in Directories /\ cwd \in Cluster
    BY IdleIsTidy, WorkingDirectoryIsThere DEF ShellFits, CarefulInv, ShellInv
<1>3. FollowedFrom(cwd, path) = AllLed(disk, ToDir(disk, cwd, path), Last(path))
    BY <1>2, PathLeads, PathsAre
<1>4. \E d \in FollowedFrom(cwd, path) : IsAside(stack, d)
    BY <1>2, SensibleRmdir
<1> HIDE DEF c, cwd
<1>5. PathFits(disk, stack, c) /\ TargetIsAside(disk, stack, c)
    BY <1>1, <1>3, <1>4 DEF PathFits, TargetIsAside, cwd
<1>6. CommandFits(disk, Directories, stack, c)
    BY <1>1, <1>2, <1>5 DEF CommandFits
<1> QED
    BY <1>6 DEF TypedFor, c

\* cat and rm of a file, and echo.
LEMMA TypedFile ==
    ASSUME CarefulInv, CarefulUsers, Idle, NEW s \in Shells,
           NEW path \in PathsTo(Files), NEW op \in {"cat", "rm", "echo"}, NEW content,
           op = "echo" => IsText(content, EchoSize)
    PROVE  TypedFor(s, op, "search", <<path>>, content)
<1> DEFINE c == Line(s, op, "search", <<path>>, content)
           stack == dir_stack[s]
           cwd == current_parent_cluster(stack)
<1>1. /\ c.op = op /\ c.at = "search" /\ c.todo = path /\ c.dir = cwd
      /\ c.found = <<>> /\ c.more = <<>> /\ DOMAIN c.found = {} /\ DOMAIN c.more = {}
      /\ c.content = content /\ (op = "echo" => c.size = EchoSize)
    <2>1. LineOf(c, s, op, "search", content) /\ LineOfOne(c, path)
        BY OnePath, Zenon
    <2> HIDE DEF c
    <2> QED
        BY <2>1 DEF LineOf, LineOfOne
<1>2. cwd \in Directories
    BY IdleIsTidy, WorkingDirectoryIsThere DEF ShellFits, CarefulInv, ShellInv
<1> HIDE DEF c, cwd
<1>3. PathFits(disk, stack, c)
    BY <1>1 DEF PathFits, cwd
<1>4. CommandFits(disk, Directories, stack, c)
    BY <1>1, <1>2, <1>3 DEF CommandFits
<1> QED
    BY <1>4 DEF TypedFor, c

\* cp and mv.
LEMMA TypedPair ==
    ASSUME CarefulInv, CarefulUsers, Idle, NEW s \in Shells,
           NEW op \in {"cp", "mv"}, NEW from \in PathsTo(Files), NEW to \in PathsTo(Files),
           Sensible(s, op, <<from, to>>)
    PROVE  TypedFor(s, op, "search", <<from, to>>, <<>>)
<1> DEFINE c == Line(s, op, "search", <<from, to>>, <<>>)
           stack == dir_stack[s]
           cwd == current_parent_cluster(stack)
<1>1. /\ c.op = op /\ c.at = "search" /\ c.todo = from /\ c.dir = cwd
      /\ c.found = <<>> /\ c.more = <<to>> /\ DOMAIN c.found = {}
      /\ \A k \in DOMAIN c.more : c.more[k] = to
    <2>1. LineOf(c, s, op, "search", <<>>) /\ LineOfTwo(c, from, to)
        BY TwoPaths, Zenon
    <2> HIDE DEF c
    <2> QED
        BY <2>1 DEF LineOf, LineOfTwo
<1>2. /\ disk \in [Cluster -> Content] /\ stack \in Stacks
      /\ cwd \in Directories /\ cwd \in Cluster
    BY IdleIsTidy, WorkingDirectoryIsThere DEF ShellFits, CarefulInv, ShellInv
<1>3. /\ FollowedFrom(cwd, Front(from)) = ToDir(disk, cwd, from)
      /\ FollowedFrom(cwd, Front(to)) = ToDir(disk, cwd, to)
    BY <1>2, PathLeads, PathsAre
<1>4. op = "mv" => /\ ToDir(disk, cwd, from) # {} /\ ToDir(disk, cwd, to) # {}
                   /\ ToDir(disk, cwd, from) \cap ToDir(disk, cwd, to) = {}
    <2>1. ASSUME op = "mv"
          PROVE  /\ FollowedFrom(cwd, Front(from)) # {} /\ FollowedFrom(cwd, Front(to)) # {}
                 /\ FollowedFrom(cwd, Front(from)) \cap FollowedFrom(cwd, Front(to)) = {}
        <3>1. Sensible(s, "mv", <<from, to>>)
            BY <2>1
        <3> QED
            BY <3>1, SensibleMv, Zenon
    <2> QED
        BY <1>3, <2>1, Zenon
<1> HIDE DEF c, cwd
<1>5. PathFits(disk, stack, c)
    BY <1>1 DEF PathFits, cwd
<1>6. op = "mv" => Apart(disk, stack, c)
    BY <1>1, <1>4 DEF Apart, cwd
<1>7. CommandFits(disk, Directories, stack, c)
    BY <1>1, <1>2, <1>5, <1>6 DEF CommandFits
<1> QED
    BY <1>7 DEF TypedFor, c

LEMMA TypedCd ==
    ASSUME CarefulInv, CarefulUsers, Idle, NEW s \in Shells,
           NEW path \in PathsTo(Folders \cup {Up}), Sensible(s, "cd", <<path>>)
    PROVE  TypedFor(s, "cd", "enter", <<path>>, <<>>)
<1> DEFINE c == Line(s, "cd", "enter", <<path>>, <<>>)
           stack == dir_stack[s]
           cwd == current_parent_cluster(stack)
<1>1. /\ c.op = "cd" /\ c.at = "enter" /\ c.todo = path /\ c.dir = cwd
      /\ c.found = <<>> /\ DOMAIN c.found = {}
    <2>1. LineOf(c, s, "cd", "enter", <<>>) /\ LineOfOne(c, path)
        BY OnePath, Zenon
    <2> HIDE DEF c
    <2> QED
        BY <2>1 DEF LineOf, LineOfOne
<1>2. cwd \in Directories
    BY IdleIsTidy, WorkingDirectoryIsThere DEF ShellFits, CarefulInv, ShellInv
<1>3. Len(stack) + Descents(path) < MAX_DIR_LENGTH
    BY SensibleCd
<1> HIDE DEF c, cwd
<1>4. CommandFits(disk, Directories, stack, c)
    BY <1>1, <1>2, <1>3 DEF CommandFits
<1> QED
    BY <1>4 DEF TypedFor, c

\* A buffer users write has one of the texts.
LEMMA BufferFits ==
    ASSUME NEW tag \in Tags, NEW size \in FileSizes
    PROVE  IsText(Buffer(tag, size), size)
<1>1. CASE OneShell
    BY <1>1, BufferIsText DEF IsText, Texts
<1>2. CASE ~OneShell
    <2> DEFINE n == ClustersFor(size)
               text == [j \in Nat \ {0} |-> IF j <= n THEN Data(tag, j) ELSE Blank]
    <2>1. ClusterAmount(size) \in Nat \ {0} /\ n \in 1 .. ClusterAmount(size)
        BY BlocksFit
    <2>2. text \in PaddedTexts
        BY <2>1 DEF PaddedTexts
    <2>3. ASSUME NEW j \in 1 .. n PROVE Buffer(tag, size)[j] = text[j]
        BY <2>1 DEF Buffer
    <2> HIDE DEF text
    <2> QED
        BY <1>2, <2>2, <2>3 DEF IsText, Texts
<1> QED
    BY <1>1, <1>2

LEMMA EnterFits ==
    ASSUME CarefulInv, CarefulUsers, NEW s \in Shells, Enter(s)
    PROVE  CarefulInv'
<1>1. /\ Idle /\ installed /\ UNCHANGED <<vars, dir_stack, installed>> /\ ShellInv'
    BY EnterKeeps DEF Enter, CarefulInv
<1>2. ASSUME NEW op, NEW at, NEW paths, NEW content,
             Types(s, op, at, paths, content),
             Sensible(s, op, paths) => TypedFor(s, op, at, paths, content)
      PROVE  CarefulInv'
    <2>1. Sensible(s, op, paths)
        BY <1>2 DEF CarefulUsers, Types
    <2>2. CommandFits(disk, Directories, dir_stack[s], Line(s, op, at, paths, content))
        BY <1>2, <2>1 DEF TypedFor
    <2>3. Continue(s, Line(s, op, at, paths, content))
        BY <1>2 DEF Types, Continue
    <2> QED
        BY <1>1, <2>2, <2>3, GoesOnFits
<1>3. CASE \E path \in PathsTo(Folders \cup {Up}) : Types(s, "cd", "enter", <<path>>, <<>>)
    BY <1>1, <1>2, <1>3, TypedCd
<1>4. CASE \E path \in NewFolders : Types(s, "mkdir", "make", <<path>>, <<>>)
    BY <1>1, <1>2, <1>4, TypedMkdir
<1>5. CASE \E path \in PathsTo(Folders) : Types(s, "rmdir", "search", <<path>>, <<>>)
    BY <1>1, <1>2, <1>5, TypedRmdir
<1>6. CASE \E op \in {"cat", "rm"}, path \in PathsTo(Files) :
              Types(s, op, "search", <<path>>, <<>>)
    <2>1. PICK op \in {"cat", "rm"}, path \in PathsTo(Files) :
              Types(s, op, "search", <<path>>, <<>>)
        BY <1>6
    <2>2. TypedFor(s, op, "search", <<path>>, <<>>)
        BY <1>1, TypedFile
    <2> QED
        BY <1>2, <2>1, <2>2
<1>7. CASE \E op \in {"cp", "mv"}, from \in PathsTo(Files), to \in PathsTo(Files) :
              Types(s, op, "search", <<from, to>>, <<>>)
    BY <1>1, <1>2, <1>7, TypedPair
<1>8. CASE \E path \in PathsTo(Files), tag \in Tags :
              Types(s, "echo", "search", <<path>>, Buffer(tag, EchoSize))
    <2>1. PICK path \in PathsTo(Files), tag \in Tags :
              Types(s, "echo", "search", <<path>>, Buffer(tag, EchoSize))
        BY <1>8
    <2>2. IsText(Buffer(tag, EchoSize), EchoSize)
        BY BufferFits, ShellConstants
    <2>3. TypedFor(s, "echo", "search", <<path>>, Buffer(tag, EchoSize))
        BY <1>1, <2>2, TypedFile
    <2> QED
        BY <1>2, <2>1, <2>3
<1> QED
    BY <1>3, <1>4, <1>5, <1>6, <1>7, <1>8 DEF Enter

-----------------------------------------------------------------------------
(* Looking for paths *)

\* Own names are no names of folders a user looks for among children, except that
\* a folder may be looked for in one of its name, where there is none.
LEMMA FirstFound ==
    ASSUME CarefulUsers, NEW contents \in [Cluster -> Content], NEW dirs, Tidy(contents, dirs),
           NEW d \in dirs, NEW component \in Folders \cup {Up},
           NEW found, found = Found(AsTable(contents[d]), component.name, component.ext),
           found # {}
    PROVE  /\ Slot(contents, d, FirstIndex(found)).cluster \in dirs
           /\ Led(contents, d, component) # {} =>
                 Slot(contents, d, FirstIndex(found)).cluster \in Led(contents, d, component)
<1> DEFINE i == FirstIndex(found)
<1>1. i \in found /\ i \in Index
    <2>1. found \in SUBSET Index /\ Index \subseteq Nat
        BY Constants DEF Found
    <2> QED
        BY <2>1, FirstIsMember
<1>2. Slot(contents, d, i).live /\ Slot(contents, d, i).name = component.name
    BY <1>1 DEF Found, Slot
<1> HIDE DEF i
<1>3. /\ d \in Cluster /\ Slot(contents, d, 0).name \in FolderNames \cup {RootName}
      /\ Slot(contents, d, 1).name = ParentName
      /\ Slot(contents, d, 0).cluster \in dirs /\ Slot(contents, d, 1).cluster \in dirs
    BY OwnEntries
<1>4. i = 0 \/ i = 1 \/ i \in ChildIndex
    BY <1>1, FAT32Assumption DEF FAT32Assumption, Index, ChildIndex
<1>5. Labelled(contents, dirs)
    BY DEF Tidy, Good
<1>6. RootName # ParentName /\ ParentName \notin Names /\ RootName \notin Names
      /\ FolderNames \subseteq Names
    <2>1. RootName \in {RootName, ParentName} /\ ParentName \in {RootName, ParentName}
        OBVIOUS
    <2>2. RootName # ParentName
        BY DEF RootName, ParentName
    <2> QED
        BY <2>1, <2>2, ShellConstants DEF CarefulUsers
<1>7. CASE component = Up
    <2>1. component.name = ParentName
        BY <1>7 DEF Up, Folder
    <2>2. i = 1
        BY <1>2, <1>3, <1>4, <1>5, <1>6, <2>1 DEF Labelled
    <2> QED
        BY <1>3, <1>7, <2>2 DEF Led, i
<1>8. CASE component # Up
    <2>1. component.name \in FolderNames
        BY <1>8 DEF Folders, Folder
    <2>2. i \in ChildIndex => /\ Slot(contents, d, i).cluster \in dirs
                              /\ Slot(contents, d, i).cluster \in Led(contents, d, component)
        <3>1. i \in ChildIndex => FolderAt(contents, d, i) /\ Slot(contents, d, i).cluster \in dirs
            BY <1>2, <2>1, ChildrenAre
        <3> QED
            BY <1>2, <1>8, <3>1 DEF Led, FoldersOf
    <2>3. i # 1
        BY <1>2, <1>3, <1>6, <2>1
    <2>4. i = 0 => Led(contents, d, component) = {}
        <3> SUFFICES ASSUME i = 0, NEW j \in FoldersOf(contents, d, component.name) PROVE FALSE
            BY <1>8 DEF Led
        <3>1. j \in ChildIndex /\ FolderAt(contents, d, j)
              /\ Slot(contents, d, j).name = component.name
            BY DEF FoldersOf
        <3>2. NamedSlot(contents, d, j)
            BY <3>1, ChildrenAre
        <3> QED
            BY <1>2, <3>1, <3>2 DEF NamedSlot
    <2> QED
        BY <1>3, <1>4, <2>2, <2>3, <2>4 DEF i
<1> QED
    BY <1>7, <1>8

\* A file that is found by its name is a file.
LEMMA FirstFile ==
    ASSUME CarefulUsers, NEW contents \in [Cluster -> Content], NEW dirs, Tidy(contents, dirs),
           NEW d \in dirs, NEW name \in FileNames, NEW ext, NEW files,
           files = {i \in Found(AsTable(contents[d]), name, ext) : ~AsTable(contents[d])[i].folder},
           files # {}
    PROVE  LET entry == Slot(contents, d, FirstIndex(files))
           IN  /\ FirstIndex(files) \in ChildIndex /\ FileAt(contents, d, FirstIndex(files))
               /\ entry.filesize \in FileSizes
               /\ IsFile(Texts, contents, MapOn(contents), dirs, entry)
<1> DEFINE i == FirstIndex(files)
<1>1. i \in files /\ i \in Index
    <2>1. files \in SUBSET Index /\ Index \subseteq Nat
        BY Constants DEF Found
    <2> QED
        BY <2>1, FirstIsMember
<1>2. /\ Slot(contents, d, i).live /\ ~Slot(contents, d, i).folder
      /\ Slot(contents, d, i).name = name
    BY <1>1 DEF Found, Slot
<1> HIDE DEF i
<1>3. Slot(contents, d, 0).folder /\ Slot(contents, d, 1).name = ParentName
    BY OwnEntries
<1>4. i \in ChildIndex
    <2>1. i = 0 \/ i = 1 \/ i \in ChildIndex
        BY <1>1, FAT32Assumption DEF FAT32Assumption, Index, ChildIndex
    <2> QED
        BY <1>2, <1>3, <2>1, NamesApart
<1>5. FileAt(contents, d, i)
    BY <1>2 DEF FileAt
<1>6. IsFile(Texts, contents, MapOn(contents), dirs, Slot(contents, d, i))
    BY <1>4, <1>5 DEF Tidy, Good, Chains
<1> QED
    BY <1>4, <1>5, <1>6 DEF i, IsFile

\* The first buffer of cp is as long as the file, or the last one was too short.
LEMMA FirstBuffer ==
    ASSUME CarefulUsers, NEW contents \in [Cluster -> Content], NEW dirs, Tidy(contents, dirs),
           NEW c, c.found[1].dir \in dirs, c.found[1].name \in FileNames, c.size = CLUSTER_SIZE
    PROVE  NotTooLong(contents, c)
<1> DEFINE from == c.found[1]
           table == AsTable(contents[from.dir])
           files == {i \in Found(table, from.name, from.ext) : ~table[i].folder}
<1>1. ASSUME files # {} PROVE 0 < table[FirstIndex(files)].filesize
    <2>1. Slot(contents, from.dir, FirstIndex(files)).filesize \in FileSizes
        BY <1>1, FirstFile
    <2> QED
        <3> HIDE DEF files
        <3>1. table[FirstIndex(files)].filesize \in FileSizes
            BY <2>1 DEF Slot
        <3>2. \A size \in FileSizes : 0 < size
            BY ShellConstants
        <3> QED
            BY <3>1, <3>2, Zenon
<1>2. c.size = (0 + 1) * CLUSTER_SIZE /\ 0 * CLUSTER_SIZE = 0 /\ 0 \in Nat
    BY ShellConstants
<1> HIDE DEF files, table
<1>3. files # {} => \E n \in Nat : /\ c.size = (n + 1) * CLUSTER_SIZE
                                   /\ n * CLUSTER_SIZE < table[FirstIndex(files)].filesize
    BY <1>1, <1>2
<1> QED
    BY <1>3 DEF NotTooLong, files, table

\* What is in a sequence with one element more.
LEMMA OneMore ==
    ASSUME NEW T, NEW seq \in Seq(T), NEW e \in T
    PROVE  LET more == Append(seq, e)
           IN  /\ \A k \in DOMAIN more : more[k] = e \/ (k \in DOMAIN seq /\ more[k] = seq[k])
               /\ seq = <<>> => more[1] = e /\ more = <<e>>
               /\ seq # <<>> => more[1] = seq[1]
               /\ Len(seq) = 1 => more[2] = e /\ more[1] = seq[1] /\ 1 \in DOMAIN seq
<1> DEFINE more == Append(seq, e)
<1>1. /\ Len(seq) \in Nat /\ DOMAIN seq = 1 .. Len(seq)
      /\ more \in Seq(T) /\ DOMAIN more = 1 .. (Len(seq) + 1)
      /\ \A k \in 1 .. Len(seq) : more[k] = seq[k]
      /\ more[Len(seq) + 1] = e
    BY AppendProperties
<1>2. seq # <<>> => Len(seq) # 0
    BY EmptySeq
<1>3. \A n \in Nat : /\ \A k \in 1 .. (n + 1) : k = n + 1 \/ k \in 1 .. n
                     /\ n # 0 => 1 \in 1 .. n
    OBVIOUS
<1>4. seq = <<>> => more = <<e>>
    OBVIOUS
<1>5. seq = <<>> => more[1] = e
    BY <1>4
<1>6. 1 + 1 = 2
    OBVIOUS
<1> HIDE DEF more
<1>7. \A k \in DOMAIN more : more[k] = e \/ (k \in DOMAIN seq /\ more[k] = seq[k])
    BY <1>1, <1>3
<1>8. seq # <<>> => more[1] = seq[1]
    BY <1>1, <1>2, <1>3
<1>9. Len(seq) = 1 => more[2] = e /\ more[1] = seq[1] /\ 1 \in DOMAIN seq
    BY <1>1, <1>3, <1>6
<1> QED
    BY <1>4, <1>5, <1>7, <1>8, <1>9 DEF more

\* A sequence with an element less.
LEMMA OneLess ==
    ASSUME NEW T, NEW seq \in Seq(T), seq # <<>>
    PROVE  /\ 1 \in DOMAIN seq /\ Head(seq) = seq[1]
           /\ \A k \in DOMAIN Tail(seq) : k + 1 \in DOMAIN seq /\ Tail(seq)[k] = seq[k + 1]
           /\ Len(seq) = 1 => DOMAIN Tail(seq) = {}
           /\ Len(seq) \in Nat \ {0}
<1>1. Len(seq) \in Nat \ {0}
    BY EmptySeq
<1>2. 1 \in DOMAIN seq /\ Head(seq) = seq[1]
    BY <1>1
<1>3. /\ Len(Tail(seq)) = Len(seq) - 1 /\ DOMAIN Tail(seq) = 1 .. (Len(seq) - 1)
      /\ \A k \in 1 .. (Len(seq) - 1) : Tail(seq)[k] = seq[k + 1]
    BY <1>1, HeadTailProperties
<1>4. \A n \in Nat : \A k \in 1 .. (n - 1) : k + 1 \in 1 .. n
    OBVIOUS
<1>5. DOMAIN seq = 1 .. Len(seq)
    OBVIOUS
<1>6. \A n \in Nat : n = 1 => 1 .. (n - 1) = {}
    OBVIOUS
<1> QED
    BY <1>1, <1>2, <1>3, <1>4, <1>5, <1>6, Zenon

\* What a command knows while it looks for a path.
LEMMA Searching ==
    ASSUME CarefulInv, CarefulUsers, NEW s \in Shells, LookUp(s)
    PROVE  LET c == cmd[s]
               stack == dir_stack[s]
           IN  /\ Idle /\ installed /\ ShellInv' /\ UNCHANGED <<vars, dir_stack, installed>>
               /\ disk \in [Cluster -> Content] /\ Tidy(disk, Directories)
               /\ stack \in Stacks /\ StackFits(disk, Directories, stack)
               /\ current_parent_cluster(stack) \in Directories
               /\ c \in Command /\ Ready(c) /\ c.at = "search" /\ c.dir \in Directories
               /\ CommandFits(disk, Directories, stack, c) /\ PathFits(disk, stack, c)
               /\ c.op = "rmdir" => OneShell /\ TargetIsAside(disk, stack, c)
               /\ c.op = "mv" => Apart(disk, stack, c)
<1> DEFINE c == cmd[s]
           stack == dir_stack[s]
<1>1. Idle /\ c.at = "search" /\ UNCHANGED <<vars, dir_stack, installed>>
    BY DEF LookUp, Running
<1>2. ShellInv' /\ installed /\ c # Prompt /\ c \in Command /\ Ready(c) /\ stack \in Stacks
    BY <1>1, LookUpKeeps, RunsWithProgram, CommandRuns DEF CarefulInv, ShellInv
<1>3. /\ disk \in [Cluster -> Content] /\ Tidy(disk, Directories)
      /\ ShellFits(disk, Directories, stack, c)
    BY <1>1, IdleIsTidy
<1>4. CommandFits(disk, Directories, stack, c) /\ StackFits(disk, Directories, stack)
    BY <1>2, <1>3 DEF ShellFits
<1>5. current_parent_cluster(stack) \in Directories
    BY <1>2, <1>4, WorkingDirectoryIsThere
<1>6. c.op = "rmdir" => OneShell
    BY <1>2 DEF CarefulUsers, Command
<1> HIDE DEF c, stack
<1>7. /\ c.dir \in Directories /\ PathFits(disk, stack, c)
      /\ c.op = "rmdir" => TargetIsAside(disk, stack, c)
      /\ c.op = "mv" => Apart(disk, stack, c)
    BY <1>1, <1>4 DEF CommandFits
<1> QED
    BY <1>1, <1>2, <1>3, <1>4, <1>5, <1>6, <1>7 DEF c, stack

\* The folder a path begins with.
LEMMA LookUpFolder ==
    ASSUME CarefulInv, CarefulUsers, NEW s \in Shells, LookUp(s), Len(cmd[s].todo) > 1,
           NEW found, found = Found(TableAt(cmd[s].dir), Head(cmd[s].todo).name,
                                    Head(cmd[s].todo).ext),
           found # {},
           Continue(s, [cmd[s] EXCEPT !.todo = Tail(cmd[s].todo),
                           !.dir = TableAt(cmd[s].dir)[FirstIndex(found)].cluster])
    PROVE  CarefulInv'
<1> DEFINE c == cmd[s]
           stack == dir_stack[s]
           into == TableAt(c.dir)[FirstIndex(found)].cluster
           next == [c EXCEPT !.todo = Tail(c.todo), !.dir = into]
           S == IF c.op = "rmdir" THEN Folders ELSE Files
<1>1. /\ Idle /\ installed /\ ShellInv' /\ UNCHANGED <<vars, dir_stack, installed>>
      /\ disk \in [Cluster -> Content] /\ Tidy(disk, Directories)
      /\ c \in Command /\ c.at = "search" /\ c.dir \in Directories
      /\ CommandFits(disk, Directories, stack, c) /\ PathFits(disk, stack, c)
      /\ c.op = "rmdir" => OneShell /\ TargetIsAside(disk, stack, c)
      /\ c.op = "mv" => Apart(disk, stack, c)
    BY Searching
<1>2. S \in SUBSET Component /\ c.todo \in PathsTo(S)
    BY <1>1, PathsAre DEF PathFits
<1>3. /\ Len(c.todo) = 2 /\ Head(c.todo) = c.todo[1] /\ c.todo[1] \in Steps
      /\ Tail(c.todo) = <<c.todo[2]>> /\ Tail(c.todo) \in PathsTo(S)
      /\ Last(c.todo) = c.todo[2]
    <2>1. Len(c.todo) # 1
        <3>1. ~(1 > 1)
            OBVIOUS
        <3> QED
            BY <3>1, Zenon
    <2>2. Len(c.todo) = 2
        BY <1>2, <2>1, PathShape
    <2> QED
        BY <1>2, <2>2, PathShape
<1>4. /\ next.todo = <<c.todo[2]>> /\ next.todo \in PathsTo(S) /\ next.dir = into
      /\ next.op = c.op /\ next.at = "search" /\ next.more = c.more /\ next.found = c.found
      /\ next.content = c.content /\ next.size = c.size
    BY <1>1, <1>3 DEF Command
<1>5. /\ into \in Directories
      /\ Led(disk, c.dir, c.todo[1]) # {} => into \in Led(disk, c.dir, c.todo[1])
    <2>1. c.todo[1] \in Folders \cup {Up}
        BY <1>3 DEF Steps
    <2>2. into = Slot(disk, c.dir, FirstIndex(found)).cluster
        BY DEF Slot, TableAt
    <2>3. found = Found(AsTable(disk[c.dir]), c.todo[1].name, c.todo[1].ext)
        BY <1>3 DEF TableAt
    <2> HIDE DEF into, c
    <2> QED
        BY <1>1, <2>1, <2>2, <2>3, FirstFound
<1>6. /\ Len(next.todo) = 1 /\ Last(next.todo) = c.todo[2]
      /\ ToDir(disk, next.dir, next.todo) = {into}
      /\ ToDir(disk, c.dir, c.todo) = Led(disk, c.dir, c.todo[1])
    <2>1. Len(<<c.todo[2]>>) = 1 /\ Last(<<c.todo[2]>>) = c.todo[2]
        BY DEF Last
    <2> HIDE DEF next, into, c
    <2> QED
        BY <1>3, <1>4, <2>1 DEF ToDir
<1> HIDE DEF next, into, c, S, stack
<1>7. PathFits(disk, stack, next)
    BY <1>1, <1>4, <1>6 DEF PathFits, S
<1>8. c.op = "rmdir" => TargetIsAside(disk, stack, next)
    <2> SUFFICES ASSUME c.op = "rmdir" PROVE TargetIsAside(disk, stack, next)
        OBVIOUS
    <2>1. PICK d \in AllLed(disk, Led(disk, c.dir, c.todo[1]), c.todo[2]) : IsAside(stack, d)
        BY <1>1, <1>3, <1>6 DEF TargetIsAside
    <2>2. PICK x \in Led(disk, c.dir, c.todo[1]) : d \in Led(disk, x, c.todo[2])
        BY <2>1 DEF AllLed
    <2>3. x = into
        BY <1>1, <1>5, <2>2, LedIsOne
    <2>4. d \in AllLed(disk, {into}, c.todo[2])
        BY <2>2, <2>3 DEF AllLed
    <2> QED
        BY <1>6, <2>1, <2>4 DEF TargetIsAside
<1>9. c.op = "mv" => Apart(disk, stack, next)
    BY <1>1, <1>4, <1>5, <1>6 DEF Apart
<1>10. CommandFits(disk, Directories, stack, next)
    BY <1>1, <1>4, <1>5, <1>7, <1>8, <1>9 DEF CommandFits
<1>11. Continue(s, next)
    BY DEF next, into, c
<1> QED
    BY <1>1, <1>10, <1>11, GoesOnFits DEF stack

\* A path that leads somewhere, when there is another one to look for.
LEMMA LookUpOther ==
    ASSUME CarefulInv, CarefulUsers, NEW s \in Shells, LookUp(s), Len(cmd[s].todo) = 1,
           cmd[s].more # <<>>,
           NEW place, place = [dir |-> cmd[s].dir, name |-> Head(cmd[s].todo).name,
                               ext |-> Head(cmd[s].todo).ext],
           Continue(s, [cmd[s] EXCEPT !.found = Append(cmd[s].found, place),
                           !.todo = Head(cmd[s].more), !.more = Tail(cmd[s].more),
                           !.dir = current_parent_cluster(dir_stack[s])])
    PROVE  CarefulInv'
<1> DEFINE c == cmd[s]
           stack == dir_stack[s]
           cwd == current_parent_cluster(stack)
           next == [c EXCEPT !.found = Append(c.found, place), !.todo = Head(c.more),
                             !.more = Tail(c.more), !.dir = cwd]
<1>1. /\ Idle /\ installed /\ ShellInv' /\ UNCHANGED <<vars, dir_stack, installed>>
      /\ cwd \in Directories
      /\ c \in Command /\ Ready(c) /\ c.at = "search" /\ c.dir \in Directories
      /\ CommandFits(disk, Directories, stack, c) /\ PathFits(disk, stack, c)
      /\ c.op = "mv" => Apart(disk, stack, c)
    BY Searching
<1>2. c.op \in {"cp", "mv"} /\ c.todo \in PathsTo(Files)
    BY <1>1 DEF PathFits
<1>3. Files \in SUBSET Component /\ \A f \in Files : f.name \in FileNames
    BY PathsAre DEF Files
<1>4. Head(c.todo) \in Files /\ Head(c.todo).name \in FileNames
    BY <1>2, <1>3, PathShape
<1>5. place \in Place /\ place.dir = c.dir /\ place.name \in FileNames
    <2>1. Head(c.todo) \in Component
        BY <1>3, <1>4
    <2>2. c.dir \in Aside
        BY <1>1 DEF Command
    <2> QED
        BY <1>4, <2>1, <2>2 DEF Component, Place
<1>6. /\ c.more \in Seq(Path) /\ 1 \in DOMAIN c.more /\ Head(c.more) = c.more[1]
      /\ \A k \in DOMAIN Tail(c.more) : k + 1 \in DOMAIN c.more /\ Tail(c.more)[k] = c.more[k + 1]
      /\ Len(c.more) = 1 => DOMAIN Tail(c.more) = {}
      /\ Len(c.more) \in Nat \ {0}
    <2>1. c.more \in Seq(Path)
        BY <1>1 DEF Command
    <2>2. c.more # <<>>
        OBVIOUS
    <2> HIDE DEF c
    <2> DEFINE more == c.more
    <2>3. more \in Seq(Path) /\ more # <<>>
        BY <2>1, <2>2
    <2> HIDE DEF more
    <2>4. /\ 1 \in DOMAIN more /\ Head(more) = more[1]
          /\ \A k \in DOMAIN Tail(more) : k + 1 \in DOMAIN more /\ Tail(more)[k] = more[k + 1]
          /\ Len(more) = 1 => DOMAIN Tail(more) = {}
          /\ Len(more) \in Nat \ {0}
        BY <2>3, OneLess
    <2> QED
        BY <2>3, <2>4 DEF more
<1>7. /\ \A k \in DOMAIN Append(c.found, place) :
            \/ Append(c.found, place)[k] = place
            \/ k \in DOMAIN c.found /\ Append(c.found, place)[k] = c.found[k]
    <2>1. c.found \in Seq(Place)
        BY <1>1 DEF Command
    <2> QED
        BY <1>5, <2>1, OneMore
<1>8. /\ next.todo = c.more[1] /\ next.more = Tail(c.more) /\ next.dir = cwd
      /\ next.op = c.op /\ next.at = "search" /\ next.found = Append(c.found, place)
      /\ next.content = c.content /\ next.size = c.size
    BY <1>1, <1>6 DEF Command
<1> HIDE DEF next, c, cwd, stack
<1>9. PathFits(disk, stack, next)
    <2>1. c.more[1] \in PathsTo(Files)
        BY <1>1, <1>6 DEF PathFits
    <2>2. \A k \in DOMAIN Tail(c.more) : Tail(c.more)[k] \in PathsTo(Files)
        BY <1>1, <1>6 DEF PathFits
    <2> QED
        BY <1>2, <1>8, <2>1, <2>2 DEF PathFits, cwd
<1>10. c.op = "mv" => Apart(disk, stack, next)
    <2> SUFFICES ASSUME c.op = "mv" PROVE Apart(disk, stack, next)
        OBVIOUS
    <2>1. Len(c.found) + Len(c.more) = 1 /\ c.found \in Seq(Place)
        BY <1>1 DEF Ready, Command
    <2>2. DOMAIN c.found = {} /\ DOMAIN Tail(c.more) = {}
        <3>1. Len(c.found) \in Nat /\ Len(c.more) \in Nat /\ Len(c.more) # 0
            BY <1>6, <2>1
        <3>2. Len(c.found) = 0 /\ Len(c.more) = 1
            <4>1. \A m, n \in Nat : m + n = 1 /\ n # 0 => m = 0 /\ n = 1
                OBVIOUS
            <4> QED
                BY <2>1, <3>1, <4>1, Zenon
        <3>3. DOMAIN c.found = {}
            BY <2>1, <3>2
        <3> QED
            BY <1>6, <3>2, <3>3
    <2>3. /\ ToDir(disk, cwd, c.more[1]) # {}
          /\ ToDir(disk, c.dir, c.todo) \cap ToDir(disk, cwd, c.more[1]) = {}
        BY <1>1, <1>6 DEF Apart, cwd
    <2>4. ToDir(disk, c.dir, c.todo) = {c.dir}
        BY DEF ToDir, c
    <2>5. \A k \in DOMAIN next.found : next.found[k].dir = c.dir
        BY <1>5, <1>7, <1>8, <2>2
    <2> QED
        BY <1>8, <2>2, <2>3, <2>4, <2>5 DEF Apart, cwd
<1>11. \A k \in DOMAIN next.found :
           next.found[k].dir \in Directories /\ next.found[k].name \in FileNames
    <2>1. \A k \in DOMAIN c.found :
              c.found[k].dir \in Directories /\ c.found[k].name \in FileNames
        BY <1>1, <1>2 DEF CommandFits
    <2> QED
        BY <1>1, <1>5, <1>7, <1>8, <2>1
<1>12. CommandFits(disk, Directories, stack, next)
    BY <1>1, <1>2, <1>8, <1>9, <1>10, <1>11 DEF CommandFits
<1>13. Continue(s, next)
    BY DEF next, c, cwd, stack
<1> QED
    BY <1>1, <1>12, <1>13, GoesOnFits DEF stack

\* A path that leads somewhere, when it was the last one: the command can make
\* its call.
LEMMA LookUpReady ==
    ASSUME CarefulInv, CarefulUsers, NEW s \in Shells, LookUp(s), Len(cmd[s].todo) = 1,
           cmd[s].more = <<>>,
           NEW place, place = [dir |-> cmd[s].dir, name |-> Head(cmd[s].todo).name,
                               ext |-> Head(cmd[s].todo).ext],
           Continue(s, [cmd[s] EXCEPT !.found = Append(cmd[s].found, place),
                                      !.at = FirstCall[cmd[s].op]])
    PROVE  CarefulInv'
<1> DEFINE c == cmd[s]
           stack == dir_stack[s]
           next == [c EXCEPT !.found = Append(c.found, place), !.at = FirstCall[c.op]]
           S == IF c.op = "rmdir" THEN Folders ELSE Files
           wanted == IF c.op = "rmdir" THEN FolderNames ELSE FileNames
<1>1. /\ Idle /\ installed /\ ShellInv' /\ UNCHANGED <<vars, dir_stack, installed>>
      /\ disk \in [Cluster -> Content] /\ Tidy(disk, Directories)
      /\ c \in Command /\ Ready(c) /\ c.at = "search" /\ c.dir \in Directories
      /\ CommandFits(disk, Directories, stack, c) /\ PathFits(disk, stack, c)
      /\ c.op = "rmdir" => TargetIsAside(disk, stack, c)
      /\ c.op = "mv" => Apart(disk, stack, c)
    BY Searching
<1>2. S \in SUBSET Component /\ c.todo \in PathsTo(S)
    BY <1>1, PathsAre DEF PathFits
<1>3. Head(c.todo) \in S /\ Last(c.todo) = Head(c.todo)
    BY <1>2, PathShape
<1>4. /\ place \in Place /\ place.dir = c.dir /\ place.name \in wanted
      /\ Last(c.todo) = Folder(place.name) \/ c.op # "rmdir"
    <2>1. Head(c.todo) \in Component /\ c.dir \in Aside
        BY <1>1, <1>2, <1>3 DEF Command
    <2>2. Head(c.todo).name \in wanted /\ (Head(c.todo) = Folder(Head(c.todo).name) \/ c.op # "rmdir")
        <3>1. \A e \in Folders : e.name \in FolderNames /\ e = Folder(e.name)
            BY DEF Folders, Folder
        <3>2. \A e \in Files : e.name \in FileNames
            BY DEF Files
        <3> HIDE DEF c
        <3> QED
            BY <1>3, <3>1, <3>2
    <2> HIDE DEF wanted, S, next, c
    <2>3. place = [dir |-> c.dir, name |-> Head(c.todo).name, ext |-> Head(c.todo).ext]
        BY DEF c
    <2>4. place.dir = c.dir /\ place.name = Head(c.todo).name
        BY <2>3
    <2>5. place \in Place
        <3>1. \A dir \in Aside, e \in Component :
                  [dir |-> dir, name |-> e.name, ext |-> e.ext] \in Place
            BY DEF Component, Place
        <3> QED
            BY <2>1, <2>3, <3>1, Zenon
    <2>6. place.name \in wanted /\ (Last(c.todo) = Folder(place.name) \/ c.op # "rmdir")
        BY <1>3, <2>2, <2>4, Zenon
    <2> QED
        BY <2>4, <2>5, <2>6
<1>5. /\ next.op = c.op /\ next.found = Append(c.found, place) /\ next.at = FirstCall[c.op]
      /\ next.dir = c.dir /\ next.content = c.content /\ next.size = c.size
    BY <1>1 DEF Command
<1>6. c.found \in Seq(Place) /\ c.op \in {"cat", "cp", "rm", "rmdir", "mv", "echo"}
    BY <1>1 DEF Command, Ready
<1>7. Continue(s, next)
    BY DEF next, c
<1>8. c.more = <<>>
    BY DEF c
<1> HIDE DEF next, c, S, stack, wanted
<1>9. /\ \A k \in DOMAIN next.found :
            next.found[k] = place \/ (k \in DOMAIN c.found /\ next.found[k] = c.found[k])
      /\ c.found = <<>> => next.found[1] = place
      /\ Len(c.found) = 1 => /\ next.found[2] = place /\ next.found[1] = c.found[1]
                             /\ 1 \in DOMAIN c.found
      /\ 1 \in DOMAIN next.found
    <2>1. 1 \in DOMAIN Append(c.found, place)
        <3>1. Len(c.found) \in Nat
            BY <1>6
        <3>2. DOMAIN Append(c.found, place) = 1 .. (Len(c.found) + 1)
            BY <1>4, <1>6, AppendProperties
        <3> QED
            BY <3>1, <3>2
    <2> QED
        BY <1>4, <1>5, <1>6, <2>1, OneMore
<1>10. \A k \in DOMAIN next.found :
           next.found[k].dir \in Directories /\ next.found[k].name \in wanted
    <2>1. \A k \in DOMAIN c.found :
              c.found[k].dir \in Directories /\ c.found[k].name \in wanted
        BY <1>1 DEF CommandFits, wanted
    <2> QED
        BY <1>1, <1>4, <1>9, <2>1
<1>11. next.at = "read" /\ next.op = "cp" => NotTooLong(disk, next)
    <2> SUFFICES ASSUME next.at = "read", next.op = "cp" PROVE NotTooLong(disk, next)
        OBVIOUS
    <2>1. next.found[1].dir \in Directories /\ next.found[1].name \in FileNames
        BY <1>5, <1>9, <1>10 DEF wanted
    <2>2. next.size = CLUSTER_SIZE
        BY <1>1, <1>5 DEF Ready
    <2> QED
        BY <1>1, <2>1, <2>2, FirstBuffer
<1>12. c.op = "rmdir" =>
           \E d \in Led(disk, next.found[1].dir, Folder(next.found[1].name)) : IsAside(stack, d)
    <2> SUFFICES ASSUME c.op = "rmdir"
                 PROVE  \E d \in Led(disk, place.dir, Folder(place.name)) : IsAside(stack, d)
        BY <1>1, <1>9 DEF PathFits
    <2>1. PICK d \in AllLed(disk, ToDir(disk, c.dir, c.todo), Last(c.todo)) : IsAside(stack, d)
        BY <1>1 DEF TargetIsAside
    <2>2. ToDir(disk, c.dir, c.todo) = {c.dir}
        BY DEF ToDir, c
    <2>3. d \in Led(disk, c.dir, Last(c.todo))
        BY <2>1, <2>2 DEF AllLed
    <2> QED
        BY <1>4, <2>1, <2>3
<1>13. c.op = "mv" => next.found[1].dir # next.found[2].dir
    <2> SUFFICES ASSUME c.op = "mv" PROVE next.found[1].dir # next.found[2].dir
        OBVIOUS
    <2>1. Len(c.found) + Len(c.more) = 1
        BY <1>1 DEF Ready
    <2>2. Len(c.found) = 1
        BY <1>6, <1>8, <2>1
    <2>3. ToDir(disk, c.dir, c.todo) = {c.dir}
        BY DEF ToDir, c
    <2>4. c.found[1].dir # c.dir
        BY <1>1, <1>9, <2>2, <2>3 DEF Apart
    <2> QED
        BY <1>4, <1>9, <2>2, <2>4
<1>14. c.op = "echo" => IsText(next.content, next.size)
    BY <1>1, <1>5 DEF CommandFits
<1>15. CommandFits(disk, Directories, stack, next)
    BY <1>1, <1>5, <1>6, <1>10, <1>11, <1>12, <1>13, <1>14, FirstCalls DEF CommandFits, wanted
<1> QED
    BY <1>1, <1>7, <1>15, GoesOnFits DEF stack

LEMMA LookUpFits ==
    ASSUME CarefulInv, CarefulUsers, NEW s \in Shells, LookUp(s)
    PROVE  CarefulInv'
<1> DEFINE c == cmd[s]
           component == Head(c.todo)
           found == Found(TableAt(c.dir), component.name, component.ext)
           place == [dir |-> c.dir, name |-> component.name, ext |-> component.ext]
<1>0. ~(1 > 1)
    OBVIOUS
<1>1. CASE Len(c.todo) > 1 /\ Len(c.todo) # 1 /\ found # {}
    <2>1. Continue(s, [c EXCEPT !.todo = Tail(c.todo),
                                !.dir = TableAt(c.dir)[FirstIndex(found)].cluster])
        BY <1>1 DEF LookUp
    <2> QED
        BY <1>1, <2>1, LookUpFolder
<1>2. CASE ~(Len(c.todo) > 1) /\ Len(c.todo) = 1 /\ (found # {} \/ MayBeMissing(c)) /\ c.more = <<>>
    <2>1. Continue(s, [c EXCEPT !.found = Append(c.found, place), !.at = FirstCall[c.op]])
        BY <1>2 DEF LookUp
    <2> QED
        BY <1>2, <2>1, LookUpReady
<1>3. CASE ~(Len(c.todo) > 1) /\ Len(c.todo) = 1 /\ (found # {} \/ MayBeMissing(c)) /\ c.more # <<>>
    <2>1. Continue(s, [c EXCEPT !.found = Append(c.found, place), !.todo = Head(c.more),
                                !.more = Tail(c.more),
                                !.dir = current_parent_cluster(dir_stack[s])])
        BY <1>3 DEF LookUp
    <2> QED
        BY <1>3, <2>1, LookUpOther
<1>4. CASE /\ ~(Len(c.todo) > 1 /\ found # {})
           /\ ~(Len(c.todo) = 1 /\ (found # {} \/ MayBeMissing(c)))
    <2>1. Continue(s, Prompt)
        BY <1>4 DEF LookUp, Finish
    <2>2. /\ Idle /\ installed /\ ShellInv' /\ UNCHANGED <<vars, dir_stack, installed>>
        BY Searching
    <2> QED
        BY <2>1, <2>2, GoesOnFits
<1> QED
    <2>1. Len(c.todo) = 1 => ~(Len(c.todo) > 1)
        BY <1>0, Zenon
    <2> QED
        BY <1>1, <1>2, <1>3, <1>4, <2>1, Zenon

-----------------------------------------------------------------------------
(* cd *)

\* Where a stack has been entered from.
LEMMA StackLeads ==
    ASSUME NEW contents, NEW dirs, NEW stack \in Stacks, StackFits(contents, dirs, stack),
           Len(stack) # 1
    PROVE  /\ prev_parent_cluster(stack) \in dirs
           /\ \E i \in FoldersOf(contents, prev_parent_cluster(stack), last_dir(stack)) :
                 Slot(contents, prev_parent_cluster(stack), i).cluster =
                    current_parent_cluster(stack)
<1> DEFINE n == Len(stack)
<1>1. n \in Nat /\ n \in 1 .. n
    BY WorkingDirectoryIsThere
<1>2. n \in 2 .. n /\ n - 1 \in 1 .. n
    <2>1. \A m \in Nat : m \in 1 .. m /\ m # 1 => m \in 2 .. m /\ m - 1 \in 1 .. m
        OBVIOUS
    <2> QED
        BY <1>1, <2>1, Zenon
<1>3. /\ prev_parent_cluster(stack) = stack[n - 1].cluster
      /\ last_dir(stack) = stack[n].name /\ current_parent_cluster(stack) = stack[n].cluster
    BY StackIsRooted
<1> QED
    BY <1>2, <1>3 DEF StackFits

\* What handle_cd finds by its name is the directory a shell is in: in the root
\* the table's own entry, elsewhere the only folder of the name in the directory
\* it was entered from.
LEMMA SearchedIsHere ==
    ASSUME CarefulUsers, disk \in [Cluster -> Content], Tidy(disk, Directories),
           NEW stack \in Stacks, StackFits(disk, Directories, stack)
    PROVE  Searched(stack) = {TableAt(current_parent_cluster(stack))}
<1> DEFINE parent == prev_parent_cluster(stack)
           cwd == current_parent_cluster(stack)
           name == last_dir(stack)
           named == FolderNamed(parent, name)
           first == FirstIndex(named)
<1>1. named \in SUBSET Index /\ Index \subseteq Nat
    BY Constants DEF FolderNamed
<1>2. \A i \in named : /\ first \in named /\ first <= i
                       /\ Slot(disk, parent, i).name = name /\ Slot(disk, parent, i).folder
    <2>1. named # {} => first \in named /\ \A i \in named : first <= i
        <3>1. named \in SUBSET Nat
            BY <1>1
        <3> HIDE DEF named
        <3> QED
            BY <3>1, FirstIsMember
    <2>2. \A i \in named : Slot(disk, parent, i).name = name /\ Slot(disk, parent, i).folder
        BY DEF FolderNamed, TableAt, Slot
    <2> QED
        BY <2>1, <2>2
<1>3. \A i \in Index : Slot(disk, parent, i).name = name /\ Slot(disk, parent, i).folder
          => i \in named
    BY DEF FolderNamed, TableAt, Slot
<1>4. named # {} => Searched(stack) = {TableAt(Slot(disk, parent, first).cluster)}
    BY DEF Searched, read_directory, Slot, TableAt
<1>5. \A i \in Index : i = 0 \/ i = 1 \/ i \in ChildIndex
    BY FAT32Assumption DEF FAT32Assumption, Index, ChildIndex
<1>6. 0 \in Index /\ ChildIndex \subseteq Index
    BY FAT32Assumption DEF FAT32Assumption, Index, ChildIndex
<1>7. CASE Len(stack) = 1
    <2>2. parent = ROOT_CLUSTER_NUMBER /\ cwd = ROOT_CLUSTER_NUMBER
        BY <1>7, StackIsRooted DEF RootEntry
    <2>3. Slot(disk, cwd, 0).name = name
        BY OwnNameIsLast
    <2>4. Slot(disk, cwd, 0).folder /\ Slot(disk, cwd, 0).cluster = cwd
        BY <2>2 DEF Tidy, Named, NamedRoot
    <2>5. 0 \in named
        BY <1>3, <1>6, <2>2, <2>3, <2>4
    <2>6. first = 0
        <3>1. first <= 0 /\ first \in Nat
            BY <1>1, <1>2, <2>5
        <3> QED
            BY <3>1
    <2> HIDE DEF first, named, cwd, parent
    <2> QED
        BY <1>4, <2>2, <2>4, <2>5, <2>6 DEF cwd
<1>8. CASE Len(stack) # 1
    <2>1. OneShell
        <3>1. Len(<<RootEntry>>) = 1
            OBVIOUS
        <3> QED
            BY <1>8, <3>1, Zenon DEF StackFits
    <2>2. parent \in Directories
        BY <1>8, StackLeads
    <2>3. PICK i \in FoldersOf(disk, parent, name) : Slot(disk, parent, i).cluster = cwd
        BY <1>8, StackLeads
    <2>4. i \in ChildIndex /\ FolderAt(disk, parent, i) /\ Slot(disk, parent, i).name = name
        BY <2>3 DEF FoldersOf
    <2>5. i \in named
        BY <1>3, <1>6, <2>4 DEF FolderAt
    <2>6. /\ first \in Index /\ first \in Nat /\ i \in Nat /\ first <= i
          /\ Slot(disk, parent, first).name = name /\ Slot(disk, parent, first).folder
        BY <1>1, <1>2, <2>5
    <2> HIDE DEF first, named, cwd, parent, name
    <2>7. NamedSlot(disk, parent, i) /\ name \in FolderNames /\ name # Slot(disk, parent, 0).name
        BY <2>2, <2>4, ChildrenAre DEF NamedSlot
    <2>8. first # 0
        BY <2>6, <2>7
    <2>9. first # 1
        <3>1. Slot(disk, parent, 1).name = ParentName
            BY <2>2, OwnEntries
        <3> QED
            BY <2>6, <2>7, <3>1, NamesApart
    <2>10. first \in ChildIndex
        BY <1>5, <2>6, <2>8, <2>9
    <2>11. ~(first < i)
        BY <2>1, <2>2, <2>4, <2>6, <2>10 DEF Tidy, Unhidden
    <2>12. first = i
        BY <2>6, <2>11
    <2> QED
        BY <1>4, <2>3, <2>5, <2>12 DEF cwd
<1> QED
    BY <1>7, <1>8 DEF cwd

LEMMA PopFits ==
    ASSUME NEW contents, NEW dirs, NEW stack \in Stacks, StackFits(contents, dirs, stack),
           last_dir(stack) # RootName
    PROVE  StackFits(contents, dirs, pop_dir(stack)) /\ Len(pop_dir(stack)) = Len(stack) - 1
<1> DEFINE n == Len(stack) - 1
           less == pop_dir(stack)
<1>1. /\ stack \in Seq(StackEntry) /\ Len(stack) \in Nat /\ Len(stack) >= 1
      /\ stack[1] = RootEntry /\ last_dir(stack) = stack[Len(stack)].name
    BY StackIsRooted
<1>2. Len(stack) # 1
    BY <1>1 DEF RootEntry
<1>3. n \in Nat /\ n >= 1 /\ n <= Len(stack)
    <2>1. \A m \in Nat : m >= 1 /\ m # 1 => m - 1 \in Nat /\ m - 1 >= 1 /\ m - 1 <= m
        OBVIOUS
    <2> QED
        BY <1>1, <1>2, <2>1, Zenon
<1>4. less = SubSeq(stack, 1, n)
    BY StackIsRooted
<1> HIDE DEF n
<1>5. Len(less) = n /\ \A k \in 1 .. n : less[k] = stack[k]
    BY <1>1, <1>3, <1>4
<1>6. \A k \in 1 .. n : k \in 1 .. Len(stack)
    BY <1>1, <1>3
<1>7. \A k \in 2 .. n : k \in 2 .. Len(stack) /\ k \in 1 .. n /\ k - 1 \in 1 .. n
    BY <1>1, <1>3
<1>8. ~OneShell => FALSE
    <2>1. Len(<<RootEntry>>) = 1
        OBVIOUS
    <2> QED
        BY <1>2, <2>1, Zenon DEF StackFits
<1> HIDE DEF less
<1>9. \A k \in 1 .. Len(less) : less[k].cluster \in dirs
    BY <1>5, <1>6 DEF StackFits
<1>10. ASSUME NEW k \in 2 .. Len(less)
       PROVE  \E i \in FoldersOf(contents, less[k - 1].cluster, less[k].name) :
                 Slot(contents, less[k - 1].cluster, i).cluster = less[k].cluster
    <2>1. k \in 2 .. Len(stack) /\ less[k] = stack[k] /\ less[k - 1] = stack[k - 1]
        BY <1>5, <1>7
    <2> QED
        BY <2>1 DEF StackFits
<1>11. less # <<>> /\ less[1] = RootEntry
    <2>1. 1 \in 1 .. n /\ Len(<<>>) = 0
        BY <1>3
    <2> QED
        BY <1>1, <1>3, <1>5, <2>1
<1>12. StackFits(contents, dirs, less)
    BY <1>8, <1>9, <1>10, <1>11 DEF StackFits
<1> QED
    BY <1>5, <1>12 DEF less, n

LEMMA PushFits ==
    ASSUME OneShell, NEW contents, NEW dirs, NEW stack \in Stacks, StackFits(contents, dirs, stack),
           NEW entry \in StackEntry, entry.cluster \in dirs,
           \E i \in FoldersOf(contents, current_parent_cluster(stack), entry.name) :
              Slot(contents, current_parent_cluster(stack), i).cluster = entry.cluster,
           Len(stack) + 1 < MAX_DIR_LENGTH
    PROVE  /\ StackFits(contents, dirs, push_dir(stack, entry))
           /\ Len(push_dir(stack, entry)) = Len(stack) + 1
<1> DEFINE n == Len(stack)
           more == Append(stack, entry)
<1>1. stack \in Seq(StackEntry) /\ n \in Nat /\ n >= 1 /\ stack[1] = RootEntry
    BY StackIsRooted
<1>2. Len(more) = n + 1 /\ more[n + 1] = entry /\ \A k \in 1 .. n : more[k] = stack[k]
    BY <1>1
<1>3. \A m \in Nat : \A k \in 1 .. (m + 1) : k = m + 1 \/ k \in 1 .. m
    OBVIOUS
<1>4. \A m \in Nat : \A k \in 2 .. (m + 1) :
          \/ k = m + 1 /\ k - 1 = m
          \/ k \in 2 .. m /\ k \in 1 .. m /\ k - 1 \in 1 .. m
    OBVIOUS
<1>5. n \in 1 .. n
    BY <1>1
<1>6. current_parent_cluster(stack) = stack[n].cluster
    BY StackIsRooted
<1>10. push_dir(stack, entry) = more
    BY <1>1, ShellConstants DEF push_dir
<1> HIDE DEF n, more
<1>7. ASSUME NEW k \in 1 .. Len(more) PROVE more[k].cluster \in dirs
    <2>1. k = n + 1 \/ k \in 1 .. n
        BY <1>1, <1>2, <1>3
    <2> QED
        BY <1>2, <2>1 DEF StackFits, n
<1>8. ASSUME NEW k \in 2 .. Len(more)
      PROVE  \E i \in FoldersOf(contents, more[k - 1].cluster, more[k].name) :
                Slot(contents, more[k - 1].cluster, i).cluster = more[k].cluster
    <2>1. \/ k = n + 1 /\ k - 1 = n
          \/ k \in 2 .. n /\ k \in 1 .. n /\ k - 1 \in 1 .. n
        BY <1>1, <1>2, <1>4
    <2>2. CASE k = n + 1 /\ k - 1 = n
        <3>1. more[k] = entry /\ more[k - 1] = stack[n]
            BY <1>2, <1>5, <2>2
        <3> QED
            BY <1>6, <3>1
    <2>3. CASE k \in 2 .. n /\ k \in 1 .. n /\ k - 1 \in 1 .. n
        <3>1. more[k] = stack[k] /\ more[k - 1] = stack[k - 1]
            BY <1>2, <2>3
        <3> QED
            BY <2>3, <3>1 DEF StackFits, n
    <2> QED
        BY <2>1, <2>2, <2>3
<1>9. more # <<>> /\ more[1] = RootEntry
    <2>1. 1 \in 1 .. n /\ Len(<<>>) = 0
        BY <1>1
    <2> QED
        BY <1>1, <1>2, <2>1
<1>11. StackFits(contents, dirs, more)
    BY <1>4, <1>7, <1>8, <1>9 DEF StackFits
<1> QED
    BY <1>2, <1>10, <1>11 DEF n

\* A cd goes down once for each component that does not go up.
LEMMA DescentsOfOne ==
    ASSUME NEW a
    PROVE  Descents(<<a>>) = IF a = Up THEN 0 ELSE 1
<1>1. DOMAIN <<a>> = {1} /\ <<a>>[1] = a
    OBVIOUS
<1>2. {k \in DOMAIN <<a>> : <<a>>[k] # Up} = IF a = Up THEN {} ELSE {1}
    BY <1>1
<1>3. Cardinality({}) = 0 /\ Cardinality({1}) = 1
    BY FS_EmptySet, FS_Singleton
<1> QED
    BY <1>2, <1>3 DEF Descents

LEMMA DescentsOfTwo ==
    ASSUME NEW a, NEW b
    PROVE  Descents(<<a, b>>) = Descents(<<a>>) + Descents(<<b>>)
<1>1. DOMAIN <<a, b>> = {1, 2} /\ <<a, b>>[1] = a /\ <<a, b>>[2] = b
    OBVIOUS
<1>2. {k \in DOMAIN <<a, b>> : <<a, b>>[k] # Up} =
          (IF a = Up THEN {} ELSE {1}) \cup (IF b = Up THEN {} ELSE {2})
    BY <1>1
<1>3. Cardinality({}) = 0 /\ Cardinality({1}) = 1 /\ Cardinality({2}) = 1
    BY FS_EmptySet, FS_Singleton
<1>4. Cardinality({1} \cup {2}) = 2
    <2>1. IsFiniteSet({1})
        BY FS_Singleton
    <2>2. Cardinality({1} \cup {2}) = Cardinality({1}) + 1
        BY <2>1, FS_AddElement
    <2> QED
        BY <1>3, <2>2
<1>5. {} \cup {} = {} /\ {1} \cup {} = {1} /\ {} \cup {2} = {2}
    OBVIOUS
<1>6. Descents(<<a, b>>) = IF a = Up THEN (IF b = Up THEN 0 ELSE 1)
                           ELSE (IF b = Up THEN 1 ELSE 2)
    BY <1>2, <1>3, <1>4, <1>5 DEF Descents
<1> QED
    BY <1>6, DescentsOfOne

LEMMA DescentsLeft ==
    ASSUME NEW path \in PathsTo(Folders \cup {Up})
    PROVE  /\ Descents(path) \in Nat
           /\ Head(path) # Up => Descents(path) >= 1
           /\ Len(path) # 1 =>
                 /\ Descents(Tail(path)) \in Nat
                 /\ Descents(Tail(path)) <= Descents(path)
                 /\ Head(path) # Up => Descents(Tail(path)) + 1 <= Descents(path)
<1>1. (Folders \cup {Up}) \in SUBSET Component
    BY PathsAre
<1>2. /\ Len(path) \in {1, 2} /\ Head(path) = path[1]
      /\ Len(path) = 1 => path = <<path[1]>>
      /\ Len(path) = 2 => path = <<path[1], path[2]>> /\ Tail(path) = <<path[2]>>
    BY <1>1, PathShape
<1>3. \A a : Descents(<<a>>) = IF a = Up THEN 0 ELSE 1
    BY DescentsOfOne
<1>4. Len(path) = 2 => Descents(path) = Descents(<<path[1]>>) + Descents(<<path[2]>>)
    BY <1>2, DescentsOfTwo
<1>5. CASE Len(path) = 1
    BY <1>2, <1>3, <1>5
<1>6. CASE Len(path) = 2
    <2> DEFINE first == Descents(<<path[1]>>)
               second == Descents(<<path[2]>>)
    <2>1. /\ first \in Nat /\ second \in Nat /\ (path[1] # Up => first = 1)
        BY <1>3
    <2>2. /\ Descents(path) = first + second /\ Descents(Tail(path)) = second
          /\ Head(path) = path[1]
        BY <1>2, <1>4, <1>6
    <2> HIDE DEF first, second
    <2> QED
        BY <2>1, <2>2
<1> QED
    BY <1>2, <1>5, <1>6

LEMMA EnterDirectoryFits ==
    ASSUME CarefulInv, CarefulUsers, NEW s \in Shells, EnterDirectory(s)
    PROVE  CarefulInv'
<1> DEFINE c == cmd[s]
           stack == dir_stack[s]
           cwd == current_parent_cluster(stack)
           name == Head(c.todo).name
           rest == IF Len(c.todo) = 1 THEN Prompt ELSE [c EXCEPT !.todo = Tail(@)]
           entry(table) == [name |-> name,
               cluster |-> table[FirstIndex(ChildFolders(table, name))].cluster]
<1>1. /\ Idle /\ c.at = "enter" /\ installed /\ UNCHANGED <<vars, installed>>
      /\ c # Prompt /\ c \in Command /\ ShellInv' /\ stack \in Stacks
    <2>1. Idle /\ c.at = "enter" /\ UNCHANGED <<vars, installed>>
        BY DEF EnterDirectory, Running
    <2> QED
        BY <2>1, RunsWithProgram, CommandRuns, EnterDirectoryKeeps DEF CarefulInv, ShellInv
<1>2. /\ disk \in [Cluster -> Content] /\ Tidy(disk, Directories)
      /\ StackFits(disk, Directories, stack) /\ CommandFits(disk, Directories, stack, c)
    BY <1>1, IdleIsTidy DEF ShellFits
<1>3. /\ c.op = "cd" /\ c.todo \in PathsTo(Folders \cup {Up}) /\ c.dir \in Directories
      /\ Len(stack) + Descents(c.todo) < MAX_DIR_LENGTH
    BY <1>1, <1>2 DEF CommandFits
<1>4. OneShell
    BY <1>1, <1>3 DEF Command, CarefulUsers
<1>5. (Folders \cup {Up}) \in SUBSET Component
    BY PathsAre
<1>6. Head(c.todo) \in Folders \cup {Up}
    <2>1. Head(c.todo) \in Steps \/ Head(c.todo) \in Folders \cup {Up}
        BY <1>3, <1>5, PathShape
    <2> QED
        BY <2>1 DEF Steps
<1>12. /\ Len(stack) \in Nat /\ Descents(c.todo) \in Nat
       /\ Len(c.todo) # 1 => Descents(Tail(c.todo)) \in Nat
       /\ Len(c.todo) # 1 => Descents(Tail(c.todo)) <= Descents(c.todo)
       /\ Head(c.todo) # Up => 1 <= Descents(c.todo)
       /\ Head(c.todo) # Up /\ Len(c.todo) # 1 => Descents(Tail(c.todo)) + 1 <= Descents(c.todo)
    BY <1>1, <1>2, <1>3, DescentsLeft, StackIsRooted
<1>13. MAX_DIR_LENGTH \in Nat
    BY ShellConstants
<1>7. ASSUME NEW other \in Stacks, StackFits(disk, Directories, other),
             Len(c.todo) # 1 => Len(other) + Descents(Tail(c.todo)) < MAX_DIR_LENGTH
      PROVE  ShellFits(disk, Directories, other, rest)
    <2>1. CASE Len(c.todo) = 1
        BY <1>7, <2>1 DEF ShellFits
    <2>2. CASE Len(c.todo) # 1
        <3> DEFINE next == [c EXCEPT !.todo = Tail(@)]
        <3>1. Tail(c.todo) \in PathsTo(Folders \cup {Up})
            BY <1>3, <1>5, <2>2, PathShape
        <3>2. /\ next.at = "enter" /\ next.op = c.op /\ next.dir = c.dir /\ next.found = c.found
              /\ next.todo = Tail(c.todo)
            BY <1>1 DEF Command
        <3> HIDE DEF next, c
        <3>3. CommandFits(disk, Directories, other, next)
            BY <1>2, <1>3, <1>7, <2>2, <3>1, <3>2 DEF CommandFits
        <3> QED
            BY <1>7, <2>2, <3>3 DEF ShellFits, next
    <2> QED
        BY <2>1, <2>2
<1>8. CASE Finish(s) /\ UNCHANGED dir_stack
    BY <1>1, <1>8, GoesOnFits DEF Finish
<1>9. CASE /\ last_dir(stack) # RootName /\ Continue(s, rest)
           /\ dir_stack' = [dir_stack EXCEPT ![s] = pop_dir(stack)]
    <2>1. pop_dir(stack) \in Stacks
        BY <1>1, <1>9, StackAfterPop
    <2>2. StackFits(disk, Directories, pop_dir(stack)) /\ Len(pop_dir(stack)) = Len(stack) - 1
        BY <1>1, <1>2, <1>9, PopFits
    <2>4. Len(c.todo) # 1 => Len(pop_dir(stack)) + Descents(Tail(c.todo)) < MAX_DIR_LENGTH
        <3> HIDE DEF c, stack
        <3> QED
            BY <1>3, <1>12, <1>13, <2>2
    <2>3. ShellFits(disk, Directories, pop_dir(stack), rest)
        BY <1>7, <2>1, <2>2, <2>4
    <2> QED
        BY <1>1, <1>9, <2>3, StepFits
<1>10. ASSUME NEW table \in Searched(stack), ChildFolders(table, name) # {}, name # ParentName,
              Continue(s, rest),
              dir_stack' = [dir_stack EXCEPT ![s] = push_dir(stack, entry(table))]
       PROVE  CarefulInv'
    <2> DEFINE i == FirstIndex(ChildFolders(table, name))
    <2>1. table = TableAt(cwd)
        BY <1>1, <1>2, <1>10, SearchedIsHere
    <2>2. cwd \in Directories
        BY <1>1, <1>2, WorkingDirectoryIsThere
    <2>3. ChildFolders(table, name) = FoldersOf(disk, cwd, name)
        BY <2>1, FoldersAre
    <2>4. i \in FoldersOf(disk, cwd, name) /\ table[i] = Slot(disk, cwd, i)
        <3>1. FoldersOf(disk, cwd, name) \in SUBSET Nat
            BY Constants DEF FoldersOf
        <3>2. table[i] = Slot(disk, cwd, i)
            BY <2>1 DEF Slot, TableAt
        <3> QED
            BY <1>10, <2>3, <3>1, <3>2, FirstIsMember
    <2>5. Slot(disk, cwd, i).cluster \in Directories
        BY <1>2, <2>2, <2>4, ChildrenAre DEF FoldersOf
    <2>6. entry(table) \in StackEntry /\ entry(table).name = name
          /\ entry(table).cluster = Slot(disk, cwd, i).cluster
        <3>1. name \in EntryName
            BY <1>5, <1>6 DEF Component, EntryName
        <3>2. table \in TableType /\ ChildFolders(table, name) \subseteq Index
            BY <1>1, SearchedAreTables, Constants DEF ChildFolders, Shown, CarefulInv
        <3>3. table[i].cluster \in Aside
            BY <1>10, <3>2, FirstLeadsAside
        <3> HIDE DEF i, name
        <3> QED
            BY <2>4, <3>1, <3>3 DEF StackEntry, i
    <2>10. Head(c.todo) # Up
        BY <1>10 DEF Up, Folder
    <2> HIDE DEF i, name, c, stack, entry, rest
    <2>11. /\ Len(stack) + 1 < MAX_DIR_LENGTH
           /\ Len(c.todo) # 1 => (Len(stack) + 1) + Descents(Tail(c.todo)) < MAX_DIR_LENGTH
        BY <1>3, <1>12, <1>13, <2>10
    <2>7. /\ StackFits(disk, Directories, push_dir(stack, entry(table)))
          /\ Len(push_dir(stack, entry(table))) = Len(stack) + 1
        BY <1>1, <1>2, <1>4, <2>4, <2>5, <2>6, <2>11, PushFits DEF cwd
    <2>8. push_dir(stack, entry(table)) \in Stacks
        BY <1>1, <2>6, StackAfterPush
    <2>9. ShellFits(disk, Directories, push_dir(stack, entry(table)), rest)
        BY <1>7, <2>7, <2>8, <2>11
    <2> QED
        BY <1>1, <1>10, <2>9, StepFits
<1>11. \/ Finish(s) /\ UNCHANGED dir_stack
       \/ /\ last_dir(stack) # RootName /\ Continue(s, rest)
          /\ dir_stack' = [dir_stack EXCEPT ![s] = pop_dir(stack)]
       \/ /\ name # ParentName
          /\ \E table \in Searched(stack) :
                /\ ChildFolders(table, name) # {} /\ Continue(s, rest)
                /\ dir_stack' = [dir_stack EXCEPT ![s] = push_dir(stack, entry(table))]
    <2> HIDE DEF rest
    <2> QED
        BY DEF EnterDirectory, rest
<1> QED
    BY <1>8, <1>9, <1>10, <1>11

-----------------------------------------------------------------------------
(* Looking for what was made, and reading *)

LEMMA MadeDirectoryFits ==
    ASSUME CarefulInv, CarefulUsers, NEW s \in Shells, MadeDirectory(s)
    PROVE  CarefulInv'
<1> DEFINE c == cmd[s]
           table == TableAt(c.dir)
           named == {i \in Shown(table) : table[i].name = Head(c.todo).name}
           dir == IF named = {} THEN c.dir ELSE table[FirstIndex(named)].cluster
           next == [c EXCEPT !.at = "make", !.dir = dir, !.todo = Tail(@)]
<1>1. /\ Idle /\ c.at = "made" /\ installed /\ UNCHANGED <<vars, dir_stack, installed>>
      /\ c # Prompt /\ c \in Command /\ ShellInv'
    <2>1. Idle /\ c.at = "made" /\ UNCHANGED <<vars, dir_stack, installed>>
        BY DEF MadeDirectory, Running
    <2> QED
        BY <2>1, RunsWithProgram, CommandRuns, MadeDirectoryKeeps DEF CarefulInv
<1>2. /\ disk \in [Cluster -> Content] /\ Tidy(disk, Directories)
      /\ CommandFits(disk, Directories, dir_stack[s], c)
    BY <1>1, IdleIsTidy DEF ShellFits
<1>3. /\ c.dir \in Directories /\ NewNames(disk, c) /\ c.todo \in NewFolders
      /\ OneShell => NewPlaces(disk, c)
    BY <1>1, <1>2 DEF CommandFits, NewNames
<1>4. CASE Finish(s)
    BY <1>1, <1>4, GoesOnFits DEF Finish
<1>5. CASE c.code \in {0, 1} /\ Len(c.todo) # 1 /\ Continue(s, next)
    <2>1. /\ Len(c.todo) = 2 /\ Head(c.todo) = c.todo[1] /\ Tail(c.todo) = <<c.todo[2]>>
          /\ Tail(c.todo) \in NewFolders
          /\ c.todo[1] # Up /\ c.todo[1].name \in FolderNames
        <3>1. Len(c.todo) = 2
            BY <1>3, <1>5, NewFolderShape
        <3>2. 1 \in 1 .. 2 /\ 2 \in 1 .. 2
            OBVIOUS
        <3> QED
            BY <1>3, <3>1, <3>2, NewFolderShape
    <2>2. /\ next.todo = <<c.todo[2]>> /\ next.todo \in NewFolders /\ next.at = "make"
          /\ next.dir = dir /\ next.op = c.op /\ next.found = c.found
        BY <1>1, <2>1 DEF Command
    <2>3. Len(next.todo) = 1 /\ next.todo[1] = c.todo[2]
        <3> HIDE DEF next, c
        <3>1. \A x : Len(<<x>>) = 1 /\ <<x>>[1] = x
            OBVIOUS
        <3> QED
            BY <2>2, <3>1, Zenon
    <2>4. ASSUME NEW i \in named
          PROVE  /\ i \in FoldersOf(disk, c.dir, c.todo[1].name)
                 /\ Slot(disk, c.dir, i).cluster \in Directories
                 /\ Slot(disk, Slot(disk, c.dir, i).cluster, 0).name = c.todo[1].name
                 /\ Slot(disk, c.dir, i).cluster \in Led(disk, c.dir, c.todo[1])
                 /\ table[i] = Slot(disk, c.dir, i)
        <3>1. /\ i \in ChildIndex /\ Slot(disk, c.dir, i).live
              /\ Slot(disk, c.dir, i).name = c.todo[1].name
              /\ table[i] = Slot(disk, c.dir, i)
            BY <2>1 DEF Shown, Slot, TableAt
        <3> HIDE DEF c, named, table
        <3>2. FolderAt(disk, c.dir, i) /\ Slot(disk, c.dir, i).cluster \in Directories
              /\ NamedSlot(disk, c.dir, i)
            BY <1>2, <1>3, <2>1, <3>1, ChildrenAre
        <3>3. i \in FoldersOf(disk, c.dir, c.todo[1].name)
            BY <3>1, <3>2 DEF FoldersOf
        <3>4. Slot(disk, c.dir, i).cluster \in Led(disk, c.dir, c.todo[1])
            BY <2>1, <3>3 DEF Led
        <3> QED
            BY <3>1, <3>2, <3>3, <3>4 DEF NamedSlot
    <2>5. FoldersOf(disk, c.dir, c.todo[1].name) \subseteq named
        BY <2>1 DEF FoldersOf, FolderAt, Shown, Slot, TableAt
    <2>6. named # {} => FirstIndex(named) \in named
        <3>1. named \in SUBSET Nat
            BY Constants DEF Shown
        <3> HIDE DEF named
        <3> QED
            BY <3>1, FirstIsMember
    <2>7. c.todo[1].name # c.todo[2].name /\ c.todo[2].name # Slot(disk, c.dir, 0).name
        <3>1. 2 \in 1 .. 2
            OBVIOUS
        <3> QED
            BY <1>3, <2>1, <3>1 DEF NewNames
    <2> HIDE DEF next, c, named, table
    <2>8. dir \in Directories /\ c.todo[2].name # Slot(disk, dir, 0).name
        BY <1>3, <2>4, <2>6, <2>7
    <2>9. OneShell => NoHoleBefore(disk, dir, c.todo[2].name)
        <3> SUFFICES ASSUME OneShell PROVE NoHoleBefore(disk, dir, c.todo[2].name)
            OBVIOUS
        <3>1. Led(disk, c.dir, c.todo[1]) # {}
            BY <1>1, <1>3, <1>5 DEF NewPlaces
        <3>2. named # {}
            BY <2>1, <2>5, <3>1 DEF Led
        <3>3. dir \in Led(disk, c.dir, c.todo[1])
            BY <2>4, <2>6, <3>2
        <3> QED
            BY <1>3, <2>1, <3>3 DEF NewPlaces
    <2> HIDE DEF dir
    <2>10. NewNames(disk, next)
        <3>1. \A k \in 1 .. 1 : k = 1
            OBVIOUS
        <3> QED
            BY <2>2, <2>3, <2>8, <3>1 DEF NewNames
    <2>11. OneShell => NewPlaces(disk, next)
        BY <2>2, <2>3, <2>9 DEF NewPlaces
    <2>12. CommandFits(disk, Directories, dir_stack[s], next)
        BY <1>2, <2>2, <2>8, <2>10, <2>11 DEF CommandFits
    <2>13. Continue(s, next)
        BY <1>5
    <2> QED
        BY <1>1, <2>12, <2>13, GoesOnFits
<1>6. Finish(s) \/ (c.code \in {0, 1} /\ Len(c.todo) # 1 /\ Continue(s, next))
    <2> HIDE DEF next
    <2> QED
        BY DEF MadeDirectory, next
<1> QED
    BY <1>4, <1>5, <1>6

\* How often a size fills a number of bytes.
LEMMA QuotientIs ==
    ASSUME NEW a \in Nat, NEW b \in Nat \ {0}, NEW q \in Nat, q * b <= a, a < (q + 1) * b
    PROVE  a \div b = q
<1> DEFINE r == a \div b
<1>1. r \in Nat /\ r * b <= a /\ a < (r + 1) * b
    OBVIOUS
<1>2. \A m, n \in Nat : m * b < n * b => m < n
    <2> SUFFICES ASSUME NEW m \in Nat, NEW n \in Nat, n <= m PROVE n * b <= m * b
        OBVIOUS
    <2> QED
        OBVIOUS
<1> HIDE DEF r
<1>3. r + 1 \in Nat /\ q + 1 \in Nat
    BY <1>1
<1>4. r * b < (q + 1) * b /\ q * b < (r + 1) * b
    <2>1. r * b \in Nat /\ q * b \in Nat /\ (q + 1) * b \in Nat /\ (r + 1) * b \in Nat
        BY <1>1
    <2> QED
        BY <1>1, <2>1
<1>5. r < q + 1 /\ q < r + 1
    BY <1>1, <1>2, <1>3, <1>4
<1>6. r = q
    BY <1>1, <1>5
<1> QED
    BY <1>6 DEF r

\* The buffer in which a file has just found room has as many clusters.
LEMMA BufferIsFull ==
    ASSUME NEW n \in Nat, NEW size \in Nat \ {0}, n * CLUSTER_SIZE < size,
           size <= (n + 1) * CLUSTER_SIZE
    PROVE  ClustersFor(size) = n + 1 /\ ClustersFor((n + 1) * CLUSTER_SIZE) = n + 1
<1> DEFINE b == CLUSTER_SIZE
           p == n * b
<1>1. b \in Nat \ {0}
    BY ShellConstants
<1>2. p \in Nat /\ (n + 1) * b = p + b /\ ((n + 1) + 1) * b = p + b + b /\ n + 1 \in Nat
    <2> DEFINE c == b
    <2>1. c \in Nat
        BY <1>1
    <2> HIDE DEF c
    <2>2. n * c \in Nat /\ (n + 1) * c = n * c + c
        BY ONLY <2>1
    <2>3. ((n + 1) + 1) * c = (n + 1) * c + c
        BY ONLY <2>1
    <2> QED
        BY <2>2, <2>3 DEF c
<1>3. p < size /\ size <= p + b
    BY <1>2
<1> HIDE DEF p, b
<1>4. /\ size + b - 1 \in Nat /\ p + b <= size + b - 1 /\ size + b - 1 < p + b + b
      /\ (p + b) + b - 1 \in Nat /\ p + b <= (p + b) + b - 1 /\ (p + b) + b - 1 < p + b + b
    BY <1>1, <1>2, <1>3
<1>5. (size + b - 1) \div b = n + 1
    <2> DEFINE a == size + b - 1
               q == n + 1
    <2>1. a \in Nat /\ q \in Nat /\ q * b <= a /\ a < (q + 1) * b
        BY <1>2, <1>4
    <2> HIDE DEF a, q
    <2>2. a \div b = q
        BY <1>1, <2>1, QuotientIs, Zenon
    <2> QED
        BY <2>2 DEF a, q
<1>6. ((p + b) + b - 1) \div b = n + 1
    <2> DEFINE a == (p + b) + b - 1
               q == n + 1
    <2>1. a \in Nat /\ q \in Nat /\ q * b <= a /\ a < (q + 1) * b
        BY <1>2, <1>4
    <2> HIDE DEF a, q
    <2>2. a \div b = q
        BY <1>1, <2>1, QuotientIs, Zenon
    <2> QED
        BY <2>2 DEF a, q
<1> QED
    BY <1>2, <1>5, <1>6 DEF ClustersFor, b

LEMMA PaddedTextIs ==
    \A text \in PaddedTexts : \E tag \in Tags, n \in Nat \ {0} :
        text = [j \in Nat \ {0} |-> IF j <= n THEN Data(tag, j) ELSE Blank]
BY DEF PaddedTexts

LEMMA PaddedIsText ==
    ASSUME NEW tag \in Tags, NEW n \in Nat \ {0}
    PROVE  [j \in Nat \ {0} |-> IF j <= n THEN Data(tag, j) ELSE Blank] \in PaddedTexts
BY DEF PaddedTexts

\* What cp has in its buffer is one of the texts, whole if nobody else writes.
LEMMA CopyIsText ==
    ASSUME CarefulInv, CarefulUsers, Idle, NEW c, c.size \in FileSizes,
           c.found[1].dir \in Directories, c.found[1].name \in FileNames,
           OneShell => NotTooLong(disk, c),
           ReadCode(c.found[1].dir, c.found[1].name, c.found[1].ext, c.size) = 0,
           NEW blocks, blocks = read(c.found[1].dir, c.found[1].name, c.found[1].ext),
           NEW copy, copy = [j \in 1 .. ClusterAmount(c.size) |->
                                IF j \in DOMAIN blocks THEN blocks[j] ELSE Blank]
    PROVE  IsText(copy, c.size)
<1> DEFINE from == c.found[1]
           table == AsTable(disk[from.dir])
           files == {i \in Found(table, from.name, from.ext) : ~table[i].folder}
           entry == Slot(disk, from.dir, FirstIndex(files))
           hop == Hop(MapOn(disk), entry.cluster)
           m == ClustersFor(entry.filesize)
           n == ClustersFor(c.size)
<1>1. /\ disk \in [Cluster -> Content] /\ Tidy(disk, Directories)
      /\ cluster_map = MapOn(disk)
    BY IdleIsTidy, IdleIsGood DEF CarefulInv
<1>2. Readable(from.dir, from.name, from.ext) = files
    BY DEF Readable, TableAt
<1>3. entry = TableAt(from.dir)[FirstIndex(files)]
    BY DEF Slot, TableAt
<1>4. files # {} /\ ~(c.size < entry.filesize)
    <2> HIDE DEF files, entry, from
    <2> QED
        BY <1>2, <1>3 DEF ReadCode, from
<1>5. entry.filesize \in FileSizes /\ IsFile(Texts, disk, MapOn(disk), Directories, entry)
    BY <1>1, <1>4, FirstFile
<1>6. entry.filesize \in Nat \ {0} /\ c.size \in Nat \ {0} /\ CLUSTER_SIZE \in Nat \ {0}
    BY <1>5, ShellConstants
<1>7. blocks = [j \in 1 .. m |-> BlockOn(disk, MapOn(disk), entry.cluster, j)]
    <2> HIDE DEF files, entry
    <2> QED
        BY <1>1, <1>2, <1>3 DEF read
<1>8. /\ m \in Nat /\ m \in 1 .. ClusterAmount(entry.filesize)
      /\ n \in Nat /\ n \in 1 .. ClusterAmount(c.size) /\ ClusterAmount(c.size) \in Nat
    BY <1>5, BlocksFit
<1>9. PICK text \in Texts : \A j \in 1 .. m : disk[hop[j - 1]] = text[j]
    BY <1>5 DEF IsFile
<1>10. OneShell => m = n
    <2> SUFFICES ASSUME OneShell PROVE m = n
        OBVIOUS
    <2>1. PICK k \in Nat : c.size = (k + 1) * CLUSTER_SIZE /\ k * CLUSTER_SIZE < entry.filesize
        <3> HIDE DEF files
        <3> QED
            BY <1>4 DEF NotTooLong, files, Slot
    <2> HIDE DEF entry
    <2>2. entry.filesize <= (k + 1) * CLUSTER_SIZE
        BY <1>4, <1>6, <2>1
    <2> QED
        BY <1>6, <2>1, <2>2, BufferIsFull
<1> HIDE DEF files, table, entry, from, hop
<1>11. \A j \in 1 .. m : blocks[j] = text[j]
    <2> TAKE j \in 1 .. m
    <2>1. blocks[j] = IF hop[j - 1] \in Cluster THEN disk[hop[j - 1]] ELSE Blank
        BY <1>7 DEF BlockOn, hop
    <2>2. j - 1 \in 0 .. (ClusterAmount(entry.filesize) - 1)
        <3>1. ClusterAmount(entry.filesize) \in Nat
            BY <1>5, BlocksFit
        <3> QED
            BY <1>8, <3>1
    <2>3. hop[j - 1] \in DataCluster
        BY <1>5, <2>2 DEF IsFile, WellLinked, hop
    <2>4. hop[j - 1] \in Cluster
        BY <2>3, Constants
    <2> QED
        BY <1>9, <2>1, <2>4
<1> HIDE DEF m, n
<1>12. \A j \in 1 .. n : copy[j] = IF j \in 1 .. m THEN text[j] ELSE Blank
    <2>1. DOMAIN blocks = 1 .. m
        BY <1>7
    <2>2. \A j \in 1 .. n : j \in 1 .. ClusterAmount(c.size)
        BY <1>8
    <2>3. \A j \in 1 .. n : copy[j] = IF j \in DOMAIN blocks THEN blocks[j] ELSE Blank
        BY <2>2
    <2> QED
        BY <1>11, <2>1, <2>3
<1>13. CASE OneShell
    <2>1. \A j \in 1 .. n : copy[j] = text[j]
        BY <1>10, <1>12, <1>13
    <2> QED
        BY <2>1 DEF IsText, n
<1>14. CASE ~OneShell
    <2>1. PICK tag \in Tags, k \in Nat \ {0} :
              text = [j \in Nat \ {0} |-> IF j <= k THEN Data(tag, j) ELSE Blank]
        <3>1. text \in PaddedTexts
            BY <1>9, <1>14 DEF Texts
        <3> QED
            BY <3>1, PaddedTextIs
    <2> DEFINE less == IF k <= m THEN k ELSE m
               other == [j \in Nat \ {0} |-> IF j <= less THEN Data(tag, j) ELSE Blank]
    <2>2. less \in Nat \ {0} /\ other \in PaddedTexts
        <3>1. less \in Nat \ {0}
            BY <1>8
        <3> HIDE DEF less
        <3> QED
            BY <3>1, PaddedIsText
    <2>3. ASSUME NEW j \in 1 .. n PROVE copy[j] = other[j]
        <3>1. j \in Nat \ {0} /\ (j <= less <=> j <= k /\ j \in 1 .. m)
            BY <1>8
        <3>2. copy[j] = IF j \in 1 .. m THEN text[j] ELSE Blank
            BY <1>12
        <3>3. text[j] = IF j <= k THEN Data(tag, j) ELSE Blank
            BY <2>1, <3>1
        <3>4. other[j] = IF j <= less THEN Data(tag, j) ELSE Blank
            BY <3>1
        <3> QED
            BY <3>1, <3>2, <3>3, <3>4
    <2> HIDE DEF other
    <2> QED
        BY <1>14, <2>2, <2>3 DEF IsText, Texts, n
<1> QED
    BY <1>13, <1>14

\* A reading command gets a larger buffer, gives up, or goes on.
LEMMA ReadFoundFits ==
    ASSUME CarefulInv, CarefulUsers, ShellInv', NEW s \in Shells, NEW op, NEW goOn,
           ReadFound(s, op, goOn),
           ReadCode(cmd[s].found[1].dir, cmd[s].found[1].name,
                    cmd[s].found[1].ext, cmd[s].size) = 0 =>
               goOn = Prompt \/ CommandFits(disk, Directories, dir_stack[s], goOn)
    PROVE  CarefulInv'
<1> DEFINE c == cmd[s]
           from == c.found[1]
           code == ReadCode(from.dir, from.name, from.ext, c.size)
           larger == [c EXCEPT !.size = @ + CLUSTER_SIZE]
<1>1. /\ Idle /\ c.at = "read" /\ c.op = op /\ installed
      /\ UNCHANGED <<vars, dir_stack, installed>> /\ c # Prompt /\ c \in Command
    <2>1. Idle /\ c.at = "read" /\ c.op = op /\ UNCHANGED <<vars, dir_stack, installed>>
        BY DEF ReadFound, Running
    <2> QED
        BY <2>1, RunsWithProgram, CommandRuns DEF CarefulInv
<1>2. CommandFits(disk, Directories, dir_stack[s], c)
    BY <1>1, IdleIsTidy DEF ShellFits
<1>3. CASE code = 0 /\ Continue(s, goOn)
    BY <1>1, <1>3, GoesOnFits
<1>4. CASE code = 2 /\ Continue(s, larger)
    <2> DEFINE files == Readable(from.dir, from.name, from.ext)
               table == AsTable(disk[from.dir])
    <2>1. files # {} /\ c.size < table[FirstIndex(files)].filesize
        <3>1. code = 2 => files # {} /\ c.size < TableAt(from.dir)[FirstIndex(files)].filesize
            <4> HIDE DEF files, from, c
            <4> QED
                BY DEF ReadCode, files
        <3> HIDE DEF files, from, c, code
        <3> QED
            BY <1>4, <3>1 DEF TableAt
    <2>2. /\ larger.at = "read" /\ larger.op = c.op /\ larger.dir = c.dir
          /\ larger.found = c.found /\ larger.size = c.size + CLUSTER_SIZE
        BY <1>1 DEF Command
    <2>3. files = {i \in Found(table, from.name, from.ext) : ~table[i].folder}
        BY DEF Readable, TableAt
    <2> HIDE DEF c, larger, table, files
    <2>4. NotTooLong(disk, c) => NotTooLong(disk, larger)
        <3> SUFFICES ASSUME NotTooLong(disk, c) PROVE NotTooLong(disk, larger)
            OBVIOUS
        <3>1. PICK n \in Nat : /\ c.size = (n + 1) * CLUSTER_SIZE
                               /\ n * CLUSTER_SIZE < table[FirstIndex(files)].filesize
            BY <2>1, <2>3 DEF NotTooLong, table
        <3>2. larger.size = ((n + 1) + 1) * CLUSTER_SIZE
            <4>1. \A b \in Nat : (n + 1) * b + b = ((n + 1) + 1) * b
                OBVIOUS
            <4>2. CLUSTER_SIZE \in Nat
                BY ShellConstants
            <4> QED
                BY <2>2, <3>1, <4>1, <4>2, Zenon
        <3>3. n + 1 \in Nat
            OBVIOUS
        <3> QED
            BY <2>1, <2>2, <2>3, <3>1, <3>2, <3>3 DEF NotTooLong, table
    <2>5. CommandFits(disk, Directories, dir_stack[s], larger)
        BY <1>1, <1>2, <2>2, <2>4 DEF CommandFits
    <2>6. Continue(s, larger)
        BY <1>4
    <2> QED
        BY <1>1, <2>5, <2>6, GoesOnFits
<1>5. CASE Finish(s)
    BY <1>1, <1>5, GoesOnFits DEF Finish
<1>6. \/ code = 0 /\ Continue(s, goOn)
      \/ code = 2 /\ Continue(s, larger)
      \/ Finish(s)
    BY DEF ReadFound
<1> QED
    BY <1>3, <1>4, <1>5, <1>6

LEMMA ShowSourceFits ==
    ASSUME CarefulInv, CarefulUsers, NEW s \in Shells, ShowSource(s)
    PROVE  CarefulInv'
<1>1. ShellInv'
    BY ShowSourceKeeps DEF CarefulInv
<1> QED
    BY <1>1, ReadFoundFits DEF ShowSource

LEMMA ReadSourceFits ==
    ASSUME CarefulInv, CarefulUsers, NEW s \in Shells, ReadSource(s)
    PROVE  CarefulInv'
<1> DEFINE c == cmd[s]
           from == c.found[1]
           blocks == read(from.dir, from.name, from.ext)
           copy == [j \in 1 .. ClusterAmount(c.size) |->
                       IF j \in DOMAIN blocks THEN blocks[j] ELSE Blank]
           next == [c EXCEPT !.at = "write", !.content = copy]
<1>1. ShellInv' /\ ReadFound(s, "cp", next)
    BY ReadSourceKeeps DEF ReadSource, CarefulInv
<1>2. Idle /\ c.at = "read" /\ c.op = "cp" /\ c # Prompt /\ c \in Command /\ Ready(c)
    <2>1. Idle /\ c.at = "read" /\ c.op = "cp"
        BY <1>1 DEF ReadFound, Running
    <2> QED
        BY <2>1, RunsWithProgram, CommandRuns DEF CarefulInv
<1>3. CommandFits(disk, Directories, dir_stack[s], c)
    BY <1>2, IdleIsTidy DEF ShellFits
<1>4. from.dir \in Directories /\ from.name \in FileNames
    <2>1. 1 \in DOMAIN c.found
        <3>1. c.found \in Seq(Place) /\ c.found # <<>>
            BY <1>2 DEF Command, Ready
        <3> HIDE DEF c
        <3> QED
            BY <3>1, OneLess
    <2> QED
        BY <1>2, <1>3, <2>1 DEF CommandFits
<1>5. c.size \in FileSizes /\ (OneShell => NotTooLong(disk, c))
    BY <1>2, <1>3, BufferSizes DEF Command, Ready, CommandFits
<1>6. ReadCode(from.dir, from.name, from.ext, c.size) = 0 => IsText(copy, c.size)
    <2> HIDE DEF c, blocks, copy
    <2> QED
        BY <1>2, <1>4, <1>5, CopyIsText DEF blocks, copy, from
<1>7. /\ next.at = "write" /\ next.op = c.op /\ next.dir = c.dir /\ next.found = c.found
      /\ next.size = c.size /\ next.content = copy
    BY <1>2 DEF Command
<1> HIDE DEF c, next, copy
<1>8. IsText(copy, c.size) => CommandFits(disk, Directories, dir_stack[s], next)
    BY <1>2, <1>3, <1>7 DEF CommandFits
<1> QED
    BY <1>1, <1>6, <1>8, ReadFoundFits DEF c, from

-----------------------------------------------------------------------------
(* Calls *)

\* The disk a call will leave, and what the shells have then.
LEMMA CallFits ==
    ASSUME CarefulInv, Idle, ShellInv', installed', UNCHANGED disk, call' # "none",
           Promised(Texts, pending', cluster_map', call'),
           NEW new, new = Written(disk, pending', Len(pending')),
           NEW dirs2, Tidy(new, dirs2),
           \A s \in Shells : ShellFits(new, dirs2, dir_stack'[s], cmd'[s])
    PROVE  CarefulInv'
<1>1. SoundFor(Texts)'
    BY CallKeepsSound DEF CarefulInv, ShellInv
<1>2. Settled' = new
    BY DEF Settled
<1>3. (\E dirs : /\ Tidy(Settled, dirs)
                 /\ \A s \in Shells : ShellFits(Settled, dirs, dir_stack[s], cmd[s]))'
    BY <1>2
<1> QED
    BY <1>1, <1>3 DEF CarefulInv

\* What a call will leave is a disk.
LEMMA DiskToBe ==
    ASSUME disk \in [Cluster -> Content], ShellInv'
    PROVE  Written(disk, pending', Len(pending')) \in [Cluster -> Content]
<1>1. pending' \in Seq(Cluster \X Content)
    BY DEF ShellInv, IInv, Issued
<1>2. Len(pending') \in 0 .. Len(pending')
    BY <1>1
<1> QED
    BY <1>1, <1>2, DiskStays

\* A call for a file, after which the shell is at its prompt.
LEMMA FilesChangeFits ==
    ASSUME CarefulInv, CarefulUsers, Idle, ShellInv', installed', UNCHANGED <<disk, dir_stack>>,
           call' # "none", Promised(Texts, pending', cluster_map', call'),
           NEW new, new = Written(disk, pending', Len(pending')),
           Good(Texts, new, Directories), FilesChange(disk, Directories, new),
           \A s \in Shells : cmd'[s] = Prompt \/ (~OneShell /\ cmd'[s] = cmd[s])
    PROVE  CarefulInv'
<1>1. /\ disk \in [Cluster -> Content] /\ Tidy(disk, Directories)
      /\ \A s \in Shells : ShellFits(disk, Directories, dir_stack[s], cmd[s])
    BY IdleIsTidy
<1>2. new \in [Cluster -> Content]
    BY <1>1, DiskToBe
<1>3. Tidy(new, Directories) /\ Grows(disk, Directories, new, Directories, 0, 0)
    BY <1>1, <1>2, FilesChangeTidy
<1>4. ASSUME NEW s \in Shells
      PROVE  ShellFits(new, Directories, dir_stack'[s], cmd'[s])
    <2>1. dir_stack[s] \in Stacks /\ cmd[s] \in Commands /\ dir_stack'[s] = dir_stack[s]
          /\ ShellFits(disk, Directories, dir_stack[s], cmd[s])
        BY <1>1 DEF CarefulInv, ShellInv
    <2>2. StackFits(new, Directories, dir_stack[s])
        BY <1>3, <2>1, StackGrows DEF ShellFits
    <2>3. ~OneShell => ShellFits(new, Directories, dir_stack[s], cmd[s])
        BY <1>1, <1>3, <2>1, OthersFit
    <2> QED
        BY <2>1, <2>2, <2>3 DEF ShellFits
<1> QED
    BY <1>3, <1>4, CallFits

\* The two entries of a directory itself are no children.
LEMMA OwnStay ==
    ASSUME NEW contents, NEW dirs, NEW new, NEW slots, OnlyChanges(contents, dirs, new, slots),
           \A x \in slots : x[2] \in ChildIndex
    PROVE  \A d \in dirs : /\ Slot(new, d, 0) = Slot(contents, d, 0)
                           /\ Slot(new, d, 1) = Slot(contents, d, 1)
<1>1. 0 \notin ChildIndex /\ 1 \notin ChildIndex /\ 0 \in Index /\ 1 \in Index
    BY Constants DEF ChildIndex
<1>2. ASSUME NEW d \in dirs, NEW j \in {0, 1} PROVE <<d, j>> \notin slots
    <2>1. <<d, j>>[2] = j
        OBVIOUS
    <2> QED
        BY <1>1, <2>1
<1> QED
    BY <1>1, <1>2 DEF OnlyChanges

LEMMA WriteFits ==
    ASSUME CarefulInv, CarefulUsers, Idle, ShellInv', installed', UNCHANGED dir_stack,
           call' = "write",
           NEW parent \in Directories, NEW name \in FileNames, NEW ext \in EntryExt,
           NEW size \in FileSizes, NEW content \in [1 .. ClusterAmount(size) -> Content],
           IsText(content, size), write_file(parent, name, ext, size, content),
           \A s \in Shells : cmd'[s] = Prompt \/ (~OneShell /\ cmd'[s] = cmd[s])
    PROVE  CarefulInv'
<1> DEFINE amount == ClusterAmount(size)
           hole == FirstIndex(Holes(TableAt(parent)))
           Entry1(locations) ==
               [name |-> name, ext |-> ext, folder |-> FALSE, live |-> TRUE,
                cluster |-> locations[1], filesize |-> size]
           NewTable(locations) == [TableAt(parent) EXCEPT ![hole] = Entry1(locations)]
<1>1. PICK locations \in Locations(amount) :
          /\ cluster_map' = LinkChain(locations)
          /\ pending' = FileWrites(parent, NewTable(locations), locations,
                                   content, LinkChain(locations))
          /\ UNCHANGED disk
    BY DEF write_file
<1> DEFINE entry == Entry1(locations)
           newTable == NewTable(locations)
<1>2. IInv /\ SoundFor(Texts)
    BY DEF CarefulInv, SoundFor
<1>3. /\ GoodBefore(Texts, Directories) /\ parent \in Cluster
      /\ disk \in [Cluster -> Content] /\ Tidy(disk, Directories)
    BY <1>2, IdleIsGood, IdleIsTidy DEF GoodBefore
<1>4. amount \in Nat \ {0}
    BY AmountIsPositive
<1>5. hole \in ChildIndex /\ ~Slot(disk, parent, hole).live /\ amount <= CLUSTER_MAP_SIZE
    <2>1. WriteCode(parent, name, ext, FALSE, amount) = 0
        BY Zenon DEF write_file
    <2> QED
        BY <1>2, <1>3, <1>4, <2>1, WriteHasRoom
<1>6. entry \in SafeEntry /\ entry.live /\ ~entry.folder /\ entry.cluster = locations[1]
      /\ entry.filesize = size /\ entry.name = name /\ name \in Names
    <2>1. locations[1] \in Cluster /\ locations[1] # FAT_CLUSTER_NUMBER
        BY <1>2, <1>4, LinkedMap, Constants
    <2>2. name \in Names /\ name \in EntryName
        BY ShellConstants DEF EntryName
    <2> QED
        BY <2>1, <2>2 DEF SafeEntry, Entry, EntryName, EntryExt
<1> HIDE DEF hole
<1>7. newTable = [TableAt(parent) EXCEPT ![hole] = entry]
    OBVIOUS
<1> HIDE DEF entry, newTable
<1>8. FileToWrite(Texts, Directories, parent, hole, entry, newTable, size, content, locations)
    BY <1>3, <1>5, <1>6, <1>7 DEF FileToWrite, IsText
<1> DEFINE new == Written(disk, pending', Len(pending'))
<1>9. pending' = FileWrites(parent, newTable, locations, content, LinkChain(locations))
    BY <1>1 DEF newTable
<1>10. /\ Promised(Texts, pending', cluster_map', call')
       /\ Good(Texts, new, Directories) /\ Slot(new, parent, hole) = entry
       /\ OnlyChanges(disk, Directories, new, {<<parent, hole>>})
    BY ONLY <1>1, <1>8, <1>9, call' = "write", FileWritesAreGood
<1> HIDE DEF new
<1>11. FilesChange(disk, Directories, new)
    <2>1. \A d \in Directories : /\ Slot(new, d, 0) = Slot(disk, d, 0)
                                 /\ Slot(new, d, 1) = Slot(disk, d, 1)
        <3>1. \A x \in {<<parent, hole>>} : x[2] \in ChildIndex
            BY <1>5
        <3> QED
            BY <1>10, <3>1, OwnStay
    <2>2. ASSUME NEW d \in Directories, NEW j \in ChildIndex,
                 Slot(new, d, j) # Slot(disk, d, j)
          PROVE  d = parent /\ j = hole
        <3>1. j \in Index
            BY Constants
        <3>2. <<d, j>> \in {<<parent, hole>>}
            BY <1>10, <2>2, <3>1 DEF OnlyChanges
        <3> QED
            BY <3>2
    <2> QED
        BY <1>5, <1>6, <1>10, <2>1, <2>2 DEF FilesChange, FolderAt
<1> QED
    BY <1>1, <1>10, <1>11, FilesChangeFits DEF new

LEMMA WriteTargetFits ==
    ASSUME CarefulInv, CarefulUsers, NEW s \in Shells, WriteTarget(s)
    PROVE  CarefulInv'
<1> DEFINE c == cmd[s]
           to == Last(c.found)
<1>1. ShellInv' /\ ShellInv
    BY WriteTargetKeeps DEF CarefulInv
<1>2. /\ Idle /\ c.at = "write" /\ c # Prompt /\ c \in Command /\ Ready(c) /\ installed
      /\ Finish(s) /\ UNCHANGED <<dir_stack, installed>>
    <2>1. Idle /\ c.at = "write" /\ Finish(s) /\ UNCHANGED <<dir_stack, installed>>
        BY DEF WriteTarget, Running
    <2> QED
        BY <1>1, <2>1, RunsWithProgram, CommandRuns
<1>3. CommandFits(disk, Directories, dir_stack[s], c)
    BY <1>2, IdleIsTidy DEF ShellFits
<1>4. to.dir \in Directories /\ to.name \in FileNames /\ to.ext \in EntryExt
    <2>1. c.found \in Seq(Place) /\ c.found # <<>>
        BY <1>2 DEF Command, Ready
    <2>2. Len(c.found) \in DOMAIN c.found /\ to = c.found[Len(c.found)]
        BY <2>1, EmptySeq DEF Last
    <2>3. to \in Place
        BY <1>1, <1>2, SourceFound
    <2> HIDE DEF to
    <2> QED
        BY <1>2, <1>3, <2>2, <2>3 DEF CommandFits, Place, Command
<1>5. c.size \in FileSizes /\ c.content \in [1 .. ClusterAmount(c.size) -> Content]
    <2>1. c.size \in FileSizes /\ Len(c.content) = ClusterAmount(c.size)
          /\ c.content \in Seq(Content)
        BY <1>2 DEF Ready, Command
    <2>2. c.content \in [1 .. Len(c.content) -> Content]
        BY <2>1
    <2> QED
        BY <2>1, <2>2
<1>6. IsText(c.content, c.size)
    BY <1>2, <1>3 DEF CommandFits
<1>7. \A t \in Shells : cmd'[t] = Prompt \/ (~OneShell /\ cmd'[t] = cmd[t])
    BY <1>1, <1>2 DEF Finish, Continue, OneShell, ShellInv
<1>8. CASE UNCHANGED vars
    BY <1>1, <1>2, <1>8, GoesOnFits DEF Finish
<1>9. CASE call' = "write" /\ write_file(to.dir, to.name, to.ext, c.size, c.content)
    <2> HIDE DEF c, to
    <2> QED
        BY <1>1, <1>2, <1>4, <1>5, <1>6, <1>7, <1>9, WriteFits
<1> QED
    BY <1>8, <1>9 DEF WriteTarget

\* The program that the disk image comes with.
LEMMA InstallFits ==
    ASSUME CarefulInv, CarefulUsers, Install
    PROVE  CarefulInv'
<1>1. ShellInv' /\ Idle /\ installed' /\ call' = "write" /\ UNCHANGED <<dir_stack, cmd>>
    BY InstallKeeps DEF CarefulInv, Install
<1>2. PICK tag \in Tags : write_file(ROOT_CLUSTER_NUMBER, Program, NoExt, ProgramSize,
                                     Buffer(tag, ProgramSize))
    BY DEF Install
<1>3. /\ Program \in FileNames /\ NoExt \in EntryExt /\ ProgramSize \in FileSizes
      /\ ROOT_CLUSTER_NUMBER \in Directories
    <2>1. ROOT_CLUSTER_NUMBER \in Directories
        BY <1>1, IdleIsTidy DEF Tidy, Good, Tree
    <2> QED
        BY <2>1, ShellAssumption, ShellConstants DEF ShellAssumption, EntryExt
<1>4. /\ IsText(Buffer(tag, ProgramSize), ProgramSize)
      /\ Buffer(tag, ProgramSize) \in [1 .. ClusterAmount(ProgramSize) -> Content]
    BY <1>3, BufferFits, BufferIsText
<1>5. \A t \in Shells : cmd'[t] = Prompt
    BY <1>1 DEF CarefulInv, Install
<1> QED
    BY <1>1, <1>2, <1>3, <1>4, <1>5, WriteFits

\* What a delete makes of the disk.
Deleted(at, new, index) ==
    LET entry == Slot(disk, at.dir, index)
    IN  /\ index \in ChildIndex /\ entry.live /\ entry.name = at.name
        /\ Promised(Texts, pending', cluster_map', call')
        /\ Good(Texts, new, IF entry.folder THEN Directories \ {entry.cluster} ELSE Directories)
        /\ Slot(new, at.dir, index) = [entry EXCEPT !.live = FALSE]
        /\ OnlyChanges(disk, Directories, new, {<<at.dir, index>>})

LEMMA DeleteLeaves ==
    ASSUME CarefulInv, CarefulUsers, Idle, ShellInv', call' = "delete",
           NEW at, at.dir \in Directories, at.name \in Names,
           delete(at.dir, at.name, at.ext)
    PROVE  \E index : Deleted(at, Written(disk, pending', Len(pending')), index)
<1> DEFINE parent == at.dir
           index == FirstIndex(Deletable(TableAt(parent), at.name, at.ext))
           map == [c \in Cluster |->
                      IF c \in FreedClusters(TableAt(parent)[index])
                      THEN EMPTY ELSE cluster_map[c]]
           newTable == [TableAt(parent) EXCEPT ![index].live = FALSE]
<1>1. /\ DeleteCode(parent, at.name, at.ext) = 0
      /\ cluster_map' = map /\ pending' = DeleteWrites(map, parent, newTable)
      /\ UNCHANGED disk
    BY DEF delete
<1>2. /\ GoodBefore(Texts, Directories) /\ Good(Texts, disk, Directories)
      /\ disk \in [Cluster -> Content]
    BY IdleIsGood DEF GoodBefore, CarefulInv, SoundFor
<1>3. /\ index \in ChildIndex /\ Slot(disk, parent, index).live
      /\ Slot(disk, parent, index).name = at.name
      /\ FolderAt(disk, parent, index) =>
            \A j \in ChildIndex : ~Slot(disk, Slot(disk, parent, index).cluster, j).live
    <2>1. DeleteCode(parent, at.name, at.ext) = 0
        BY <1>1
    <2> QED
        BY <1>2, <2>1, DeleteTakesAChild DEF CarefulUsers
<1>5. /\ map \in MapType
      /\ \A c \in Cluster : map[c] =
            IF c \in FreedClusters(Slot(disk, parent, index)) THEN EMPTY ELSE cluster_map[c]
    <2>1. map \in MapType
        BY <1>1 DEF ShellInv, IInv
    <2>2. TableAt(parent)[index] = Slot(disk, parent, index)
        BY DEF TableAt, Slot
    <2> QED
        BY <2>1, <2>2
<1> HIDE DEF index
<1>6. newTable = [TableAt(parent) EXCEPT ![index].live = FALSE]
    OBVIOUS
<1> HIDE DEF map, newTable
<1>7. EntryToDelete(Texts, Directories, parent, index, newTable, map)
    BY <1>2, <1>3, <1>5, <1>6 DEF EntryToDelete
<1> DEFINE entry == Slot(disk, parent, index)
           new == Written(disk, pending', Len(pending'))
<1> DEFINE writes == DeleteWrites(map, parent, newTable)
           last == Written(disk, writes, Len(writes))
<1>8. /\ Promised(Texts, writes, map, "delete")
      /\ Good(Texts, last, IF entry.folder THEN Directories \ {entry.cluster} ELSE Directories)
      /\ Slot(last, parent, index) = [entry EXCEPT !.live = FALSE]
      /\ OnlyChanges(disk, Directories, last, {<<parent, index>>})
    BY ONLY <1>7, DeleteWritesAreGood
<1>10. pending' = writes /\ cluster_map' = map /\ new = last
    BY <1>1
<1> HIDE DEF new, last, writes
<1>9. Deleted(at, new, index)
    BY ONLY <1>3, <1>8, <1>10, call' = "delete" DEF Deleted
<1> QED
    BY <1>9 DEF new

\* Only this slot has changed, and it is none of a directory's own two.
OneSlot(contents, dirs, new, b, i) ==
    /\ \A d \in dirs : /\ Slot(new, d, 0) = Slot(contents, d, 0)
                       /\ Slot(new, d, 1) = Slot(contents, d, 1)
    /\ \A d \in dirs, j \in ChildIndex :
          Slot(new, d, j) # Slot(contents, d, j) => d = b /\ j = i

LEMMA OneChanges ==
    ASSUME NEW contents, NEW dirs, NEW new, NEW b, NEW i \in ChildIndex,
           NEW slots, slots = {<<b, i>>}, OnlyChanges(contents, dirs, new, slots)
    PROVE  OneSlot(contents, dirs, new, b, i)
<1>1. \A d \in dirs : /\ Slot(new, d, 0) = Slot(contents, d, 0)
                      /\ Slot(new, d, 1) = Slot(contents, d, 1)
    <2>1. \A x \in slots : x[2] \in ChildIndex
        OBVIOUS
    <2> QED
        BY <2>1, OwnStay
<1>2. ASSUME NEW d \in dirs, NEW j \in ChildIndex, Slot(new, d, j) # Slot(contents, d, j)
      PROVE  d = b /\ j = i
    <2>1. j \in Index
        BY Constants
    <2>2. <<d, j>> \in {<<b, i>>}
        BY <1>2, <2>1 DEF OnlyChanges
    <2> QED
        BY <2>2
<1> QED
    BY <1>1, <1>2 DEF OneSlot

\* rm of a file.
LEMMA FileGoesFits ==
    ASSUME CarefulInv, CarefulUsers, Idle, ShellInv', installed', UNCHANGED <<disk, dir_stack>>,
           call' = "delete", NEW at, at.dir \in Directories, at.name \in FileNames,
           NEW index, Deleted(at, Written(disk, pending', Len(pending')), index),
           \A s \in Shells : cmd'[s] = Prompt \/ (~OneShell /\ cmd'[s] = cmd[s])
    PROVE  CarefulInv'
<1> DEFINE new == Written(disk, pending', Len(pending'))
           entry == Slot(disk, at.dir, index)
<1>1. Tidy(disk, Directories)
    BY IdleIsTidy
<1>2. Deleted(at, new, index)
    OBVIOUS
<1> HIDE DEF new
<1>3. /\ index \in ChildIndex /\ entry.live /\ entry.name = at.name
      /\ Promised(Texts, pending', cluster_map', call')
      /\ Good(Texts, new, IF entry.folder THEN Directories \ {entry.cluster} ELSE Directories)
      /\ Slot(new, at.dir, index) = [entry EXCEPT !.live = FALSE]
      /\ OnlyChanges(disk, Directories, new, {<<at.dir, index>>})
    BY <1>2 DEF Deleted
<1>4. ~entry.folder
    <2>1. entry.name \in FileNames
        BY <1>3
    <2> QED
        BY <1>1, <1>3, <2>1, ChildrenAre
<1>5. Good(Texts, new, Directories)
    BY <1>3, <1>4
<1>6. ~Slot(new, at.dir, index).folder /\ ~Slot(new, at.dir, index).live
    <2>1. entry \in SafeEntry
        <3>1. disk \in [Cluster -> Content] /\ at.dir \in Cluster /\ index \in Index
            BY <1>3, IdleIsTidy, Constants
        <3> QED
            BY <3>1, SlotIsEntry
    <2> HIDE DEF entry
    <2> QED
        BY <1>3, <1>4, <2>1 DEF SafeEntry, Entry
<1>7. FilesChange(disk, Directories, new)
    <2>1. OneSlot(disk, Directories, new, at.dir, index)
        BY <1>3, OneChanges
    <2> QED
        BY <1>4, <1>6, <2>1 DEF FilesChange, FolderAt, OneSlot
<1> QED
    BY <1>3, <1>5, <1>7, FilesChangeFits DEF new

\* rm of a folder, which no other shell may be in.
LEMMA FolderGoesFits ==
    ASSUME CarefulInv, CarefulUsers, OneShell, Idle, ShellInv', installed',
           UNCHANGED <<disk, dir_stack>>, call' = "delete",
           NEW at, at.dir \in Directories, at.name \in FolderNames,
           NEW index, Deleted(at, Written(disk, pending', Len(pending')), index),
           NEW s \in Shells, cmd'[s] = Prompt,
           \E d \in Led(disk, at.dir, Folder(at.name)) : IsAside(dir_stack[s], d)
    PROVE  CarefulInv'
<1> DEFINE new == Written(disk, pending', Len(pending'))
           entry == Slot(disk, at.dir, index)
           gone == entry.cluster
<1>1. /\ Tidy(disk, Directories) /\ disk \in [Cluster -> Content]
      /\ StackFits(disk, Directories, dir_stack[s]) /\ dir_stack[s] \in Stacks
    BY IdleIsTidy DEF ShellFits, CarefulInv, ShellInv
<1>2. Deleted(at, new, index) /\ new \in [Cluster -> Content]
    BY <1>1, DiskToBe
<1> HIDE DEF new
<1>3. /\ index \in ChildIndex /\ entry.live /\ entry.name = at.name
      /\ Promised(Texts, pending', cluster_map', call')
      /\ Good(Texts, new, IF entry.folder THEN Directories \ {entry.cluster} ELSE Directories)
      /\ Slot(new, at.dir, index) = [entry EXCEPT !.live = FALSE]
      /\ OnlyChanges(disk, Directories, new, {<<at.dir, index>>})
    BY <1>2 DEF Deleted
<1>4. FolderAt(disk, at.dir, index) /\ entry.folder
    <2>1. entry.name \in FolderNames
        BY <1>3
    <2> QED
        BY <1>1, <1>3, <2>1, ChildrenAre DEF FolderAt
<1>5. Good(Texts, new, Directories \ {gone})
    BY <1>3, <1>4
<1>6. IsAside(dir_stack[s], gone)
    <2>1. PICK d \in Led(disk, at.dir, Folder(at.name)) : IsAside(dir_stack[s], d)
        OBVIOUS
    <2>2. index \in FoldersOf(disk, at.dir, at.name)
        BY <1>3, <1>4 DEF FoldersOf
    <2>3. Folder(at.name) # Up /\ Folder(at.name).name = at.name
        BY NamesApart DEF Folder, Up
    <2>4. gone \in Led(disk, at.dir, Folder(at.name))
        BY <2>2, <2>3 DEF Led
    <2>5. d = gone
        BY <1>1, <2>1, <2>4, LedIsOne
    <2> QED
        BY <2>1, <2>5
<1>7. /\ Tidy(new, Directories \ {gone})
      /\ StackFits(new, Directories \ {gone}, dir_stack[s])
    <2>1. entry.name \in FolderNames
        BY <1>3
    <2>2. LET away == Slot(disk, at.dir, index).cluster
          IN  /\ Tidy(new, Directories \ {away})
              /\ \A stack \in Stacks :
                    StackFits(disk, Directories, stack) /\ IsAside(stack, away) =>
                        StackFits(new, Directories \ {away}, stack)
        BY <1>1, <1>2, <1>3, <1>4, <1>5, <2>1, FolderGoesTidy
    <2> QED
        BY <1>1, <1>6, <2>2
<1>8. ASSUME NEW t \in Shells
      PROVE  ShellFits(new, Directories \ {gone}, dir_stack'[t], cmd'[t])
    <2>1. t = s
        BY DEF OneShell
    <2> QED
        BY <1>7, <2>1 DEF ShellFits
<1>9. new = Written(disk, pending', Len(pending'))
    BY DEF new
<1> HIDE DEF gone
<1> QED
    BY <1>3, <1>7, <1>8, <1>9, CallFits

LEMMA DeleteFoundFits ==
    ASSUME CarefulInv, CarefulUsers, NEW s \in Shells, DeleteFound(s)
    PROVE  CarefulInv'
<1> DEFINE c == cmd[s]
           at == c.found[1]
<1>1. ShellInv' /\ ShellInv
    BY DeleteFoundKeeps DEF CarefulInv
<1>2. /\ Idle /\ c.at = "delete" /\ c # Prompt /\ c \in Command /\ Ready(c) /\ installed
      /\ Finish(s) /\ UNCHANGED <<dir_stack, installed>>
    <2>1. Idle /\ c.at = "delete" /\ Finish(s) /\ UNCHANGED <<dir_stack, installed>>
        BY DEF DeleteFound, Running
    <2> QED
        BY <1>1, <2>1, RunsWithProgram, CommandRuns
<1>3. CommandFits(disk, Directories, dir_stack[s], c)
    BY <1>2, IdleIsTidy DEF ShellFits
<1>4. /\ at.dir \in Directories
      /\ at.name \in IF c.op = "rmdir" THEN FolderNames ELSE FileNames
    <2>1. 1 \in DOMAIN c.found
        <3>1. c.found \in Seq(Place) /\ c.found # <<>>
            BY <1>2 DEF Command, Ready
        <3> HIDE DEF c
        <3> QED
            BY <3>1, OneLess
    <2> HIDE DEF c
    <2> QED
        BY <1>3, <2>1 DEF CommandFits
<1>5. (\A t \in Shells : cmd'[t] = Prompt \/ (~OneShell /\ cmd'[t] = cmd[t])) /\ cmd'[s] = Prompt
    BY <1>1, <1>2 DEF Finish, Continue, OneShell, ShellInv
<1>6. CASE UNCHANGED vars
    BY <1>1, <1>2, <1>6, GoesOnFits DEF Finish
<1>7. CASE call' = "delete" /\ delete(at.dir, at.name, at.ext)
    <2>1. UNCHANGED disk
        BY <1>7 DEF delete
    <2>2. at.name \in Names
        BY <1>4, ShellConstants
    <2>3. c.op = "rmdir" =>
              OneShell /\ \E d \in Led(disk, at.dir, Folder(at.name)) : IsAside(dir_stack[s], d)
        <3>1. c.op \in COMMANDS
            BY <1>2 DEF Command
        <3> QED
            BY <1>2, <1>3, <3>1 DEF CommandFits, CarefulUsers
    <2> HIDE DEF c, at
    <2>4. PICK index : Deleted(at, Written(disk, pending', Len(pending')), index)
        BY <1>1, <1>2, <1>4, <1>7, <2>2, DeleteLeaves
    <2>5. CASE c.op = "rmdir"
        BY <1>1, <1>2, <1>4, <1>5, <1>7, <2>1, <2>3, <2>4, <2>5, FolderGoesFits
    <2>6. CASE c.op # "rmdir"
        BY <1>1, <1>2, <1>4, <1>5, <1>7, <2>1, <2>4, <2>6, FileGoesFits
    <2> QED
        BY <2>5, <2>6
<1> QED
    BY <1>6, <1>7 DEF DeleteFound

LEMMA MoveFits ==
    ASSUME CarefulInv, CarefulUsers, Idle, ShellInv', installed', UNCHANGED dir_stack,
           call' = "move",
           NEW from \in Directories, NEW to \in Directories, from # to,
           NEW name \in FileNames, NEW ext, NEW newName \in FileNames, NEW newExt \in EntryExt,
           move(from, name, ext, to, newName, newExt),
           \A s \in Shells : cmd'[s] = Prompt \/ (~OneShell /\ cmd'[s] = cmd[s])
    PROVE  CarefulInv'
<1> DEFINE sources == Movable(TableAt(from), name, ext)
           holes == Holes(TableAt(to))
           source == FirstIndex(sources)
           hole == FirstIndex(holes)
           entry == [TableAt(from)[source] EXCEPT !.name = newName, !.ext = newExt]
           newFrom == [TableAt(from) EXCEPT ![source].live = FALSE]
           newTo == [TableAt(to) EXCEPT ![hole] = entry]
<1>1. /\ pending' = MoveWrites(from, newFrom, to, newTo)
      /\ UNCHANGED <<cluster_map, disk>>
      /\ MoveCode(from, name, ext, to) = 0
    BY DEF move
<1>2. /\ GoodBefore(Texts, Directories) /\ disk \in [Cluster -> Content]
      /\ from \in Cluster /\ to \in Cluster /\ Tidy(disk, Directories)
    BY IdleIsGood, IdleIsTidy DEF GoodBefore, CarefulInv, SoundFor
<1>3. source \in sources /\ source \in ChildIndex /\ hole \in holes /\ hole \in ChildIndex
    <2>1. sources # {} /\ holes # {}
        BY <1>1 DEF MoveCode
    <2>2. /\ sources \in SUBSET Nat /\ sources \subseteq ChildIndex
          /\ holes \in SUBSET Nat /\ holes \subseteq ChildIndex
        BY Constants DEF Movable, Holes
    <2> HIDE DEF sources, holes
    <2>3. source \in sources /\ hole \in holes
        BY <2>1, <2>2, FirstIsMember
    <2> QED
        BY <2>2, <2>3
<1>4. ~Slot(disk, from, source).folder /\ ~Slot(disk, to, hole).live
    <2>1. TableAt(from)[source].name = name /\ ~TableAt(to)[hole].live
        <3>1. (\A i \in sources : TableAt(from)[i].name = name)
              /\ (\A i \in holes : ~TableAt(to)[i].live)
            BY DEF Movable, Holes
        <3> HIDE DEF sources, holes
        <3> QED
            BY <1>3, <3>1
    <2>2. TableAt(from)[source] = Slot(disk, from, source) /\ TableAt(to)[hole] = Slot(disk, to, hole)
        BY DEF TableAt, Slot
    <2>3. Slot(disk, from, source).name \in FileNames
        BY <2>1, <2>2
    <2> HIDE DEF source, hole
    <2>4. ~Slot(disk, from, source).folder
        BY <1>2, <1>3, <2>3, ChildrenAre
    <2> QED
        BY <2>1, <2>2, <2>4
<1>5. Slot(disk, from, source) \in SafeEntry
    BY <1>2, <1>3, SlotIsEntry, Constants
<1>6. /\ entry \in SafeEntry /\ entry.name = newName /\ newName \in Names
      /\ entry.live = Slot(disk, from, source).live
      /\ entry.folder = Slot(disk, from, source).folder
      /\ entry.cluster = Slot(disk, from, source).cluster
      /\ entry.filesize = Slot(disk, from, source).filesize
    <2>1. TableAt(from)[source] = Slot(disk, from, source)
        BY DEF TableAt, Slot
    <2>2. newName \in Names
        BY ShellConstants
    <2> HIDE DEF source
    <2> QED
        BY <1>5, <2>1, <2>2 DEF SafeEntry, Entry, EntryExt
<1> HIDE DEF source, hole, entry
<1>7. /\ newFrom = [TableAt(from) EXCEPT ![source].live = FALSE]
      /\ newTo = [TableAt(to) EXCEPT ![hole] = entry]
    OBVIOUS
<1> HIDE DEF newFrom, newTo
<1>8. EntryToMove(Texts, Directories, from, to, source, hole, entry, newFrom, newTo)
    BY <1>2, <1>3, <1>4, <1>6, <1>7 DEF EntryToMove, FolderAt
<1> DEFINE writes == MoveWrites(from, newFrom, to, newTo)
           new == Written(disk, writes, Len(writes))
<1>9. /\ Promised(Texts, writes, cluster_map, "move")
      /\ Good(Texts, new, Directories) /\ Slot(new, to, hole) = entry
      /\ Slot(new, from, source) = [Slot(disk, from, source) EXCEPT !.live = FALSE]
      /\ OnlyChanges(disk, Directories, new, {<<from, source>>, <<to, hole>>})
    BY ONLY <1>8, MoveWritesAreGood
<1>10. pending' = writes /\ cluster_map' = cluster_map
    BY <1>1
<1>11. new = Written(disk, pending', Len(pending'))
    BY <1>10
<1> HIDE DEF new, writes
<1>12. FilesChange(disk, Directories, new)
    <2>1. \A d \in Directories : /\ Slot(new, d, 0) = Slot(disk, d, 0)
                                 /\ Slot(new, d, 1) = Slot(disk, d, 1)
        <3>1. \A x \in {<<from, source>>, <<to, hole>>} : x[2] \in ChildIndex
            BY <1>3
        <3> DEFINE slots == {<<from, source>>, <<to, hole>>}
        <3>2. OnlyChanges(disk, Directories, new, slots) /\ \A x \in slots : x[2] \in ChildIndex
            BY <1>9, <3>1
        <3> HIDE DEF slots
        <3> QED
            BY <3>2, OwnStay
    <2>2. ASSUME NEW d \in Directories, NEW j \in ChildIndex,
                 Slot(new, d, j) # Slot(disk, d, j)
          PROVE  (d = from /\ j = source) \/ (d = to /\ j = hole)
        <3>1. j \in Index
            BY Constants
        <3>2. <<d, j>> \in {<<from, source>>, <<to, hole>>}
            BY <1>9, <2>2, <3>1 DEF OnlyChanges
        <3> QED
            BY <3>2
    <2>3. ~Slot(new, from, source).folder /\ ~Slot(new, from, source).live
        BY <1>4, <1>5, <1>9 DEF SafeEntry, Entry
    <2>4. ~Slot(new, to, hole).folder /\ Slot(new, to, hole).name \in FileNames
        BY <1>4, <1>6, <1>9
    <2> QED
        BY <1>4, <2>1, <2>2, <2>3, <2>4 DEF FilesChange, FolderAt
<1>13. Promised(Texts, pending', cluster_map', call')
    BY <1>9, <1>10
<1> QED
    BY <1>1, <1>9, <1>11, <1>12, <1>13, FilesChangeFits

LEMMA MoveFoundFits ==
    ASSUME CarefulInv, CarefulUsers, NEW s \in Shells, MoveFound(s)
    PROVE  CarefulInv'
<1> DEFINE c == cmd[s]
           from == c.found[1]
           to == c.found[2]
<1>1. ShellInv' /\ ShellInv
    BY MoveFoundKeeps DEF CarefulInv
<1>2. /\ Idle /\ c.at = "move" /\ c # Prompt /\ c \in Command /\ Ready(c) /\ installed
      /\ Finish(s) /\ UNCHANGED <<dir_stack, installed>>
    <2>1. Idle /\ c.at = "move" /\ Finish(s) /\ UNCHANGED <<dir_stack, installed>>
        BY DEF MoveFound, Running
    <2> QED
        BY <1>1, <2>1, RunsWithProgram, CommandRuns
<1>3. CommandFits(disk, Directories, dir_stack[s], c)
    BY <1>2, IdleIsTidy DEF ShellFits
<1>4. /\ from.dir \in Directories /\ from.name \in FileNames /\ from.dir # to.dir
      /\ to.dir \in Directories /\ to.name \in FileNames /\ to.ext \in EntryExt
    <2>1. c.found \in Seq(Place) /\ Len(c.found) = 2
        BY <1>2 DEF Command, Ready
    <2>2. 1 \in 1 .. 2 /\ 2 \in 1 .. 2
        OBVIOUS
    <2>3. 1 \in DOMAIN c.found /\ 2 \in DOMAIN c.found /\ to \in Place
        BY <2>1, <2>2, ElementOfSeq
    <2>4. c.op # "rmdir" /\ from.dir # to.dir
        BY <1>2, <1>3 DEF CommandFits
    <2> HIDE DEF c
    <2> QED
        BY <1>3, <2>3, <2>4 DEF CommandFits, Place
<1>5. \A t \in Shells : cmd'[t] = Prompt \/ (~OneShell /\ cmd'[t] = cmd[t])
    BY <1>1, <1>2 DEF Finish, Continue, OneShell, ShellInv
<1>6. CASE UNCHANGED vars
    BY <1>1, <1>2, <1>6, GoesOnFits DEF Finish
<1>7. CASE call' = "move" /\ move(from.dir, from.name, from.ext, to.dir, to.name, to.ext)
    <2> HIDE DEF c, from, to
    <2> QED
        BY <1>1, <1>2, <1>4, <1>5, <1>7, MoveFits
<1> QED
    BY <1>6, <1>7 DEF MoveFound

\* What write()'s answers tell.
LEMMA WriteAnswers ==
    ASSUME NEW parent, NEW name, NEW ext, NEW isFolder, NEW amount
    PROVE  LET code == WriteCode(parent, name, ext, isFolder, amount)
               exists == AlreadyExists(TableAt(parent), name, ext, isFolder)
           IN  (code = 1 => exists) /\ (code = 0 => ~exists)
BY DEF WriteCode

\* What mkdir's answers tell.
LEMMA MkdirAnswers ==
    ASSUME Tidy(disk, Directories), NEW parent \in Directories, NEW name \in FolderNames
    PROVE  LET code == WriteCode(parent, name, NoExt, TRUE, 1)
               holes == Holes(TableAt(parent))
           IN  /\ code = 1 => FoldersOf(disk, parent, name) # {}
               /\ code = 0 => \A j \in 2 .. (FirstIndex(holes) - 1) :
                     /\ Slot(disk, parent, j).live
                     /\ ~(Slot(disk, parent, j).folder /\ Slot(disk, parent, j).name = name)
<1> DEFINE table == TableAt(parent)
           exists == AlreadyExists(table, name, NoExt, TRUE)
           holes == Holes(table)
           hole == FirstIndex(holes)
           code == WriteCode(parent, name, NoExt, TRUE, 1)
<1>1. \A j : table[j] = Slot(disk, parent, j)
    BY DEF TableAt, Slot
<1>2. (code = 1 => exists) /\ (code = 0 => ~exists)
    BY WriteAnswers
<1>3. ASSUME exists PROVE FoldersOf(disk, parent, name) # {}
    <2> HIDE DEF table
    <2>1. PICK i \in ChildIndex : (\A j \in 2 .. i : table[j].live) /\ table[i].name = name
        BY <1>3 DEF AlreadyExists
    <2>2. i \in 2 .. i
        BY Constants DEF ChildIndex
    <2>3. Slot(disk, parent, i).live /\ Slot(disk, parent, i).name = name
        BY <1>1, <2>1, <2>2
    <2>4. FolderAt(disk, parent, i)
        BY <2>3, ChildrenAre
    <2> QED
        BY <2>3, <2>4 DEF FoldersOf
<1>4. ASSUME code = 0 PROVE holes # {}
    BY <1>4, WriteNeedsHole
<1>5. ASSUME code = 0
      PROVE  hole \in holes /\ \A i \in holes : hole <= i
    <2>1. holes \in SUBSET Nat
        BY Constants DEF Holes
    <2> HIDE DEF holes, code
    <2> QED
        BY <1>4, <1>5, <2>1, FirstIsMember
<1>6. hole \in holes => hole \in ChildIndex
    BY DEF Holes
<1>7. \A j \in ChildIndex : j \notin holes => table[j].live
    BY DEF Holes
<1> HIDE DEF hole, holes, code
<1>8. ASSUME code = 0, NEW j \in 2 .. (hole - 1)
      PROVE  j \in ChildIndex /\ \A i \in 2 .. j : table[i].live
    <2>1. \A n \in ChildIndex : \A m \in 2 .. (n - 1) :
              m \in ChildIndex /\ \A i \in 2 .. m : i \in ChildIndex /\ ~(n <= i)
        <3>1. \A N \in Nat : \A n \in 2 .. (N - 1) : \A m \in 2 .. (n - 1) :
                  m \in 2 .. (N - 1) /\ \A i \in 2 .. m : i \in 2 .. (N - 1) /\ ~(n <= i)
            OBVIOUS
        <3>2. DIRECTORY_TABLE_SIZE \in Nat
            BY FAT32Assumption DEF FAT32Assumption
        <3> QED
            BY <3>1, <3>2, Zenon DEF ChildIndex
    <2>2. hole \in ChildIndex
        BY <1>5, <1>6, <1>8
    <2>3. j \in ChildIndex /\ \A i \in 2 .. j : i \in ChildIndex /\ ~(hole <= i)
        BY <2>1, <2>2
    <2> QED
        BY <1>5, <1>7, <1>8, <2>3
<1>9. ASSUME code = 0, NEW j \in 2 .. (hole - 1)
      PROVE  /\ Slot(disk, parent, j).live
             /\ ~(Slot(disk, parent, j).folder /\ Slot(disk, parent, j).name = name)
    <2>1. j \in 2 .. j
        BY <1>8, <1>9, Constants DEF ChildIndex
    <2>2. j \in ChildIndex /\ \A i \in 2 .. j : table[i].live
        BY <1>8, <1>9
    <2>3. ~exists
        BY <1>2, <1>9
    <2> HIDE DEF table
    <2>4. ~(table[j].folder /\ table[j].name = name)
        BY <2>2, <2>3 DEF AlreadyExists
    <2> QED
        BY <1>1, <2>1, <2>2, <2>4
<1> QED
    BY <1>2, <1>3, <1>9 DEF code, hole, holes

\* The disk as a mkdir will leave it.
FolderMade(parent, name, new, hole, location) ==
    /\ Promised(Texts, pending', cluster_map', call')
    /\ Good(Texts, new, Directories \cup {location})
    /\ FolderComes(disk, Directories, new, parent, hole, location)
    /\ Slot(new, parent, hole).name = name

\* The slots of a new folder's table are dead and have no file's name.
LEMMA ResidueIsDead ==
    ASSUME NEW residue \in FolderResidue
    PROVE  ~residue.live /\ residue.name \notin FileNames
<1>1. residue \in Residue /\ residue.name \notin FileNames
    BY DEF FolderResidue
<1>2. CASE residue = BlankEntry
    BY <1>1, <1>2 DEF BlankEntry
<1>3. CASE residue # BlankEntry
    <2>1. PICK n \in Names : residue = [BlankEntry EXCEPT !.name = n, !.folder = TRUE]
        BY <1>1, <1>3 DEF Residue
    <2> QED
        BY <1>1, <2>1 DEF BlankEntry
<1> QED
    BY <1>2, <1>3

LEMMA FolderIsMade ==
    ASSUME CarefulInv, Idle, ShellInv', call' = "mkdir",
           NEW parent \in Directories, NEW name \in FolderNames, NEW residue \in FolderResidue,
           write_folder(parent, name, NoExt, residue),
           name # Slot(disk, parent, 0).name,
           OneShell => NoHoleBefore(disk, parent, name)
    PROVE  \E hole, location :
              FolderMade(parent, name, Written(disk, pending', Len(pending')), hole, location)
<1> DEFINE hole == FirstIndex(Holes(TableAt(parent)))
           Map(location) == [cluster_map EXCEPT ![location] = EOF]
           Entry1(location) ==
               [TableAt(parent)[hole] EXCEPT !.name = name, !.folder = TRUE,
                   !.live = TRUE, !.cluster = location, !.filesize = 0]
           NewTable(location) == [TableAt(parent) EXCEPT ![hole] = Entry1(location)]
           child == init_directory_table(name, parent, residue)
<1>1. PICK locations \in Locations(1) :
          /\ cluster_map' = Map(locations[1])
          /\ pending' = FolderWrites(parent, NewTable(locations[1]), Map(locations[1]),
                                     locations[1], child)
          /\ UNCHANGED disk
    BY DEF write_folder, FolderWrites
<1> DEFINE location == locations[1]
           entry == Entry1(location)
           map == Map(location)
           newTable == NewTable(location)
<1>2. /\ GoodBefore(Texts, Directories) /\ disk \in [Cluster -> Content]
      /\ parent \in Cluster /\ IInv /\ Tidy(disk, Directories)
    BY IdleIsGood, IdleIsTidy DEF GoodBefore, CarefulInv, SoundFor
<1>3. WriteCode(parent, name, NoExt, TRUE, 1) = 0
    BY Zenon DEF write_folder
<1>4. hole \in ChildIndex /\ ~Slot(disk, parent, hole).live
    BY <1>2, <1>3, WriteHasRoom
<1>5. location \in DataCluster /\ cluster_map[location] = EMPTY
    BY DEF Locations, FreeCluster
<1>6. name \in Names /\ name \in EntryName
    BY ShellConstants DEF EntryName
<1>7. /\ entry \in SafeEntry /\ entry.live /\ entry.folder /\ entry.cluster = location
      /\ entry.name = name
    <2>1. TableAt(parent)[hole] \in SafeEntry
        <3>1. TableAt(parent)[hole] = Slot(disk, parent, hole)
            BY DEF TableAt, Slot
        <3> QED
            BY <1>2, <1>4, <3>1, SlotIsEntry, Constants
    <2>2. location \in Cluster /\ location # FAT_CLUSTER_NUMBER
        BY <1>5, Constants
    <2> HIDE DEF hole, location
    <2> QED
        BY <1>6, <2>1, <2>2 DEF SafeEntry, Entry
<1>8. /\ child \in TableType /\ child[0].folder /\ child[0].cluster = parent
      /\ child[0].name = name /\ child[1].cluster = parent
      /\ child[1].name = ParentName
      /\ \A j \in ChildIndex : ~child[j].live /\ child[j].name \notin FileNames
    <2>1. child \in TableType
        <3>1. residue \in Residue
            BY DEF FolderResidue
        <3> QED
            BY <1>2, <1>6, <3>1, DirectoryIsTable, NewTableIsTable
    <2>2. /\ child[0].folder /\ child[0].cluster = parent /\ child[1].name = ParentName
          /\ child[0].name = name /\ child[1].cluster = parent
          /\ \A j \in ChildIndex : child[j] = residue
        BY NewTableHolds
    <2> QED
        BY <2>1, <2>2, ResidueIsDead
<1>9. \A j \in 2 .. (hole - 1) :
          /\ Slot(disk, parent, j).live
          /\ ~(Slot(disk, parent, j).folder /\ Slot(disk, parent, j).name = name)
    BY <1>2, <1>3, MkdirAnswers
<1> HIDE DEF hole, location, child
<1>10. newTable = [TableAt(parent) EXCEPT ![hole] = entry]
       /\ map = [cluster_map EXCEPT ![location] = EOF]
    OBVIOUS
<1> HIDE DEF newTable, map, entry
<1>11. FolderToWrite(Texts, Directories, parent, hole, entry, newTable, map, location, child)
    BY <1>2, <1>4, <1>5, <1>6, <1>7, <1>8, <1>10 DEF FolderToWrite
<1> DEFINE writes == FolderWrites(parent, newTable, map, location, child)
           new == Written(disk, writes, Len(writes))
<1>12. /\ Promised(Texts, writes, map, "mkdir")
       /\ Good(Texts, new, Directories \cup {location}) /\ location \notin Directories
       /\ Slot(new, parent, hole) = entry
       /\ OnlyChanges(disk, Directories, new, {<<parent, hole>>})
       /\ HasTable(new, location, child)
    BY ONLY <1>11, FolderWritesAreGood
<1>13. pending' = writes /\ cluster_map' = map
    BY <1>1 DEF newTable, map, location
<1>14. new = Written(disk, pending', Len(pending'))
    BY <1>13
<1> HIDE DEF new, writes
<1>15. FolderComes(disk, Directories, new, parent, hole, location)
    <2>1. 0 \in Index /\ 1 \in Index /\ ChildIndex \subseteq Index
        BY Constants
    <2>2. /\ Slot(new, location, 0).name = name /\ Slot(new, location, 1).cluster = parent
          /\ \A j \in ChildIndex : /\ ~Slot(new, location, j).live
                                   /\ Slot(new, location, j).name \notin FileNames
        BY <1>8, <1>12, <2>1 DEF HasTable
    <2>3. /\ FolderAt(new, parent, hole) /\ Slot(new, parent, hole).cluster = location
          /\ Slot(new, parent, hole).name = name
        BY <1>7, <1>12 DEF FolderAt
    <2> QED
        BY <1>4, <1>9, <1>12, <2>2, <2>3 DEF FolderComes
<1>16. FolderMade(parent, name, new, hole, location)
    BY <1>7, <1>12, <1>13, <1>15 DEF FolderMade
<1> QED
    BY <1>14, <1>16

\* A mkdir that was refused.
LEMMA RefusedMkdirFits ==
    ASSUME CarefulInv, CarefulUsers, ShellInv', NEW s \in Shells,
           Idle, installed, UNCHANGED <<vars, dir_stack, installed>>,
           NEW c \in Command, c = cmd[s], c.at = "make",
           NEW code, code = WriteCode(c.dir, c.todo[1].name, NoExt, TRUE, 1), code # 0,
           NEW next, Continue(s, next),
           next.at = "made", next.code = code, next.op = c.op, next.dir = c.dir,
           next.todo = c.todo, next.found = c.found
    PROVE  CarefulInv'
<1>1. Tidy(disk, Directories) /\ CommandFits(disk, Directories, dir_stack[s], c)
    BY CommandIsNoPrompt, IdleIsTidy DEF ShellFits
<1>2. c.todo \in NewFolders /\ c.dir \in Directories
    BY <1>1 DEF CommandFits, NewNames
<1>3. c.todo[1].name \in FolderNames /\ c.todo[1] # Up
    <2>1. 1 \in 1 .. Len(c.todo)
        BY <1>2, NewFolderShape
    <2> QED
        BY <1>2, <2>1, NewFolderShape
<1>4. code = 1 => Led(disk, c.dir, c.todo[1]) # {}
    <2>1. code = 1 => FoldersOf(disk, c.dir, c.todo[1].name) # {}
        BY <1>1, <1>2, <1>3, MkdirAnswers
    <2> QED
        BY <1>3, <2>1 DEF Led
<1>5. CommandFits(disk, Directories, dir_stack[s], next)
    <2>1. NewNames(disk, next)
        BY <1>1 DEF CommandFits, NewNames
    <2>2. OneShell => NewPlaces(disk, next)
        BY <1>1, <1>4 DEF CommandFits, NewPlaces
    <2> QED
        BY <1>1, <2>1, <2>2 DEF CommandFits
<1> QED
    BY <1>5, GoesOnFits

\* A mkdir that went ahead.
LEMMA DoneMkdirFits ==
    ASSUME CarefulInv, CarefulUsers, ShellInv', NEW s \in Shells,
           Idle, installed, installed', UNCHANGED <<disk, dir_stack>>, call' = "mkdir",
           NEW c \in Command, c = cmd[s], c.at = "make",
           NEW residue \in FolderResidue,
           write_folder(c.dir, c.todo[1].name, NoExt, residue),
           NEW next, Continue(s, next),
           next.at = "made", next.code = 0, next.op = c.op, next.dir = c.dir,
           next.todo = c.todo, next.found = c.found
    PROVE  CarefulInv'
<1> DEFINE new == Written(disk, pending', Len(pending'))
           name == c.todo[1].name
<1>1. /\ disk \in [Cluster -> Content] /\ Tidy(disk, Directories)
      /\ CommandFits(disk, Directories, dir_stack[s], c)
      /\ \A t \in Shells : ShellFits(disk, Directories, dir_stack[t], cmd[t])
    BY CommandIsNoPrompt, IdleIsTidy DEF ShellFits
<1>2. /\ c.todo \in NewFolders /\ c.dir \in Directories
      /\ OneShell => NoHoleBefore(disk, c.dir, name)
    BY <1>1 DEF CommandFits, NewNames, NewPlaces
<1>3. /\ 1 \in 1 .. Len(c.todo) /\ Len(c.todo) \in {1, 2}
      /\ name \in FolderNames /\ c.todo[1] # Up
    <2>1. 1 \in 1 .. Len(c.todo) /\ Len(c.todo) \in {1, 2}
        BY <1>2, NewFolderShape
    <2> QED
        BY <1>2, <2>1, NewFolderShape
<1>4. name # Slot(disk, c.dir, 0).name
    BY <1>1, <1>3 DEF CommandFits, NewNames
<1>5. PICK hole, location : FolderMade(c.dir, name, new, hole, location)
    <2> HIDE DEF name
    <2> QED
        BY <1>2, <1>3, <1>4, FolderIsMade DEF name
<1>6. new \in [Cluster -> Content]
    BY <1>1, DiskToBe
<1> HIDE DEF new
<1> DEFINE dirs2 == Directories \cup {location}
<1>7. /\ Promised(Texts, pending', cluster_map', call')
      /\ FolderComes(disk, Directories, new, c.dir, hole, location)
      /\ Slot(new, c.dir, hole).name = name
      /\ Good(Texts, new, Directories \cup {location})
    BY <1>5 DEF FolderMade
<1>8. /\ Tidy(new, dirs2) /\ Grows(disk, Directories, new, dirs2, c.dir, hole)
      /\ OneShell => Led(new, c.dir, c.todo[1]) = {location}
    BY <1>1, <1>3, <1>6, <1>7, FolderComesTidy
<1> HIDE DEF dirs2
<1>9. \A t \in Shells : dir_stack[t] \in Stacks /\ cmd[t] \in Commands
    BY DEF CarefulInv, ShellInv
<1>10. ASSUME NEW t \in Shells
       PROVE  /\ StackFits(new, dirs2, dir_stack[t])
              /\ ~OneShell => ShellFits(new, dirs2, dir_stack[t], cmd[t])
    <2>1. StackFits(new, dirs2, dir_stack[t])
        BY <1>1, <1>8, <1>9, StackGrows DEF ShellFits
    <2>2. ~OneShell => ShellFits(new, dirs2, dir_stack[t], cmd[t])
        BY <1>1, <1>8, <1>9, OthersFit
    <2> QED
        BY <2>1, <2>2
<1>11. CommandFits(new, dirs2, dir_stack[s], next)
    <2>1. /\ next.dir \in dirs2
          /\ \A k \in DOMAIN next.found :
                /\ next.found[k].dir \in dirs2
                /\ next.found[k].name \in IF next.op = "rmdir" THEN FolderNames ELSE FileNames
        BY <1>1 DEF CommandFits, dirs2
    <2>2. NewNames(new, next)
        <3>1. Slot(new, c.dir, 0) = Slot(disk, c.dir, 0)
            BY <1>2, <1>8 DEF Grows
        <3> QED
            BY <1>1, <3>1 DEF CommandFits, NewNames
    <2>3. ASSUME OneShell PROVE NewPlaces(new, next)
        <3>1. Led(new, c.dir, c.todo[1]) = {location}
            BY <1>8, <2>3
        <3>2. \A j \in ChildIndex : ~Slot(new, location, j).live
            BY <1>7 DEF FolderComes
        <3>3. \A other : FoldersOf(new, location, other) = {}
            BY <3>2 DEF FoldersOf, FolderAt
        <3>4. \A other : NoHoleBefore(new, location, other)
            BY <3>3 DEF NoHoleBefore
        <3>5. \A d \in Led(new, next.dir, next.todo[1]) : \A other : NoHoleBefore(new, d, other)
            BY <3>1, <3>4
        <3>6. Led(new, next.dir, next.todo[1]) # {}
            BY <3>1
        <3> QED
            BY <3>5, <3>6 DEF NewPlaces
    <2> QED
        BY <2>1, <2>2, <2>3 DEF CommandFits
<1>12. ASSUME NEW t \in Shells
       PROVE  ShellFits(new, dirs2, dir_stack'[t], cmd'[t])
    <2>1. CASE t = s
        BY <1>9, <1>10, <1>11, <2>1 DEF Continue, ShellFits, CarefulInv, ShellInv
    <2>2. CASE t # s
        <3>1. ~OneShell /\ cmd'[t] = cmd[t]
            BY <2>2 DEF OneShell, Continue, CarefulInv, ShellInv
        <3> QED
            BY <1>10, <3>1
    <2> QED
        BY <2>1, <2>2
<1> QED
    BY <1>7, <1>8, <1>12, CallFits DEF new

LEMMA MakeDirectoryFits ==
    ASSUME CarefulInv, CarefulUsers, NEW s \in Shells, MakeDirectory(s)
    PROVE  CarefulInv'
<1> DEFINE c == cmd[s]
           name == Head(c.todo).name
           code == WriteCode(c.dir, name, NoExt, TRUE, 1)
           next == [c EXCEPT !.at = "made", !.code = code]
<1>1. ShellInv' /\ ShellInv
    BY MakeDirectoryKeeps DEF CarefulInv
<1>2. /\ Idle /\ c.at = "make" /\ c # Prompt /\ c \in Command /\ installed
      /\ Continue(s, next) /\ UNCHANGED <<dir_stack, installed>>
    <2>1. Idle /\ c.at = "make" /\ Continue(s, next) /\ UNCHANGED <<dir_stack, installed>>
        BY DEF MakeDirectory, Running
    <2> QED
        BY <1>1, <2>1, RunsWithProgram, CommandRuns
<1>3. c.todo \in NewFolders
    BY <1>2, IdleIsTidy DEF ShellFits, CommandFits, NewNames
<1>4. Head(c.todo) = c.todo[1]
    <2> HIDE DEF c
    <2> QED
        BY <1>3, NewFolderShape
<1>5. /\ next.at = "made" /\ next.code = code /\ next.op = c.op /\ next.dir = c.dir
      /\ next.todo = c.todo /\ next.found = c.found
    <2> HIDE DEF code
    <2> QED
        BY <1>2 DEF Command
<1>6. CASE code # 0
    <2>1. UNCHANGED vars
        BY <1>6 DEF MakeDirectory
    <2>2. code = WriteCode(c.dir, c.todo[1].name, NoExt, TRUE, 1)
        BY <1>4
    <2> DEFINE c0 == c
    <2> HIDE DEF next, code
    <2> QED
        BY <1>1, <1>2, <1>5, <1>6, <2>1, <2>2, RefusedMkdirFits
<1>7. CASE code = 0
    <2>1. PICK residue \in FolderResidue : /\ call' = "mkdir"
                                           /\ write_folder(c.dir, name, NoExt, residue)
        BY <1>7 DEF MakeDirectory
    <2>2. write_folder(c.dir, c.todo[1].name, NoExt, residue) /\ UNCHANGED disk
        BY <1>4, <2>1 DEF write_folder
    <2>3. next.code = 0 /\ installed'
        BY <1>2, <1>5, <1>7
    <2> HIDE DEF next, code
    <2> QED
        BY <1>1, <1>2, <1>5, <2>1, <2>2, <2>3, DoneMkdirFits
<1> QED
    BY <1>6, <1>7

-----------------------------------------------------------------------------
(* All steps *)

\* A cluster that reaches the disk changes nothing of what it will be.
LEMMA DiskFits ==
    ASSUME CarefulInv, Disk
    PROVE  CarefulInv'
<1>1. ShellInv' /\ UNCHANGED <<dir_stack, cmd, installed>>
    BY DiskKeeps DEF CarefulInv, Disk
<1>2. SoundFor(Texts)' /\ Settled' = Settled
    BY ClusterWrittenIsSound DEF CarefulInv, Disk
<1>3. (\E dirs : /\ Tidy(Settled, dirs)
                 /\ \A s \in Shells : ShellFits(Settled, dirs, dir_stack[s], cmd[s]))'
    BY <1>1, <1>2 DEF CarefulInv
<1> QED
    BY <1>1, <1>2, <1>3 DEF CarefulInv

LEMMA NothingHappensFits ==
    ASSUME CarefulInv, UNCHANGED shellVars
    PROVE  CarefulInv'
<1>1. ShellInv' /\ UNCHANGED <<dir_stack, cmd, installed>> /\ UNCHANGED vars
    BY DEF CarefulInv, shellVars, ShellInv, vars, IInv, OnDisk
<1>2. SoundFor(Texts)' /\ Settled' = Settled
    BY <1>1, SoundStutters DEF CarefulInv
<1>3. (\E dirs : /\ Tidy(Settled, dirs)
                 /\ \A s \in Shells : ShellFits(Settled, dirs, dir_stack[s], cmd[s]))'
    BY <1>1, <1>2 DEF CarefulInv
<1> QED
    BY <1>1, <1>2, <1>3 DEF CarefulInv

\* The formatted disk is tidy, and every shell in its root.
LEMMA ShellInitFits == ShellInit => CarefulInv
<1> SUFFICES ASSUME ShellInit PROVE CarefulInv
    OBVIOUS
<1> DEFINE new == Settled
           root == init_directory_table(RootName, ROOT_CLUSTER_NUMBER, BlankEntry)
           dirs == {ROOT_CLUSTER_NUMBER}
<1>1. ShellInv /\ Init /\ dir_stack = [s \in Shells |-> <<RootEntry>>]
      /\ cmd = [s \in Shells |-> Prompt]
    BY ShellInitKeeps DEF ShellInit
<1>2. SoundFor(Texts) /\ Formatted(Settled)
    BY <1>1, InitIsSound
<1>3. /\ new \in [Cluster -> Content] /\ Good(Texts, new, dirs)
      /\ \A j \in Index : Slot(new, ROOT_CLUSTER_NUMBER, j) = root[j]
    BY <1>2 DEF Formatted, HasTable
<1>4. /\ root[0].folder /\ root[0].cluster = ROOT_CLUSTER_NUMBER
      /\ root[1].cluster = ROOT_CLUSTER_NUMBER
      /\ \A j \in ChildIndex : ~root[j].live /\ ~root[j].folder
    <2>1. /\ root[0].folder /\ root[0].cluster = ROOT_CLUSTER_NUMBER
          /\ root[1].cluster = ROOT_CLUSTER_NUMBER
          /\ \A j \in ChildIndex : root[j] = BlankEntry
        BY NewTableHolds
    <2> HIDE DEF root
    <2> QED
        BY <2>1 DEF BlankEntry
<1> HIDE DEF new, root
<1>5. \A j \in ChildIndex : /\ ~Slot(new, ROOT_CLUSTER_NUMBER, j).live
                            /\ ~Slot(new, ROOT_CLUSTER_NUMBER, j).folder
    BY <1>3, <1>4, Constants
<1>6. NamedRoot(new)
    BY <1>3, <1>4, Constants DEF NamedRoot
<1>7. Named(new, dirs) /\ Unhidden(new, dirs)
    BY <1>5, <1>6 DEF Named, NamedSlot, Unhidden, FolderAt, FileAt
<1>8. Tidy(new, dirs)
    BY <1>3, <1>7 DEF Tidy
<1>9. \A s \in Shells : ShellFits(new, dirs, dir_stack[s], cmd[s])
    <2>1. StackFits(new, dirs, <<RootEntry>>)
        <3>1. Len(<<RootEntry>>) = 1 /\ <<RootEntry>>[1] = RootEntry
              /\ RootEntry.cluster = ROOT_CLUSTER_NUMBER
            BY DEF RootEntry
        <3>2. (\A k \in 1 .. 1 : k = 1) /\ \A k : k \notin 2 .. 1
            OBVIOUS
        <3> QED
            BY <3>1, <3>2 DEF StackFits
    <2> QED
        BY <1>1, <2>1 DEF ShellFits
<1>10. \E some : /\ Tidy(Settled, some)
                 /\ \A s \in Shells : ShellFits(Settled, some, dir_stack[s], cmd[s])
    BY <1>8, <1>9 DEF new
<1> QED
    BY <1>1, <1>2, <1>10 DEF CarefulInv

LEMMA ShellStepFits ==
    CarefulUsers /\ CarefulInv /\ [ShellNext]_shellVars => CarefulInv'
<1> SUFFICES ASSUME CarefulUsers, CarefulInv, [ShellNext]_shellVars PROVE CarefulInv'
    OBVIOUS
<1>1. CASE Install
    BY <1>1, InstallFits
<1>2. CASE Disk
    BY <1>2, DiskFits
<1>3. ASSUME NEW s \in Shells, Enter(s) PROVE CarefulInv'
    BY <1>3, EnterFits
<1>4. ASSUME NEW s \in Shells, Step(s) PROVE CarefulInv'
    BY <1>4, LookUpFits, EnterDirectoryFits, MakeDirectoryFits, MadeDirectoryFits,
       ShowSourceFits, ReadSourceFits, WriteTargetFits, DeleteFoundFits,
       MoveFoundFits DEF Step
<1>5. CASE UNCHANGED shellVars
    BY <1>5, NothingHappensFits
<1> QED
    BY <1>1, <1>2, <1>3, <1>4, <1>5 DEF ShellNext

-----------------------------------------------------------------------------
(* What careful users can rely on *)

\* The invariant holds in every state that the calls of careful users' shells, in
\* whatever order they come, and the disk behind them can reach.
THEOREM CarefulInductive ==
    ASSUME CarefulUsers
    PROVE  ShellSpec => []CarefulInv
<1>1. CarefulInv /\ [ShellNext]_shellVars => CarefulInv'
    BY ShellStepFits
<1> QED
    BY <1>1, ShellInitFits, PTL DEF ShellSpec

\* Wherever cd has led the shell of a user who never goes deeper than its stack can
\* count, and whatever its commands have made, moved or removed since: the stack
\* begins with the root, and each folder on it is a live entry of the one before, so
\* that no prompt shows a directory that is gone.
THEOREM WorkingDirectoriesStay ==
    ASSUME CarefulUsers
    PROVE  ShellSpec => []WorkingDirectoriesExist
<1>1. CarefulInv => WorkingDirectoriesExist
    <2> SUFFICES ASSUME CarefulInv, Idle PROVE WorkingDirectoriesExist
        BY DEF WorkingDirectoriesExist
    <2>1. ASSUME NEW s \in Shells
          PROVE  StackFits(disk, Directories, dir_stack[s])
        BY IdleIsTidy DEF ShellFits
    <2>2. ASSUME NEW s \in Shells, NEW k \in 2 .. Len(dir_stack[s])
          PROVE  \E i \in ChildFolders(TableAt(dir_stack[s][k - 1].cluster),
                                       dir_stack[s][k].name) :
                    TableAt(dir_stack[s][k - 1].cluster)[i].cluster = dir_stack[s][k].cluster
        <3>1. PICK i \in FoldersOf(disk, dir_stack[s][k - 1].cluster, dir_stack[s][k].name) :
                  Slot(disk, dir_stack[s][k - 1].cluster, i).cluster = dir_stack[s][k].cluster
            BY <2>1 DEF StackFits
        <3>2. i \in ChildFolders(TableAt(dir_stack[s][k - 1].cluster), dir_stack[s][k].name)
            BY <3>1, FoldersAre
        <3> QED
            BY <3>1, <3>2 DEF Slot, TableAt
    <2>3. \A s \in Shells : dir_stack[s] # <<>> /\ dir_stack[s][1] = RootEntry
        BY <2>1 DEF StackFits
    <2> QED
        BY <2>2, <2>3 DEF WorkingDirectoriesExist
<1> QED
    BY <1>1, CarefulInductive, PTL

\* For such a user, cd finds its directory's table by the name of the folder in its
\* parent, ls by the folder's cluster: both look at the same entries, so that cd
\* enters exactly the folders that ls has just listed.
THEOREM CdAndLsAgree ==
    ASSUME CarefulUsers
    PROVE  ShellSpec => []CdSearchesWhatLsLists
<1>1. CarefulInv => CdSearchesWhatLsLists
    <2> SUFFICES ASSUME CarefulInv, Idle, NEW s \in Shells, NEW table \in Searched(dir_stack[s])
                 PROVE  [i \in Shown(table) |-> table[i]] = handle_ls(s)
        BY DEF CdSearchesWhatLsLists
    <2>1. /\ disk \in [Cluster -> Content] /\ Tidy(disk, Directories)
          /\ StackFits(disk, Directories, dir_stack[s])
        BY IdleIsTidy DEF ShellFits
    <2>2. dir_stack[s] \in Stacks
        BY DEF CarefulInv, ShellInv
    <2>3. table = TableAt(current_parent_cluster(dir_stack[s]))
        BY <2>1, <2>2, SearchedIsHere
    <2> QED
        BY <2>3 DEF handle_ls
<1> QED
    BY <1>1, CarefulInductive, PTL

\* However the calls of several shells are interleaved, those of a cp, which reads
\* a file with larger and larger buffers and then writes what it has, with another
\* shell's writes, moves and deletions of that file: each file on the disk has the
\* blocks of one single write, and behind them at most the rest of a buffer.
THEOREM CopiesAreOfOneVersion ==
    ASSUME CarefulUsers
    PROVE  ShellSpec => []CopiesOneVersion
<1>1. CarefulInv => CopiesOneVersion
    <2> SUFFICES ASSUME CarefulInv, Idle, NEW p \in Places, ~TableAt(p[1])[p[2]].folder
                 PROVE  LET entry == TableAt(p[1])[p[2]]
                            block == [j \in 1 .. ClustersFor(entry.filesize) |->
                                         BlockOn(disk, cluster_map, entry.cluster, j)]
                        IN  \E tag \in Tags, n \in DOMAIN block : \A j \in DOMAIN block :
                                block[j] = IF j <= n THEN Data(tag, j) ELSE Blank
        BY DEF CopiesOneVersion
    <2> DEFINE entry == TableAt(p[1])[p[2]]
               m == ClustersFor(entry.filesize)
               hop == Hop(cluster_map, entry.cluster)
               block == [j \in 1 .. m |-> BlockOn(disk, cluster_map, entry.cluster, j)]
    <2>1. /\ disk \in [Cluster -> Content] /\ Good(Texts, disk, Directories)
          /\ cluster_map = MapOn(disk)
        BY IdleIsGood DEF CarefulInv
    <2>2. /\ p[1] \in Directories /\ p[2] \in ChildIndex
          /\ entry = Slot(disk, p[1], p[2]) /\ FileAt(disk, p[1], p[2])
        BY DEF Places, FileAt, Slot, TableAt
    <2>3. entry \in SafeEntry /\ IsFile(Texts, disk, cluster_map, Directories, entry)
        BY <2>1, <2>2, FilesAre
    <2>4. entry.filesize \in FileSizes
        BY <2>3 DEF IsFile
    <2>5. m \in Nat \ {0} /\ m \in 1 .. ClusterAmount(entry.filesize)
          /\ ClusterAmount(entry.filesize) \in Nat
        BY <2>4, BlocksFit
    <2>6. PICK text \in Texts : \A j \in 1 .. m : disk[hop[j - 1]] = text[j]
        BY <2>3 DEF IsFile
    <2>7. PICK tag \in Tags, k \in 1 .. m :
              \A j \in 1 .. m : text[j] = IF j <= k THEN Data(tag, j) ELSE Blank
        <3>1. CASE text \in WholeTexts
            <4>1. PICK tag \in Tags : \A count \in Nat : \A j \in 1 .. count : text[j] = Data(tag, j)
                BY <3>1, WholeTextIs
            <4>2. m \in 1 .. m /\ \A j \in 1 .. m : j <= m
                BY <2>5
            <4>3. \A j \in 1 .. m : text[j] = Data(tag, j)
                BY <2>5, <4>1
            <4> HIDE DEF m
            <4> QED
                BY <4>2, <4>3
        <3>2. CASE text \in PaddedTexts
            <4>1. PICK tag \in Tags, n \in Nat \ {0} :
                      text = [j \in Nat \ {0} |-> IF j <= n THEN Data(tag, j) ELSE Blank]
                BY <3>2, PaddedTextIs
            <4> DEFINE k == IF n <= m THEN n ELSE m
            <4> HIDE DEF m
            <4>2. k \in 1 .. m /\ \A j \in 1 .. m : j \in Nat \ {0} /\ (j <= n <=> j <= k)
                BY <2>5
            <4> HIDE DEF k
            <4>3. \A j \in 1 .. m : text[j] = IF j <= k THEN Data(tag, j) ELSE Blank
                BY <4>1, <4>2
            <4> QED
                BY <4>2, <4>3
        <3> QED
            BY <2>6, <3>1, <3>2 DEF Texts
    <2>8. \A j \in 1 .. m : block[j] = text[j]
        <3> TAKE j \in 1 .. m
        <3>1. block[j] = IF hop[j - 1] \in Cluster THEN disk[hop[j - 1]] ELSE Blank
            BY DEF BlockOn
        <3>2. j - 1 \in 0 .. (ClusterAmount(entry.filesize) - 1)
            <4> HIDE DEF entry
            <4> QED
                BY <2>5
        <3>3. hop[j - 1] \in DataCluster
            BY <2>3, <3>2 DEF IsFile, WellLinked
        <3>4. hop[j - 1] \in Cluster
            BY <3>3, Constants
        <3> QED
            BY <2>6, <3>1, <3>4
    <2>9. DOMAIN block = 1 .. m
        OBVIOUS
    <2> HIDE DEF m, entry
    <2>10. \A j \in DOMAIN block : block[j] = IF j <= k THEN Data(tag, j) ELSE Blank
        <3> HIDE DEF block
        <3> QED
            BY <2>7, <2>8, <2>9
    <2> HIDE DEF block
    <2>11. \E n \in DOMAIN block : \A j \in DOMAIN block :
                block[j] = IF j <= n THEN Data(tag, j) ELSE Blank
        BY <2>7, <2>9, <2>10
    <2> QED
        BY <2>11 DEF block, m, entry
<1> QED
    BY <1>1, CarefulInductive, PTL

\* Between any two calls of careful users' shells, mkdir and rm of a folder
\* included, each chain of the allocation table ends and has its clusters to itself.
THEOREM ShellsNeverCrossLink ==
    ASSUME CarefulUsers
    PROVE  ShellSpec => []NoCrossLink
<1>1. CarefulInv => NoCrossLink
    <2> SUFFICES ASSUME CarefulInv, Idle PROVE Sound
        BY DEF NoCrossLink
    <2>1. disk \in [Cluster -> Content] /\ Good(Texts, disk, Directories)
        BY IdleIsGood DEF CarefulInv
    <2> QED
        BY <2>1, GoodIsSound
<1> QED
    BY <1>1, CarefulInductive, PTL

\* In a single shell each file keeps the text of one single write, whole and in
\* order, through every sequence of cd, mkdir, rm, cp, mv and echo, and at every
\* moment of a call that writes or moves: a cp copies the whole text, and no path
\* that a command follows leads it to write over another file's clusters.
THEOREM ShellKeepsFiles ==
    ASSUME CarefulUsers, OneShell
    PROVE  ShellSpec => []FileIntact
<1>1. CarefulInv => FileIntact
    <2> SUFFICES ASSUME CarefulInv PROVE FileIntact
        OBVIOUS
    <2>1. CASE call \in {"none", "write", "move"}
        <3>1. PICK dirs : disk \in [Cluster -> Content] /\ Good(WholeTexts, disk, dirs)
            BY <2>1, DiskIsGood DEF CarefulInv, Texts
        <3> QED
            BY <3>1, GoodIsIntact
    <2>2. CASE call \notin {"none", "write", "move"}
        BY <2>2 DEF FileIntact
    <2> QED
        BY <2>1, <2>2
<1> QED
    BY <1>1, CarefulInductive, PTL

-----------------------------------------------------------------------------
(* The paths that find prints *)

\* A path that begins with the folder it first leads to.
LEMMA PathExtends ==
    ASSUME disk \in [Cluster -> Content], NEW dir \in Cluster, NEW next \in Cluster,
           NEW T, NEW c \in T, NEW path \in Seq(T), Led(disk, dir, c) = {next}
    PROVE  FollowedFrom(dir, <<c>> \o path) = FollowedFrom(next, path)
<1> DEFINE long == <<c>> \o path
           N == Len(path)
           from == Walk(dir, long)
           at == Walk(next, path)
           S == {n \in 0 .. N : from[n + 1] = at[n]}
<1>1. /\ N \in Nat /\ Len(long) = N + 1 /\ long[1] = c
      /\ \A i \in 1 .. N : long[i + 1] = path[i]
    OBVIOUS
<1> HIDE DEF long, N
<1>2. /\ FollowedFrom(dir, long) = from[N + 1] /\ from[0] = {dir}
      /\ \A n \in 1 .. (N + 1) : from[n] = AllLed(disk, from[n - 1], long[n])
    <2>1. disk \in [Cluster -> Content] /\ dir \in Cluster /\ Len(long) \in Nat
        BY <1>1
    <2>2. /\ FollowedFrom(dir, long) = from[Len(long)] /\ from[0] = {dir}
          /\ \A n \in 1 .. Len(long) : from[n] = AllLed(disk, from[n - 1], long[n])
        BY ONLY <2>1, WalkDefined
    <2> HIDE DEF from
    <2> QED
        BY <1>1, <2>2
<1>3. /\ FollowedFrom(next, path) = at[N] /\ at[0] = {next}
      /\ \A n \in 1 .. N : at[n] = AllLed(disk, at[n - 1], path[n])
    <2>1. disk \in [Cluster -> Content] /\ next \in Cluster /\ Len(path) \in Nat
        BY <1>1 DEF N
    <2>2. /\ FollowedFrom(next, path) = at[Len(path)] /\ at[0] = {next}
          /\ \A n \in 1 .. Len(path) : at[n] = AllLed(disk, at[n - 1], path[n])
        BY ONLY <2>1, WalkDefined
    <2> QED
        BY <2>2 DEF N
<1> HIDE DEF from, at
<1>4. from[1] = {next}
    <2>1. 1 \in 1 .. (N + 1) /\ 1 - 1 = 0
        BY <1>1
    <2>2. AllLed(disk, {dir}, c) = Led(disk, dir, c)
        BY DEF AllLed
    <2> QED
        BY <1>1, <1>2, <2>1, <2>2
<1>5. 0 \in S
    <2>1. 0 \in 0 .. N /\ 0 + 1 = 1
        BY <1>1
    <2>2. from[0 + 1] = at[0]
        BY <1>3, <1>4, <2>1
    <2> QED
        BY <2>1, <2>2
<1>6. ASSUME NEW n \in 0 .. (N - 1), n \in S PROVE n + 1 \in S
    <2>1. /\ n + 1 \in 1 .. N /\ n + 2 \in 1 .. (N + 1) /\ n + 1 - 1 = n /\ n + 2 - 1 = n + 1
          /\ n + 1 + 1 = n + 2 /\ n + 1 \in 0 .. N
        BY <1>1
    <2>2. from[n + 2] = AllLed(disk, from[n + 1], long[n + 2])
        BY <1>2, <2>1
    <2>3. at[n + 1] = AllLed(disk, at[n], path[n + 1])
        BY <1>3, <2>1
    <2>4. long[n + 2] = path[n + 1]
        BY <1>1, <2>1
    <2>5. from[n + 2] = at[n + 1]
        BY <1>6, <2>2, <2>3, <2>4
    <2> QED
        BY <2>1, <2>5
<1>7. \A n \in 0 .. N : n \in S
    <2> HIDE DEF S
    <2> QED
        BY <1>1, <1>5, <1>6, BoundedInduction
<1>8. N \in 0 .. N
    BY <1>1
<1>9. from[N + 1] = at[N]
    BY <1>7, <1>8
<1> QED
    BY <1>2, <1>3, <1>9 DEF long

\* One step of find on its way up, and the steps it takes.
Above(below) ==
    IF below.dir = ROOT_CLUSTER_NUMBER THEN below
    ELSE [dir |-> TableAt(below.dir)[1].cluster,
          names |-> <<Folder(TableAt(below.dir)[0].name)>> \o below.names]

ClimbOf(up, start) ==
    up = [n \in 0 .. CLUSTER_MAP_SIZE |->
            IF n = 0 THEN [dir |-> start, names |-> <<>>]
            ELSE LET below == up[n - 1]
                 IN  IF below.dir = ROOT_CLUSTER_NUMBER THEN below
                     ELSE [dir |-> TableAt(below.dir)[1].cluster,
                           names |-> <<Folder(TableAt(below.dir)[0].name)>> \o below.names]]

Climb(start) == CHOOSE up : ClimbOf(up, start)

TableNames == {Folder(Slot(disk, d, 0).name) : d \in Cluster}

LEMMA NamesAboveDefined ==
    ASSUME disk \in [Cluster -> Content], NEW start \in Cluster
    PROVE  LET up == Climb(start)
           IN  /\ NamesAbove(start) = up[CLUSTER_MAP_SIZE].names
               /\ up[0] = [dir |-> start, names |-> <<>>]
               /\ \A n \in 0 .. CLUSTER_MAP_SIZE : up[n].names \in Seq(TableNames)
               /\ \A n \in 0 .. (CLUSTER_MAP_SIZE - 1) : up[n + 1] = Above(up[n])
<1> DEFINE X == [dir : Cluster, names : Seq(TableNames)]
           next == [x \in X |-> Above(x)]
           N == CLUSTER_MAP_SIZE
           first == [dir |-> start, names |-> <<>>]
           up == Climb(start)
           e(f, n) == IF n = 0 THEN first ELSE Above(f[n - 1])
<1>1. N \in Nat
    BY Marks
<1>2. first \in X
    BY EmptySeq
<1>3. ASSUME NEW x \in X PROVE Above(x) \in X
    <2>1. CASE x.dir = ROOT_CLUSTER_NUMBER
        BY <2>1 DEF Above
    <2>2. CASE x.dir # ROOT_CLUSTER_NUMBER
        <3>1. TableAt(x.dir)[1].cluster \in Cluster
            <4>1. Slot(disk, x.dir, 1) \in SafeEntry
                BY SlotIsEntry, Constants
            <4> QED
                BY <4>1 DEF SafeEntry, Entry, Slot, TableAt
        <3>2. Folder(TableAt(x.dir)[0].name) \in TableNames
            BY DEF TableNames, Slot, TableAt
        <3>3. \A T : \A c \in T, q \in Seq(T) : <<c>> \o q \in Seq(T)
            OBVIOUS
        <3>4. <<Folder(TableAt(x.dir)[0].name)>> \o x.names \in Seq(TableNames)
            BY <3>2, <3>3, Zenon
        <3> QED
            BY <2>2, <3>1, <3>4 DEF Above
    <2> QED
        BY <2>1, <2>2
<1>4. next \in [X -> X]
    BY <1>3
<1>5. \A f : ClimbOf(f, start) <=> f = [n \in 0 .. N |-> e(f, n)]
    BY Zenon DEF ClimbOf, Above
<1>6. PICK g : Iterates(g, next, first, N)
    <2> HIDE DEF X, next, first, N
    <2> QED
        BY <1>1, <1>2, <1>4, IterationExists
<1>7. g \in [0 .. N -> X] /\ g[0] = first /\ \A n \in 1 .. N : g[n] = next[g[n - 1]]
    <2> HIDE DEF X, next, first, N
    <2> QED
        BY <1>1, <1>2, <1>4, <1>6, IterationObeys
<1>8. ClimbOf(g, start)
    <2>1. \A n \in 0 .. N : g[n] = e(g, n)
        <3> TAKE n \in 0 .. N
        <3>1. CASE n = 0
            BY <1>7, <3>1
        <3>2. CASE n # 0
            <4>1. n \in 1 .. N /\ n - 1 \in 0 .. N
                BY <1>1, <3>2
            <4>2. g[n - 1] \in X
                BY <1>7, <4>1
            <4> HIDE DEF X, first
            <4> QED
                BY <1>7, <3>2, <4>1, <4>2
        <3> QED
            BY <3>1, <3>2
    <2>2. g = [n \in 0 .. N |-> g[n]]
        BY <1>7
    <2> HIDE DEF e
    <2>3. [n \in 0 .. N |-> g[n]] = [n \in 0 .. N |-> e(g, n)]
        BY <2>1, Zenon
    <2> QED
        BY <1>5, <2>2, <2>3, Zenon
<1>9. ClimbOf(up, start)
    BY <1>8 DEF Climb
<1>10. NamesAbove(start) = up[N].names
    BY Zenon DEF NamesAbove, Climb, ClimbOf
<1>11. \A n \in 0 .. N : up[n] = e(up, n)
    <2>1. up = [n \in 0 .. N |-> e(up, n)]
        BY <1>5, <1>9
    <2> HIDE DEF e, up
    <2> QED
        BY <2>1
<1> HIDE DEF up, X
<1>12. up[0] = first
    BY <1>1, <1>11
<1>13. ASSUME NEW n \in 0 .. (N - 1) PROVE up[n + 1] = Above(up[n])
    <2>1. n + 1 \in 0 .. N /\ n + 1 # 0 /\ n + 1 - 1 = n
        BY <1>1
    <2>2. up[n + 1] = e(up, n + 1)
        BY <1>11, <2>1
    <2> QED
        BY <2>1, <2>2
<1> DEFINE S == {n \in 0 .. N : up[n] \in X}
<1>14. \A n \in 0 .. N : n \in S
    <2> HIDE DEF e, first, N
    <2>1. 0 \in S
        BY <1>1, <1>2, <1>12
    <2>2. ASSUME NEW n \in 0 .. (N - 1), n \in S PROVE n + 1 \in S
        <3>1. n + 1 \in 0 .. N
            BY <1>1
        <3> QED
            BY <1>3, <1>13, <2>2, <3>1
    <2> HIDE DEF S
    <2> QED
        BY <1>1, <2>1, <2>2, BoundedInduction
<1>15. \A n \in 0 .. N : up[n].names \in Seq(TableNames)
    BY <1>14 DEF X
<1> QED
    BY <1>10, <1>12, <1>13, <1>15 DEF up

\* A directory's own entries name it and tell where it is.
LEMMA ParentLeadsHere ==
    ASSUME NEW contents, NEW dirs, Tidy(contents, dirs), CarefulUsers, OneShell,
           NEW d \in dirs, d # ROOT_CLUSTER_NUMBER
    PROVE  LET parent == Slot(contents, d, 1).cluster
           IN  /\ parent \in dirs
               /\ Led(contents, parent, Folder(Slot(contents, d, 0).name)) = {d}
<1> DEFINE component == Folder(Slot(contents, d, 0).name)
<1>1. PICK b \in dirs, j \in ChildIndex :
          FolderAt(contents, b, j) /\ Slot(contents, b, j).cluster = d
    BY DEF Tidy, Good, Tree
<1>2. /\ Slot(contents, b, j).name \in FolderNames
      /\ Slot(contents, d, 0).name = Slot(contents, b, j).name
      /\ Slot(contents, d, 1).cluster = b
    BY <1>1, ChildrenAre DEF NamedSlot
<1>3. component # Up /\ component.name = Slot(contents, b, j).name
    <2>1. component.name # Up.name
        BY <1>2, NamesApart DEF Folder, Up
    <2> QED
        BY <1>2, <2>1 DEF Folder
<1>4. d \in Led(contents, b, component)
    BY <1>1, <1>3 DEF Led, FoldersOf
<1> HIDE DEF component
<1>5. \A x \in Led(contents, b, component) : x = d
    BY <1>4, LedIsOne
<1> QED
    BY <1>2, <1>4, <1>5 DEF component

\* A directory other than the root that find reaches in n steps has a parent that
\* it reaches in n - 1.
LEMMA ParentIsCloser ==
    ASSUME NEW contents \in [Cluster -> Content], NEW dirs, Tidy(contents, dirs)
    PROVE  LET level == Level(contents, ROOT_CLUSTER_NUMBER)
           IN  \A n \in 0 .. CLUSTER_MAP_SIZE :
                  /\ level[n] \subseteq dirs
                  /\ \A d \in level[n] : d # ROOT_CLUSTER_NUMBER =>
                        n # 0 /\ Slot(contents, d, 1).cluster \in level[n - 1]
<1> DEFINE level == Level(contents, ROOT_CLUSTER_NUMBER)
           N == CLUSTER_MAP_SIZE
           Closer(n) == \A d \in level[n] : d # ROOT_CLUSTER_NUMBER =>
                            n # 0 /\ Slot(contents, d, 1).cluster \in level[n - 1]
           S == {n \in 0 .. N : level[n] \subseteq dirs /\ Closer(n)}
<1>1. N \in Nat /\ ROOT_CLUSTER_NUMBER \in Cluster /\ ROOT_CLUSTER_NUMBER \in dirs
    BY Marks, Constants DEF Tidy, Good, Tree
<1>2. /\ level[0] = {ROOT_CLUSTER_NUMBER}
      /\ \A n \in 0 .. (N - 1) : level[n + 1] = WithSubfolders(contents, level[n])
    BY <1>1, LevelsDefined
<1> HIDE DEF level, N
<1>3. 0 \in S
    BY <1>1, <1>2
<1>4. ASSUME NEW n \in 0 .. (N - 1), n \in S PROVE n + 1 \in S
    <2>1. n + 1 \in 0 .. N /\ n + 1 # 0 /\ n + 1 - 1 = n /\ n \in Nat
        BY <1>1
    <2>2. level[n] \subseteq dirs /\ Closer(n)
        BY <1>4
    <2>3. ASSUME NEW d \in level[n + 1], d \notin level[n]
          PROVE  d \in dirs /\ Slot(contents, d, 1).cluster \in level[n]
        <3>1. d \in WithSubfolders(contents, level[n])
            BY <1>2, <2>3
        <3>2. PICK b \in level[n], j \in ChildIndex :
                  FolderAt(contents, b, j) /\ Slot(contents, b, j).cluster = d
            BY <2>3, <3>1, SubfolderIs
        <3>3. b \in dirs
            BY <2>2
        <3> QED
            BY <3>2, <3>3, ChildrenAre DEF NamedSlot
    <2>4. ASSUME NEW d \in level[n], d # ROOT_CLUSTER_NUMBER
          PROVE  Slot(contents, d, 1).cluster \in level[n]
        <3>1. n # 0 /\ Slot(contents, d, 1).cluster \in level[n - 1]
            BY <2>2, <2>4
        <3>2. n - 1 \in 0 .. (N - 1) /\ n - 1 + 1 = n
            BY <1>1, <2>1, <3>1
        <3>3. level[n] = WithSubfolders(contents, level[n - 1])
            BY <1>2, <3>2
        <3> QED
            BY <3>1, <3>3, SubfoldersKeep
    <2>5. level[n + 1] \subseteq dirs
        BY <2>2, <2>3
    <2>6. Closer(n + 1)
        BY <2>1, <2>3, <2>4
    <2> HIDE DEF Closer
    <2> QED
        BY <2>1, <2>5, <2>6
<1>5. \A n \in 0 .. N : n \in S
    <2> HIDE DEF S
    <2> QED
        BY <1>1, <1>3, <1>4, BoundedInduction
<1> QED
    BY <1>5 DEF level, N

\* At the end of its way up find is in the root, and has come past the names of the
\* path to where it began.
LEMMA PathsLeadBack ==
    ASSUME CarefulUsers, OneShell, disk \in [Cluster -> Content], Tidy(disk, Directories),
           NEW d \in Directories
    PROVE  FollowedFrom(ROOT_CLUSTER_NUMBER, NamesAbove(d)) = {d}
<1> DEFINE N == CLUSTER_MAP_SIZE
           up == Climb(d)
           level == Level(disk, ROOT_CLUSTER_NUMBER)
           Reached(n) == up[n].dir = ROOT_CLUSTER_NUMBER \/ up[n].dir \in level[N - n]
           Leads(n) == FollowedFrom(up[n].dir, up[n].names) = {d}
           S == {n \in 0 .. N : up[n].dir \in Directories /\ Reached(n) /\ Leads(n)}
<1>1. N \in Nat /\ d \in Cluster /\ ROOT_CLUSTER_NUMBER \in Cluster /\ Directories \subseteq Cluster
    BY Marks, Constants DEF Tidy, Good, Tree
<1>2. /\ NamesAbove(d) = up[N].names /\ up[0] = [dir |-> d, names |-> <<>>]
      /\ \A n \in 0 .. N : up[n].names \in Seq(TableNames)
      /\ \A n \in 0 .. (N - 1) : up[n + 1] = Above(up[n])
    BY <1>1, NamesAboveDefined
<1>3. level[0] = {ROOT_CLUSTER_NUMBER} /\ level[N] = Directories
    <2>1. level[0] = {ROOT_CLUSTER_NUMBER} /\ DirectoriesBelow(disk, ROOT_CLUSTER_NUMBER) = level[N]
        BY <1>1, LevelsDefined
    <2>2. DirectoriesBelow(disk, ROOT_CLUSTER_NUMBER) = Directories
        BY DirectoriesAreAll DEF Tidy, Good
    <2> QED
        BY <2>1, <2>2
<1>4. \A n \in 0 .. N : \A x \in level[n] : x # ROOT_CLUSTER_NUMBER =>
          n # 0 /\ Slot(disk, x, 1).cluster \in level[n - 1]
    BY ParentIsCloser
<1> HIDE DEF up, level, N
<1>5. 0 \in S
    <2>1. 0 \in 0 .. N /\ N - 0 = N
        BY <1>1
    <2>2. up[0].dir = d /\ up[0].names = <<>>
        BY <1>2
    <2>3. FollowedFrom(d, <<>>) = {d}
        BY <1>1, ShortPaths
    <2> QED
        BY <1>3, <2>1, <2>2, <2>3
<1>6. ASSUME NEW n \in 0 .. (N - 1), n \in S PROVE n + 1 \in S
    <2> DEFINE x == up[n].dir
               names == up[n].names
               parent == Slot(disk, x, 1).cluster
               component == Folder(Slot(disk, x, 0).name)
    <2>1. /\ n \in 0 .. N /\ n + 1 \in 0 .. N /\ N - n \in 0 .. N /\ N - n - 1 = N - (n + 1)
        BY <1>1
    <2>2. x \in Directories /\ Reached(n) /\ Leads(n) /\ names \in Seq(TableNames)
        BY <1>2, <1>6, <2>1
    <2>3. up[n + 1] = Above(up[n])
        BY <1>2
    <2>4. CASE x = ROOT_CLUSTER_NUMBER
        <3>1. up[n + 1] = up[n]
            BY <2>3, <2>4 DEF Above
        <3> QED
            BY <2>1, <2>2, <2>4, <3>1
    <2>5. CASE x # ROOT_CLUSTER_NUMBER
        <3>1. up[n + 1] = [dir |-> parent, names |-> <<component>> \o names]
            BY <2>3, <2>5 DEF Above, Slot, TableAt
        <3>2. parent \in Directories /\ Led(disk, parent, component) = {x}
            BY <2>2, <2>5, ParentLeadsHere
        <3>3. parent \in level[N - (n + 1)]
            BY <1>4, <2>1, <2>2, <2>5
        <3>4. component \in TableNames /\ parent \in Cluster /\ x \in Cluster
            BY <1>1, <2>2, <3>2 DEF TableNames
        <3> HIDE DEF x, names, parent, component
        <3>5. FollowedFrom(parent, <<component>> \o names) = FollowedFrom(x, names)
            BY <2>2, <3>2, <3>4, PathExtends
        <3>6. FollowedFrom(x, names) = {d}
            BY <2>2 DEF x, names
        <3>7. up[n + 1].dir = parent /\ up[n + 1].names = <<component>> \o names
            BY <3>1
        <3>8. Leads(n + 1)
            BY <3>5, <3>6, <3>7
        <3>9. Reached(n + 1) /\ up[n + 1].dir \in Directories
            BY <3>2, <3>3, <3>7
        <3> HIDE DEF Leads, Reached
        <3> QED
            BY <2>1, <3>8, <3>9
    <2> QED
        BY <2>4, <2>5
<1>7. \A n \in 0 .. N : n \in S
    <2> HIDE DEF S
    <2> QED
        BY <1>1, <1>5, <1>6, BoundedInduction
<1>8. N \in 0 .. N /\ N - N = 0
    BY <1>1
<1>9. up[N].dir = ROOT_CLUSTER_NUMBER /\ FollowedFrom(up[N].dir, up[N].names) = {d}
    BY <1>3, <1>7, <1>8
<1> QED
    BY <1>2, <1>9

\* find, which is told no place to begin, looks up a folder called root inside the
\* root and begins there all the same; and the path that it prints for what is in a
\* directory leads from the root there and nowhere else.  This is so for paths of up
\* to MAX_DIR_LENGTH - 2 names; for more, the stack find makes them on wraps, and it
\* prints only their beginning.
THEOREM FindTellsTheWay ==
    ASSUME CarefulUsers, OneShell
    PROVE  ShellSpec => []FindPrintsPaths
<1>1. CarefulInv => FindPrintsPaths
    <2> SUFFICES ASSUME CarefulInv, Idle
                 PROVE  /\ FindBegins = {TableAt(ROOT_CLUSTER_NUMBER)}
                        /\ \A d \in FindVisits : Len(NamesAbove(d)) + 2 <= MAX_DIR_LENGTH =>
                              FollowedFrom(ROOT_CLUSTER_NUMBER, PathUp(d)) = {d}
        BY DEF FindPrintsPaths
    <2>1. disk \in [Cluster -> Content] /\ Tidy(disk, Directories)
        BY IdleIsTidy
    <2>2. \A d \in FindVisits : Len(NamesAbove(d)) + 2 <= MAX_DIR_LENGTH =>
              FollowedFrom(ROOT_CLUSTER_NUMBER, PathUp(d)) = {d}
        <3>1. FindVisits = Directories
            BY <2>1, DirectoriesAreAll DEF Tidy, Good, FindVisits
        <3>2. \A d \in FindVisits : FollowedFrom(ROOT_CLUSTER_NUMBER, NamesAbove(d)) = {d}
            BY <2>1, <3>1, PathsLeadBack
        <3> QED
            BY <3>2 DEF PathUp
    <2>3. FindBegins = {TableAt(ROOT_CLUSTER_NUMBER)}
        <3> DEFINE named == FolderNamed(ROOT_CLUSTER_NUMBER, RootName)
                   first == FirstIndex(named)
        <3>1. /\ TableAt(ROOT_CLUSTER_NUMBER)[0].name = RootName
              /\ TableAt(ROOT_CLUSTER_NUMBER)[0].folder
              /\ TableAt(ROOT_CLUSTER_NUMBER)[0].cluster = ROOT_CLUSTER_NUMBER
            BY <2>1 DEF Tidy, Named, NamedRoot, Good, Tree, Slot, TableAt
        <3>2. 0 \in named /\ named \in SUBSET Nat
            BY <3>1, Constants DEF FolderNamed
        <3>3. first \in Nat /\ first <= 0
            <4> HIDE DEF named
            <4> QED
                BY <3>2, FirstIsMember
        <3>4. first = 0
            BY <3>3
        <3> HIDE DEF named, first
        <3>5. read_directory(ROOT_CLUSTER_NUMBER, RootName) =
                  {TableAt(TableAt(ROOT_CLUSTER_NUMBER)[first].cluster)}
            BY <3>2 DEF read_directory, named, first
        <3> QED
            BY <3>1, <3>4, <3>5 DEF FindBegins
    <2> QED
        BY <2>2, <2>3
<1> QED
    BY <1>1, CarefulInductive, PTL

=============================================================================
