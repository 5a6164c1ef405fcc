------------------------------- MODULE FAT32 --------------------------------
(***************************************************************************)
(* The file system driver of src/src/filesystem/fat32.c on a disk that     *)
(* writes one cluster at a time.  A call reads the directory table it is   *)
(* given, decides, updates the allocation table it keeps in memory and     *)
(* issues its cluster writes in order; calls run with interrupts masked,   *)
(* so none overlaps another, but the machine may stop between any two      *)
(* cluster writes and start again from what the disk holds.                *)
(*                                                                         *)
(* A file's contents are abstracted to a tag per write and the position of *)
(* each block in it.  OPERATIONS says what the clients of a run do: the    *)
(* driver is the same in all of them.                                      *)
(***************************************************************************)
EXTENDS Integers, Sequences, FiniteSets, SequencesExt

CONSTANTS CLUSTER_MAP_SIZE,      \* clusters of the disk (512)
          CLUSTER_SIZE,          \* bytes of a cluster (2048)
          DIRECTORY_TABLE_SIZE,  \* entries of a directory table (64)
          Names, Extensions,     \* what clients call files and folders
          FileSizes,             \* the sizes of the files they write
          Tags,                  \* what they write
          OPERATIONS,            \* the calls they make
          INTERRUPTED            \* the calls in which the machine may stop

FAT32_FAT_END_OF_FILE == 268435455  \* 0x0FFFFFFF, CLUSTER_1_VALUE as well
FAT32_FAT_EMPTY_ENTRY == 0
CLUSTER_0_VALUE == 268435440
BOOT_SECTOR == 0            \* the cluster it is in
FAT_CLUSTER_NUMBER == 1
ROOT_CLUSTER_NUMBER == 2

EOF == FAT32_FAT_END_OF_FILE
EMPTY == FAT32_FAT_EMPTY_ENTRY

\* No cluster's number is one of the marks that are no links.
ASSUME FAT32Assumption ==
    /\ CLUSTER_MAP_SIZE \in Nat /\ CLUSTER_MAP_SIZE > 3
    /\ CLUSTER_MAP_SIZE <= CLUSTER_0_VALUE
    /\ CLUSTER_SIZE \in Nat \ {0}
    /\ DIRECTORY_TABLE_SIZE \in Nat /\ DIRECTORY_TABLE_SIZE > 2
    /\ FileSizes \subseteq Nat \ {0}
    /\ OPERATIONS \subseteq {"write", "mkdir", "delete", "move", "rename",
                         "move_folder"}
    /\ INTERRUPTED \subseteq {"format", "write", "mkdir", "delete", "move"}

Cluster == 0 .. (CLUSTER_MAP_SIZE - 1)
DataCluster == 3 .. (CLUSTER_MAP_SIZE - 1)   \* what write may allocate
Index == 0 .. (DIRECTORY_TABLE_SIZE - 1)
ChildIndex == 2 .. (DIRECTORY_TABLE_SIZE - 1)

NoName == "(no name)"
NoExt == "(no ext)"
RootName == "root"
ParentName == ".."

Entry == [name : Names \cup {NoName, RootName, ParentName},
          ext : Extensions \cup {NoExt},
          folder : BOOLEAN,     \* attribute = ATTR_SUBDIRECTORY
          live : BOOLEAN,       \* user_attribute = UATTR_NOT_EMPTY
          cluster : Cluster,
          filesize : FileSizes \cup {0}]

\* What a cluster of the disk may hold.
Fat(map) == [kind |-> "fat", map |-> map]
Table(table) == [kind |-> "table", table |-> table]
Data(tag, position) == [kind |-> "data", tag |-> tag, position |-> position]
Signature == [kind |-> "signature"]
Blank == [kind |-> "blank"]   \* zeroes, or bytes nobody wrote for a purpose

VARIABLES cluster_map,  \* fat32driver_state.fat_table
          disk,         \* what each cluster of the disk holds
          pending,      \* the cluster writes the running call has still to do
          call          \* history: the call that is running

vars == <<cluster_map, disk, pending, call>>

-----------------------------------------------------------------------------
(* Directory tables and chains *)

BlankEntry == [name |-> NoName, ext |-> NoExt, folder |-> FALSE,
               live |-> FALSE, cluster |-> 0, filesize |-> 0]

\* What the slots of a new folder's table may hold: the table is an
\* uninitialised local of write(), of which only user_attribute is cleared.
Residue == {BlankEntry} \cup {[BlankEntry EXCEPT !.name = name, !.folder = TRUE] :
                                 name \in Names}

\* A folder whose two own entries lead to the root.
init_directory_table_Root(name, parent, residue) ==
    [i \in Index |->
        IF i \in {0, 1}
        THEN [BlankEntry EXCEPT !.name = IF i = 0 THEN name ELSE ParentName,
                                !.folder = TRUE, !.live = TRUE,
                                !.cluster = ROOT_CLUSTER_NUMBER]
        ELSE residue]

\* Entries 0 and 1 both lead to the parent, the self entry included.  The name of
\* entry 1 is written without the zeroes behind its two dots; here they are
\* always there, so that no search for it is refused.
init_directory_table(name, parent, residue) ==
    [i \in Index |->
        IF i \in {0, 1}
        THEN [BlankEntry EXCEPT !.name = IF i = 0 THEN name ELSE ParentName,
                                !.folder = TRUE, !.live = TRUE,
                                !.cluster = parent]
        ELSE residue]

\* A cluster read as a directory table.  What is not one has no entry marked
\* UATTR_NOT_EMPTY, a value that is no character.
AsTable(content) ==
    IF content.kind = "table" THEN content.table
                              ELSE [i \in Index |-> BlankEntry]

TableAt(cluster) == AsTable(disk[cluster])

\* The allocation table as the disk holds it; zeroes before it is first written.
MapOn(contents) ==
    IF contents[FAT_CLUSTER_NUMBER].kind = "fat"
    THEN contents[FAT_CLUSTER_NUMBER].map
    ELSE [c \in Cluster |-> EMPTY]

OnDisk == MapOn(disk)

FirstIndex(S) == CHOOSE i \in S : \A j \in S : i <= j

\* The chain of clusters that starts at a cluster: its n-th element, EOF past
\* its end; a link to a cluster no file can have stays where it is.
Hop(map, start) ==
    LET jump == [c \in Cluster \cup {EOF, CLUSTER_0_VALUE} |->
                    IF c \in DataCluster THEN map[c] ELSE c]
        hop[n \in 0 .. CLUSTER_MAP_SIZE] ==
            IF n = 0 THEN start ELSE jump[hop[n - 1]]
    IN  hop

Chain(map, start) ==
    {Hop(map, start)[n] : n \in 0 .. CLUSTER_MAP_SIZE} \cap DataCluster

EndsWell(map, start) == Hop(map, start)[CLUSTER_MAP_SIZE] = EOF

ClustersFor(size) == (size + CLUSTER_SIZE - 1) \div CLUSTER_SIZE

\* The j-th block of a file, on a disk with these contents.
BlockOn(contents, map, start, j) ==
    LET c == Hop(map, start)[j - 1]
    IN  IF c \in Cluster THEN contents[c] ELSE Blank

-----------------------------------------------------------------------------
(* Reading *)

Found(table, name, ext) ==
    {i \in Index : table[i].live /\ table[i].name = name /\ table[i].ext = ext}

Readable(parent, name, ext) ==
    {i \in Found(TableAt(parent), name, ext) : ~TableAt(parent)[i].folder}

\* The answer of read(): the first file of that name and extension must fit in
\* the buffer.
ReadCode(parent, name, ext, buffer_size) ==
    LET files == Readable(parent, name, ext)
    IN  CASE files = {} -> IF Found(TableAt(parent), name, ext) # {} THEN 1 ELSE 3
          [] files # {} /\ buffer_size < TableAt(parent)[FirstIndex(files)].filesize -> 2
          [] OTHER -> 0

\* A read of as many clusters as the size fills.
read_OneShort(parent, name, ext) ==
    LET entry == TableAt(parent)[FirstIndex(Readable(parent, name, ext))]
    IN  [j \in 1 .. (entry.filesize \div CLUSTER_SIZE) |->
            BlockOn(disk, cluster_map, entry.cluster, j)]

\* A read that follows the link before it reads the cluster.
read_LinkFirst(parent, name, ext) ==
    LET entry == TableAt(parent)[FirstIndex(Readable(parent, name, ext))]
    IN  [j \in 1 .. ClustersFor(entry.filesize) |->
            BlockOn(disk, cluster_map, entry.cluster, j + 1)]

\* What read() puts in the buffer: as many blocks as the size needs, along the
\* allocation table in memory.
read(parent, name, ext) ==
    LET entry == TableAt(parent)[FirstIndex(Readable(parent, name, ext))]
    IN  [j \in 1 .. ClustersFor(entry.filesize) |->
            BlockOn(disk, cluster_map, entry.cluster, j)]

\* A search that passes over the table's own entries.
FolderNamed_Children(parent, name) ==
    {i \in ChildIndex : TableAt(parent)[i].name = name /\ TableAt(parent)[i].folder}

\* The folders of a name, the table's own entries and deleted ones included.
FolderNamed(parent, name) ==
    {i \in Index : TableAt(parent)[i].name = name /\ TableAt(parent)[i].folder}

\* The table read_directory() finds, that of the first of them: at most one.
read_directory(parent, name) ==
    IF FolderNamed(parent, name) = {} THEN {}
    ELSE {TableAt(TableAt(parent)[FirstIndex(FolderNamed(parent, name))].cluster)}

-----------------------------------------------------------------------------
(* Writing *)

WriteFat(map) == <<FAT_CLUSTER_NUMBER, Fat(map)>>
WriteTable(cluster, table) == <<cluster, Table(table)>>

\* Clusters a file of this size is given: one more than it fills when the size
\* is a multiple of the cluster size.
ClusterAmount(size) == (size + CLUSTER_SIZE) \div CLUSTER_SIZE

\* A search that runs one cluster past the map, which it takes to be free.
FreeCluster_PastEnd(map) ==
    {c \in 3 .. CLUSTER_MAP_SIZE : c = CLUSTER_MAP_SIZE \/ map[c] = EMPTY}

\* A search that takes clusters from the end of another chain too.
FreeCluster_AnyEnd(map) == {c \in DataCluster : map[c] \in {EMPTY, EOF}}

FreeCluster(map) == {c \in DataCluster : map[c] = EMPTY}

\* The first `amount` free clusters in order, if there are as many.
Locations(amount) ==
    {locations \in [1 .. amount -> FreeCluster(cluster_map)] :
        \A j \in 1 .. amount : \A c \in FreeCluster(cluster_map) :
            c < locations[j] <=> \E k \in 1 .. (j - 1) : c = locations[k]}

Holes(table) == {i \in ChildIndex : ~table[i].live}

\* The scan for an existing entry stops at the first hole.  A file is refused
\* when an entry has its name and another extension, not when it has the same.
AlreadyExists(table, name, ext, isFolder) ==
    \E i \in ChildIndex :
        /\ \A j \in 2 .. i : table[j].live
        /\ table[i].name = name
        /\ (isFolder /\ table[i].folder) \/ table[i].ext # ext

\* A chain whose last link leads back to its first.
LinkChain_SharedTail(locations) ==
    [c \in Cluster |->
        IF \E j \in 1 .. Len(locations) : locations[j] = c
        THEN LET j == CHOOSE j \in 1 .. Len(locations) : locations[j] = c
             IN  IF j = Len(locations) THEN locations[1] ELSE locations[j + 1]
        ELSE cluster_map[c]]

LinkChain(locations) ==
    [c \in Cluster |->
        IF \E j \in 1 .. Len(locations) : locations[j] = c
        THEN LET j == CHOOSE j \in 1 .. Len(locations) : locations[j] = c
             IN  IF j = Len(locations) THEN EOF ELSE locations[j + 1]
        ELSE cluster_map[c]]

\* The answer of write(): the parent cluster must end a chain, no entry be in
\* the way, and the table and the disk have room.
WriteCode(parent, name, ext, isFolder, amount) ==
    CASE cluster_map[parent] # EOF -> 2
      [] AlreadyExists(TableAt(parent), name, ext, isFolder) -> 1
      [] \/ Holes(TableAt(parent)) = {}
         \/ amount > Cardinality(FreeCluster(cluster_map)) -> -1
      [] OTHER -> 0

\* A directory entry that precedes what it leads to.
FileWrites_TableFirst(parent, table, locations, content, map) ==
    <<WriteTable(parent, table)>>
    \o [j \in 1 .. Len(locations) |-> <<locations[j], content[j]>>]
    \o <<WriteFat(map)>>

\* Blocks that follow the tables that lead to them.
FileWrites_BlocksLast(parent, table, locations, content, map) ==
    <<WriteFat(map), WriteTable(parent, table)>>
    \o [j \in 1 .. Len(locations) |-> <<locations[j], content[j]>>]

\* The writes of a file: its blocks, the allocation table, the directory; for
\* files of up to 255 clusters, since the loop's counter is a byte.
FileWrites(parent, table, locations, content, map) ==
    [j \in 1 .. Len(locations) |-> <<locations[j], content[j]>>]
    \o <<WriteFat(map), WriteTable(parent, table)>>

\* The blocks of a buffer with one writing of a file, and those behind it.
Buffer(tag, size) ==
    [j \in 1 .. ClusterAmount(size) |->
        IF j <= ClustersFor(size) THEN Data(tag, j) ELSE Blank]

\* write() with a buffer, when it goes ahead.
write_file(parent, name, ext, size, content) ==
    /\ WriteCode(parent, name, ext, FALSE, ClusterAmount(size)) = 0
    /\ \E locations \in Locations(ClusterAmount(size)) :
        LET table == TableAt(parent)
            hole == FirstIndex(Holes(table))
            map == LinkChain(locations)
            entry == [name |-> name, ext |-> ext, folder |-> FALSE, live |-> TRUE,
                      cluster |-> locations[1], filesize |-> size]
        IN  /\ cluster_map' = map
            /\ pending' = FileWrites(parent, [table EXCEPT ![hole] = entry],
                                     locations, content, map)
    /\ UNCHANGED disk

\* write() with buffer_size 0.  The slot keeps the extension of its last use,
\* and the table that names the folder is written before anything else.
write_folder(parent, name, ext, residue) ==
    /\ WriteCode(parent, name, ext, TRUE, 1) = 0
    /\ \E locations \in Locations(1) :
        LET table == TableAt(parent)
            hole == FirstIndex(Holes(table))
            location == locations[1]
            map == [cluster_map EXCEPT ![location] = EOF]
            entry == [table[hole] EXCEPT !.name = name, !.folder = TRUE,
                                         !.live = TRUE, !.cluster = location,
                                         !.filesize = 0]
            newTable == [table EXCEPT ![hole] = entry]
        IN  /\ cluster_map' = map
            /\ pending' = <<WriteTable(parent, newTable), WriteFat(map),
                            WriteTable(location,
                                       init_directory_table(name, parent, residue)),
                            WriteTable(parent, newTable)>>
    /\ UNCHANGED disk

-----------------------------------------------------------------------------
(* Deleting and moving *)

\* Live entries the name can mean; a folder's extension is not looked at, and
\* the table's own entries 0 and 1 are candidates too.
Deletable(table, name, ext) ==
    {i \in Index : /\ table[i].live
                   /\ table[i].name = name
                   /\ table[i].folder \/ table[i].ext = ext}

\* A check that looks at the parent entry only.
IsEmptyFolder_Unchecked(table) == table[1].live

IsEmptyFolder(table) == \A i \in ChildIndex : ~table[i].live

\* A release of a file's first cluster only.
FreedClusters_FirstOnly(entry) == {entry.cluster}

\* The clusters delete() frees: a folder's one, or as many of a file's chain as
\* its size fills.  A chain that is one longer, as write() makes it when the size
\* is a multiple of the cluster size, is listed past the end of an array on the
\* kernel's stack; what that overwrites is not modelled.
FreedClusters(entry) ==
    IF entry.folder THEN {entry.cluster}
    ELSE {Hop(cluster_map, entry.cluster)[n] : n \in 0 .. (ClustersFor(entry.filesize) - 1)}

\* A deletion that leaves the allocation table to the next write.
DeleteWrites_TableOnly(map, parent, table) == <<WriteTable(parent, table)>>

DeleteWrites(map, parent, table) ==
    <<WriteFat(map), WriteTable(parent, table)>>

\* The answer of delete(): what it looks for is there, and no folder that has
\* something in it.
DeleteCode(parent, name, ext) ==
    LET table == TableAt(parent)
        found == Deletable(table, name, ext)
        entry == table[FirstIndex(found)]
    IN  CASE found = {} -> 1
          [] found # {} /\ entry.folder /\ ~IsEmptyFolder(TableAt(entry.cluster)) -> 2
          [] OTHER -> 0

\* delete(), when it goes ahead; it follows a file's chain to its end first,
\* which a chain that does not end would never let it do.
delete(parent, name, ext) ==
    LET table == TableAt(parent)
        found == Deletable(table, name, ext)
        index == FirstIndex(found)
        entry == table[index]
        map == [c \in Cluster |->
                   IF c \in FreedClusters(entry) THEN EMPTY ELSE cluster_map[c]]
    IN  /\ DeleteCode(parent, name, ext) = 0
        /\ entry.folder \/ EndsWell(cluster_map, entry.cluster)
        /\ cluster_map' = map
        /\ pending' = DeleteWrites(map, parent,
                                   [table EXCEPT ![index].live = FALSE])
        /\ UNCHANGED disk

\* The entries move() takes as its source: deleted ones are not excluded.
Movable(table, name, ext) ==
    {i \in ChildIndex : table[i].name = name /\ table[i].ext = ext}

\* A move that leaves the source where it was.
MoveWrites_SourceKept(from, fromTable, to, toTable) ==
    <<WriteTable(to, toTable)>>

\* The source directory is written first, then the destination; both tables
\* were read before either was changed.
MoveWrites(from, fromTable, to, toTable) ==
    <<WriteTable(from, fromTable), WriteTable(to, toTable)>>

\* The answer of move() as the shell calls it, with buffer_size 0: the
\* destination is refused only for a folder that has the source's name, dead or
\* not, and for want of room.
MoveCode(from, name, ext, to) ==
    CASE Movable(TableAt(from), name, ext) = {} -> 2
      [] \/ \E j \in ChildIndex : TableAt(to)[j].name = name /\ TableAt(to)[j].folder
         \/ Holes(TableAt(to)) = {} -> 1
      [] OTHER -> 0

\* move(), when it goes ahead.
move(from, name, ext, to, newName, newExt) ==
    LET fromTable == TableAt(from)
        toTable == TableAt(to)
        source == FirstIndex(Movable(fromTable, name, ext))
        hole == FirstIndex(Holes(toTable))
        entry == [fromTable[source] EXCEPT !.name = newName, !.ext = newExt]
    IN  /\ MoveCode(from, name, ext, to) = 0
        /\ pending' = MoveWrites(from, [fromTable EXCEPT ![source].live = FALSE],
                                 to, [toTable EXCEPT ![hole] = entry])
        /\ UNCHANGED <<cluster_map, disk>>

-----------------------------------------------------------------------------
(* The system *)

FormattedMap ==
    [c \in Cluster |->
        CASE c = 0 -> CLUSTER_0_VALUE
          [] c \in {FAT_CLUSTER_NUMBER, ROOT_CLUSTER_NUMBER} -> EOF
          [] OTHER -> EMPTY]

\* create_fat32: the signature comes first.
FormatWrites ==
    <<<<BOOT_SECTOR, Signature>>,
      WriteTable(ROOT_CLUSTER_NUMBER,
                 init_directory_table(RootName, ROOT_CLUSTER_NUMBER, BlankEntry)),
      WriteFat(FormattedMap)>>

\* The machine starts on an empty disk, which it formats.
Init ==
    /\ cluster_map = FormattedMap
    /\ disk = [c \in Cluster |-> Blank]
    /\ pending = FormatWrites
    /\ call = "format"

Idle == pending = <<>>

\* Some directories, and those that live folder entries of theirs lead to, when
\* the disk has these contents.
WithSubfolders(contents, dirs) ==
    dirs \cup UNION {LET table == AsTable(contents[d])
                     IN  {table[i].cluster : i \in {j \in ChildIndex :
                             /\ table[j].live /\ table[j].folder
                             /\ contents[table[j].cluster].kind = "table"}} :
                     d \in dirs}

DirectoriesBelow(contents, dir) ==
    LET level[n \in 0 .. CLUSTER_MAP_SIZE] ==
            IF n = 0 THEN {dir} ELSE WithSubfolders(contents, level[n - 1])
    IN  level[CLUSTER_MAP_SIZE]

Directories ==
    DirectoriesBelow(disk, ROOT_CLUSTER_NUMBER)
    \cap {d \in Cluster : disk[d].kind = "table"}

\* A client works in a directory that exists.
WriteFile ==
    /\ Idle /\ "write" \in OPERATIONS
    /\ call' = "write"
    /\ \E parent \in Directories, name \in Names, ext \in Extensions,
          size \in FileSizes, tag \in Tags :
          write_file(parent, name, ext, size, Buffer(tag, size))

MakeFolder ==
    /\ Idle /\ "mkdir" \in OPERATIONS
    /\ call' = "mkdir"
    /\ \E parent \in Directories, name \in Names, residue \in Residue :
          write_folder(parent, name, NoExt, residue)

Delete ==
    /\ Idle /\ "delete" \in OPERATIONS
    /\ call' = "delete"
    /\ \E parent \in Directories, name \in Names, ext \in Extensions :
          delete(parent, name, ext)

\* Within a directory (a rename), and of a folder, only where the run says so;
\* never of a folder below itself.
Move ==
    /\ Idle /\ "move" \in OPERATIONS
    /\ call' = "move"
    /\ \E from \in Directories, to \in Directories, name \in Names,
          newName \in Names, ext \in Extensions \cup {NoExt} :
          /\ from # to \/ "rename" \in OPERATIONS
          /\ \A i \in Movable(TableAt(from), name, ext) :
                LET entry == TableAt(from)[i]
                IN  entry.live /\ entry.folder =>
                        /\ "move_folder" \in OPERATIONS
                        /\ to \notin DirectoriesBelow(disk, entry.cluster)
          /\ move(from, name, ext, to, newName, ext)

\* One cluster reaches the disk.
write_clusters ==
    /\ ~Idle
    /\ disk' = [disk EXCEPT ![Head(pending)[1]] = Head(pending)[2]]
    /\ pending' = Tail(pending)
    /\ call' = IF Tail(pending) = <<>> THEN "none" ELSE call
    /\ UNCHANGED cluster_map

\* The machine stops and starts again: initialize_filesystem_fat32 reads the
\* allocation table of a disk that has the signature and formats any other.
Restart ==
    /\ ~Idle /\ call \in INTERRUPTED
    /\ IF disk[BOOT_SECTOR] = Signature
       THEN /\ cluster_map' = OnDisk
            /\ pending' = <<>>
            /\ call' = "none"
       ELSE /\ cluster_map' = FormattedMap
            /\ pending' = FormatWrites
            /\ call' = "format"
    /\ UNCHANGED disk

Next ==
    \/ WriteFile
    \/ MakeFolder
    \/ Delete
    \/ Move
    \/ write_clusters
    \/ Restart

Spec == Init /\ [][Next]_vars

-----------------------------------------------------------------------------
(* Properties *)

TypeOK ==
    /\ cluster_map \in [Cluster -> Cluster \cup {EOF, CLUSTER_0_VALUE}]
    /\ DOMAIN disk = Cluster
    /\ \A c \in Directories : TableAt(c) \in [Index -> Entry]
    /\ \A j \in 1 .. Len(pending) : pending[j][1] \in Cluster

\* Where the entries are that the user can reach.
Places == {p \in Directories \X ChildIndex : TableAt(p[1])[p[2]].live}
ChainAt(map, p) == Chain(map, TableAt(p[1])[p[2]].cluster)

\* Each reachable entry starts a chain that ends, in clusters the table on disk
\* says are taken and no other entry has.
Sound ==
    /\ \A p \in Places : EndsWell(OnDisk, TableAt(p[1])[p[2]].cluster)
    /\ \A p, q \in Places : p # q => ChainAt(OnDisk, p) \cap ChainAt(OnDisk, q) = {}

\* Writing a file and moving an entry keep the disk sound at every moment at
\* which a power failure may find it, whatever was interrupted before.
DiskIsSound == call \in {"none", "write", "move"} => Sound

\* Between calls the allocation table in memory is the one on the disk, whatever
\* was interrupted before: no call leaves it to a later one to write it.
MapIsOnDisk == Idle => cluster_map = OnDisk

\* Between calls following the allocation table from any reachable entry reaches
\* an end without meeting another entry's clusters.
NoCrossLink == Idle => Sound

\* Between calls every cluster that is not free belongs to a reachable entry:
\* whatever was created, moved and deleted, no space is lost.
NoLeak ==
    Idle => \A c \in DataCluster :
        cluster_map[c] # EMPTY => \E p \in Places : c \in ChainAt(cluster_map, p)

\* The blocks of every reachable file on the disk are those of one single write,
\* in order and complete: between calls, and at every moment of a call that
\* writes or moves.
FileIntact ==
    call \in {"none", "write", "move"} =>
    \A p \in Places :
        LET entry == TableAt(p[1])[p[2]]
        IN  ~entry.folder =>
                \E tag \in Tags : \A j \in 1 .. ClustersFor(entry.filesize) :
                    LET c == Hop(OnDisk, entry.cluster)[j - 1]
                    IN  c \in DataCluster /\ disk[c] = Data(tag, j)

\* A disk when the first k of a call's writes have reached it.
Written(contents, writes, k) ==
    LET to(c) == {j \in 1 .. k : writes[j][1] = c}
    IN  [c \in Cluster |->
            IF to(c) = {} THEN contents[c]
            ELSE writes[CHOOSE j \in to(c) : \A i \in to(c) : i <= j][2]]

\* The disk as the running call will leave it, and the entries on it with what
\* they hold.
Settled == Written(disk, pending, Len(pending))

EntryOn(contents, p) == AsTable(contents[p[1]])[p[2]]

StoreOn(contents, map) ==
    [p \in {q \in DirectoriesBelow(contents, ROOT_CLUSTER_NUMBER) \X ChildIndex :
                EntryOn(contents, q).live} |->
        LET entry == EntryOn(contents, p)
        IN  [label |-> <<entry.name, entry.ext>>,
             folder |-> entry.folder,
             holds |-> IF entry.folder THEN entry.cluster
                       ELSE [j \in 1 .. ClustersFor(entry.filesize) |->
                                BlockOn(contents, map, entry.cluster, j)]]]

\* By way of a function, whose argument TLC evaluates once.
EntriesOn[contents \in {Settled}] == StoreOn(contents, MapOn(contents))

Entries == EntriesOn[Settled]

Store ==
    INSTANCE FileStore WITH
        Dir <- Cluster,
        Root <- ROOT_CLUSTER_NUMBER,
        Slot <- ChildIndex,
        Label <- Names \X (Extensions \cup {NoExt}),
        Text <- {[j \in 1 .. ClustersFor(size) |-> Data(tag, j)] :
                    size \in FileSizes, tag \in Tags},
        files <- Entries

\* The driver implements the store: each call that goes ahead creates, removes
\* or moves one entry, every other file keeps its place and every block it had,
\* and a call that is refused changes nothing.
StoreSpec == Store!Spec

=============================================================================
