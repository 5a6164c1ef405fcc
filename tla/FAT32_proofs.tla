---------------------------- MODULE FAT32_proofs ----------------------------
(***************************************************************************)
(* Proofs about the driver, for every size of disk, cluster and directory, *)
(* every set of names and file sizes, and power failures in any of its     *)
(* calls: every variable keeps its type, and between calls the allocation  *)
(* table in memory is the one on the disk.                                 *)
(***************************************************************************)
EXTENDS FAT32, Induction_proofs

MapType == [Cluster -> Cluster \cup {EOF, CLUSTER_0_VALUE}]

\* An entry that does not lead to the allocation table, and a table of such.
SafeEntry == {entry \in Entry : entry.cluster # FAT_CLUSTER_NUMBER}
TableType == [Index -> SafeEntry]

\* What a cluster may hold.
Fats == {Fat(map) : map \in MapType}
Tables == {Table(table) : table \in TableType}
Blocks == {Data(tag, j) : tag \in Tags, j \in Nat}
Content == Fats \cup Tables \cup Blocks \cup {Signature, Blank}

\* Writes a call may issue when the allocation table in memory is `map`.
Issued(writes, map) ==
    /\ writes \in Seq(Cluster \X Content)
    /\ \A k \in 1 .. Len(writes) :
          writes[k][1] = FAT_CLUSTER_NUMBER => writes[k][2] = Fat(map)

WritesFat(writes) ==
    \E k \in 1 .. Len(writes) : writes[k][1] = FAT_CLUSTER_NUMBER

\* The table on disk is the one in memory, or will be before the call is over;
\* no directory is ever written in its place, and no entry leads there.
IInv ==
    /\ cluster_map \in MapType
    /\ disk \in [Cluster -> Content]
    /\ disk[FAT_CLUSTER_NUMBER].kind # "table"
    /\ Issued(pending, cluster_map)
    /\ OnDisk = cluster_map \/ WritesFat(pending)

-----------------------------------------------------------------------------
(* What is written *)

LEMMA Constants ==
    /\ FAT_CLUSTER_NUMBER \in Cluster /\ ROOT_CLUSTER_NUMBER \in Cluster
    /\ BOOT_SECTOR \in Cluster /\ 0 \in Cluster
    /\ FAT_CLUSTER_NUMBER # ROOT_CLUSTER_NUMBER /\ FAT_CLUSTER_NUMBER # BOOT_SECTOR
    /\ DataCluster \subseteq Cluster /\ FAT_CLUSTER_NUMBER \notin DataCluster
    /\ 0 \in Index /\ 1 \in Index /\ ChildIndex \subseteq Index /\ Index \subseteq Nat
BY FAT32Assumption
DEF FAT32Assumption, FAT_CLUSTER_NUMBER, ROOT_CLUSTER_NUMBER, BOOT_SECTOR,
    Cluster, DataCluster, Index, ChildIndex

\* The tag on a cluster's contents says which of them it is.
LEMMA ContentKinds ==
    /\ \A content \in Content :
          /\ content.kind = "fat" => content.map \in MapType
          /\ content.kind = "table" => content.table \in TableType
    /\ \A map \in MapType : Fat(map) \in Content
    /\ \A table \in TableType : Table(table) \in Content
    /\ \A tag \in Tags, j \in Nat : Data(tag, j) \in Content
    /\ Signature \in Content /\ Blank \in Content
<1>1. \A content \in Fats : content.kind = "fat" /\ content.map \in MapType
    BY DEF Fats, Fat
<1>2. \A content \in Tables : content.kind = "table" /\ content.table \in TableType
    BY DEF Tables, Table
<1>3. \A content \in Blocks : content.kind = "data"
    BY DEF Blocks, Data
<1>4. Signature.kind = "signature" /\ Blank.kind = "blank"
    BY DEF Signature, Blank
<1>5. \A content \in Content :
          /\ content.kind = "fat" => content.map \in MapType
          /\ content.kind = "table" => content.table \in TableType
    BY <1>1, <1>2, <1>3, <1>4 DEF Content
<1>6. /\ \A map \in MapType : Fat(map) \in Content
      /\ \A table \in TableType : Table(table) \in Content
      /\ \A tag \in Tags, j \in Nat : Data(tag, j) \in Content
    BY SMT DEF Content, Fats, Tables, Blocks
<1> QED
    BY <1>5, <1>6 DEF Content

\* An empty entry is an entry, so what is not a table is read as one all the same.
LEMMA ReadAsTable ==
    /\ BlankEntry \in Entry /\ BlankEntry.cluster # FAT_CLUSTER_NUMBER
    /\ \A content \in Content : AsTable(content) \in TableType
<1>1. BlankEntry \in Entry /\ BlankEntry.cluster # FAT_CLUSTER_NUMBER
    BY Constants DEF BlankEntry, Entry, FAT_CLUSTER_NUMBER
<1> QED
    BY <1>1, ContentKinds DEF AsTable, TableType, SafeEntry

\* Where a directory may be: not where the allocation table is.
Aside == Cluster \ {FAT_CLUSTER_NUMBER}

LEMMA RootIsAside == ROOT_CLUSTER_NUMBER \in Aside /\ DataCluster \subseteq Aside
BY Constants DEF Aside

\* Whatever is read as a directory table is one, and its entries lead aside.
LEMMA TableIsTable ==
    ASSUME IInv, NEW dir \in Cluster
    PROVE  /\ TableAt(dir) \in TableType
           /\ \A i \in Index : TableAt(dir)[i].cluster \in Aside
<1>1. TableAt(dir) \in TableType
    BY ReadAsTable DEF IInv, TableAt
<1> QED
    BY <1>1 DEF TableType, SafeEntry, Entry, Aside

\* A directory is a cluster that holds a table: never the allocation table's.
LEMMA DirectoryIsTable ==
    ASSUME IInv, NEW dir \in Directories
    PROVE  dir \in Aside /\ TableAt(dir) \in TableType
BY TableIsTable DEF IInv, Directories, Aside

\* FirstIndex finds it.
LEMMA FirstIsMember ==
    ASSUME NEW S \in SUBSET Nat, S # {}
    PROVE  FirstIndex(S) \in S /\ \A j \in S : FirstIndex(S) <= j
BY HasLeast DEF FirstIndex

\* A write that goes ahead has a slot for its entry.
LEMMA WriteNeedsHole ==
    ASSUME NEW parent, NEW name, NEW ext, NEW isFolder, NEW amount,
           WriteCode(parent, name, ext, isFolder, amount) = 0
    PROVE  Holes(TableAt(parent)) # {}
BY DEF WriteCode

\* A file gets at least one cluster.
LEMMA AmountIsPositive ==
    ASSUME NEW size \in FileSizes
    PROVE  ClusterAmount(size) \in Nat \ {0}
<1>1. size \in Nat /\ CLUSTER_SIZE \in Nat \ {0}
    BY FAT32Assumption DEF FAT32Assumption
<1>2. \A a \in Nat, b \in Nat \ {0} : a >= b => a \div b \in Nat /\ a \div b >= 1
    OBVIOUS
<1> QED
    BY <1>1, <1>2 DEF ClusterAmount

\* A buffer's blocks may be on the disk.
LEMMA BufferIsContent ==
    ASSUME NEW size \in FileSizes, NEW tag \in Tags
    PROVE  Buffer(tag, size) \in [1 .. ClusterAmount(size) -> Content]
BY AmountIsPositive, ContentKinds DEF Buffer

\* A chain linked through free clusters leaves an allocation table.
LEMMA LinkedMap ==
    ASSUME IInv, NEW amount \in Nat, NEW locations \in Locations(amount)
    PROVE  /\ locations \in Seq(DataCluster) /\ Len(locations) = amount
           /\ LinkChain(locations) \in MapType
<1>1. locations \in [1 .. amount -> DataCluster]
    BY DEF Locations, FreeCluster
<1>2. locations \in Seq(DataCluster) /\ Len(locations) = amount
    BY <1>1
<1>3. ASSUME NEW c \in Cluster
      PROVE  LinkChain(locations)[c] \in Cluster \cup {EOF, CLUSTER_0_VALUE}
    <2>1. CASE \E j \in 1 .. Len(locations) : locations[j] = c
        <3> DEFINE j == CHOOSE j \in 1 .. Len(locations) : locations[j] = c
        <3>1. j \in 1 .. amount
            BY <1>2, <2>1
        <3>2. LinkChain(locations)[c] = IF j = amount THEN EOF ELSE locations[j + 1]
            BY <1>2, <2>1 DEF LinkChain
        <3> HIDE DEF j
        <3> QED
            BY <1>1, <3>1, <3>2, Constants
    <2>2. CASE ~ \E j \in 1 .. Len(locations) : locations[j] = c
        BY <2>2 DEF LinkChain, IInv, MapType
    <2> QED
        BY <2>1, <2>2
<1> QED
    BY <1>2, <1>3 DEF LinkChain, MapType

-----------------------------------------------------------------------------
(* The calls *)

\* A call that has just issued its writes keeps the invariant.
LEMMA CallIsIssued ==
    ASSUME IInv, Idle, cluster_map' \in MapType, UNCHANGED disk,
           Issued(pending', cluster_map'),
           cluster_map' = cluster_map \/ WritesFat(pending')
    PROVE  IInv'
<1>1. OnDisk' = OnDisk
    BY DEF OnDisk
<1>2. ~WritesFat(pending)
    BY DEF Idle, WritesFat
<1> QED
    BY <1>1, <1>2 DEF IInv, Issued, WritesFat

\* The writes that end a file's creation, and those of a deletion.
LEMMA FatThenTable ==
    ASSUME NEW map \in MapType, NEW table \in TableType,
           NEW dir \in Aside
    PROVE  LET writes == <<WriteFat(map), WriteTable(dir, table)>>
           IN  Issued(writes, map) /\ WritesFat(writes)
<1> DEFINE writes == <<WriteFat(map), WriteTable(dir, table)>>
<1>1. /\ WriteFat(map) \in Cluster \X Content
      /\ WriteTable(dir, table) \in Cluster \X Content
    BY Constants, ContentKinds DEF WriteFat, WriteTable, Aside
<1>2. /\ WriteFat(map)[1] = FAT_CLUSTER_NUMBER /\ WriteFat(map)[2] = Fat(map)
      /\ WriteTable(dir, table)[1] = dir /\ dir # FAT_CLUSTER_NUMBER
    BY DEF WriteFat, WriteTable, Aside
<1>3. writes \in Seq(Cluster \X Content) /\ Len(writes) = 2
    BY <1>1
<1> QED
    BY <1>2, <1>3 DEF Issued, WritesFat

\* A file's blocks go to clusters of their own.
LEMMA BlocksFirst ==
    ASSUME NEW map, NEW locations \in Seq(DataCluster),
           NEW content \in [1 .. Len(locations) -> Content],
           NEW rest, Issued(rest, map), WritesFat(rest)
    PROVE  LET blocks == [j \in 1 .. Len(locations) |-> <<locations[j], content[j]>>]
           IN  Issued(blocks \o rest, map) /\ WritesFat(blocks \o rest)
<1> DEFINE blocks == [j \in 1 .. Len(locations) |-> <<locations[j], content[j]>>]
<1>1. \A j \in 1 .. Len(locations) :
          /\ locations[j] \in Cluster /\ locations[j] # FAT_CLUSTER_NUMBER
          /\ content[j] \in Content
    BY Constants
<1>2. /\ blocks \in Seq(Cluster \X Content) /\ Len(blocks) = Len(locations)
      /\ \A j \in 1 .. Len(blocks) : blocks[j][1] # FAT_CLUSTER_NUMBER
    BY <1>1
<1>3. rest \in Seq(Cluster \X Content)
    BY DEF Issued
<1> HIDE DEF blocks
<1>4. /\ blocks \o rest \in Seq(Cluster \X Content)
      /\ Len(blocks \o rest) = Len(blocks) + Len(rest)
      /\ \A i \in 1 .. Len(blocks) + Len(rest) :
            (blocks \o rest)[i] =
                IF i <= Len(blocks) THEN blocks[i] ELSE rest[i - Len(blocks)]
    BY <1>2, <1>3, ConcatProperties
<1>5. Len(blocks) \in Nat /\ Len(rest) \in Nat
    BY <1>2, <1>3
<1>6. Issued(blocks \o rest, map)
    <2> SUFFICES ASSUME NEW k \in 1 .. Len(blocks \o rest),
                        (blocks \o rest)[k][1] = FAT_CLUSTER_NUMBER
                 PROVE  (blocks \o rest)[k][2] = Fat(map)
        BY <1>4 DEF Issued
    <2>1. k > Len(blocks)
        BY <1>2, <1>4, <1>5
    <2>2. /\ (blocks \o rest)[k] = rest[k - Len(blocks)]
          /\ k - Len(blocks) \in 1 .. Len(rest)
        BY <1>4, <1>5, <2>1
    <2> QED
        BY <2>2 DEF Issued
<1>7. WritesFat(blocks \o rest)
    <2>1. PICK k \in 1 .. Len(rest) : rest[k][1] = FAT_CLUSTER_NUMBER
        BY DEF WritesFat
    <2>2. /\ Len(blocks) + k \in 1 .. Len(blocks \o rest)
          /\ (blocks \o rest)[Len(blocks) + k] = rest[k]
        BY <1>4, <1>5
    <2> QED
        BY <2>1, <2>2 DEF WritesFat
<1> QED
    BY <1>6, <1>7 DEF blocks

\* What an entry may be called.
EntryName == Names \cup {RootName, ParentName}
EntryExt == Extensions \cup {NoExt}

LEMMA WriteKeeps ==
    ASSUME IInv, Idle,
           NEW parent \in Aside, NEW name \in EntryName, NEW ext \in EntryExt,
           NEW size \in FileSizes, NEW content \in [1 .. ClusterAmount(size) -> Content],
           write_file(parent, name, ext, size, content)
    PROVE  IInv'
<1> DEFINE amount == ClusterAmount(size)
           table == TableAt(parent)
           hole == FirstIndex(Holes(table))
<1>2. PICK locations \in Locations(amount) :
          /\ cluster_map' = LinkChain(locations)
          /\ pending' = FileWrites(parent,
                [table EXCEPT ![hole] =
                    [name |-> name, ext |-> ext, folder |-> FALSE, live |-> TRUE,
                     cluster |-> locations[1], filesize |-> size]],
                locations, content, LinkChain(locations))
          /\ UNCHANGED disk
    BY DEF write_file
<1> DEFINE entry == [name |-> name, ext |-> ext, folder |-> FALSE, live |-> TRUE,
                     cluster |-> locations[1], filesize |-> size]
           newTable == [table EXCEPT ![hole] = entry]
<1>3. amount \in Nat \ {0}
    BY AmountIsPositive
<1>4. /\ locations \in Seq(DataCluster) /\ Len(locations) = amount
      /\ LinkChain(locations) \in MapType
    BY <1>3, LinkedMap
<1>5. content \in [1 .. amount -> Content]
    OBVIOUS
<1>6. newTable \in TableType
    <2>1. locations[1] \in Cluster /\ locations[1] # FAT_CLUSTER_NUMBER
        BY <1>3, <1>4, Constants
    <2>2. entry \in Entry /\ entry.cluster # FAT_CLUSTER_NUMBER
        BY <2>1 DEF Entry, EntryName, EntryExt
    <2>3. table \in TableType
        BY TableIsTable DEF Aside
    <2> HIDE DEF entry, hole, table
    <2> QED
        BY <2>2, <2>3 DEF TableType, SafeEntry
<1>7. Issued(pending', cluster_map') /\ WritesFat(pending')
    <2> DEFINE rest == <<WriteFat(LinkChain(locations)), WriteTable(parent, newTable)>>
    <2>2. pending' = [j \in 1 .. Len(locations) |-> <<locations[j], content[j]>>] \o rest
        BY <1>2 DEF FileWrites
    <2> HIDE DEF newTable
    <2>3. Issued(rest, LinkChain(locations)) /\ WritesFat(rest)
        BY <1>4, <1>6, FatThenTable
    <2> HIDE DEF rest
    <2> QED
        BY <1>2, <1>4, <1>5, <2>2, <2>3, BlocksFirst
<1> QED
    BY <1>2, <1>4, <1>7, CallIsIssued

LEMMA WriteFileKeeps ==
    ASSUME IInv, WriteFile
    PROVE  IInv'
<1>1. PICK parent \in Directories, name \in Names, ext \in Extensions,
           size \in FileSizes, tag \in Tags :
          write_file(parent, name, ext, size, Buffer(tag, size))
    BY DEF WriteFile
<1>2. Buffer(tag, size) \in [1 .. ClusterAmount(size) -> Content]
    BY BufferIsContent
<1> QED
    BY <1>1, <1>2, WriteKeeps, DirectoryIsTable DEF WriteFile, EntryName, EntryExt

\* A new folder's table is one, whatever is left in the slots behind its first two.
LEMMA NewTableIsTable ==
    ASSUME NEW name \in EntryName, NEW parent \in Aside,
           NEW residue \in Residue
    PROVE  init_directory_table(name, parent, residue) \in TableType
<1>1. BlankEntry \in Entry /\ BlankEntry.cluster # FAT_CLUSTER_NUMBER
    BY ReadAsTable
<1>2. residue \in Entry /\ residue.cluster # FAT_CLUSTER_NUMBER
    BY <1>1 DEF Residue, Entry
<1> DEFINE own(n) == [BlankEntry EXCEPT !.name = n, !.folder = TRUE, !.live = TRUE,
                                        !.cluster = parent]
<1>3. \A n \in EntryName : own(n) \in Entry /\ own(n).cluster # FAT_CLUSTER_NUMBER
    BY <1>1 DEF Entry, EntryName, Aside
<1>4. init_directory_table(name, parent, residue) =
          [i \in Index |-> IF i \in {0, 1} THEN own(IF i = 0 THEN name ELSE ParentName)
                           ELSE residue]
    BY DEF init_directory_table
<1>5. name \in EntryName /\ ParentName \in EntryName
    BY DEF EntryName
<1> HIDE DEF own
<1> QED
    BY <1>2, <1>3, <1>4, <1>5 DEF TableType, SafeEntry

LEMMA FolderKeeps ==
    ASSUME IInv, Idle,
           NEW parent \in Aside, NEW name \in EntryName, NEW residue \in Residue,
           write_folder(parent, name, NoExt, residue)
    PROVE  IInv'
<1> DEFINE table == TableAt(parent)
           hole == FirstIndex(Holes(table))
           Map(location) == [cluster_map EXCEPT ![location] = EOF]
           NewTable(location) ==
               [table EXCEPT ![hole] =
                   [table[hole] EXCEPT !.name = name, !.folder = TRUE,
                       !.live = TRUE, !.cluster = location, !.filesize = 0]]
           child == init_directory_table(name, parent, residue)
<1>2. PICK locations \in Locations(1) :
          /\ cluster_map' = Map(locations[1])
          /\ pending' = <<WriteTable(parent, NewTable(locations[1])),
                          WriteFat(Map(locations[1])),
                          WriteTable(locations[1], child),
                          WriteTable(parent, NewTable(locations[1]))>>
          /\ UNCHANGED disk
    BY DEF write_folder
<1> DEFINE location == locations[1]
<1>3. location \in Cluster /\ location # FAT_CLUSTER_NUMBER
    <2>1. location \in DataCluster
        BY DEF Locations, FreeCluster
    <2> QED
        BY <2>1, Constants
<1>4. parent \in Cluster /\ parent # FAT_CLUSTER_NUMBER /\ table \in TableType
    BY TableIsTable DEF Aside
<1>5. Map(location) \in MapType
    BY <1>3 DEF IInv, MapType
<1>6. NewTable(location) \in TableType
    <2>1. Holes(table) # {}
        <3>1. WriteCode(parent, name, NoExt, TRUE, 1) = 0
            BY Zenon DEF write_folder
        <3> QED
            BY <3>1, WriteNeedsHole
    <2>2. hole \in Index
        BY <2>1, FirstIsMember, Constants DEF Holes
    <2>3. table[hole] \in Entry
        BY <1>4, <2>2 DEF TableType, SafeEntry
    <2> DEFINE entry == [table[hole] EXCEPT !.name = name, !.folder = TRUE,
                             !.live = TRUE, !.cluster = location, !.filesize = 0]
    <2>4. entry \in Entry /\ entry.cluster # FAT_CLUSTER_NUMBER
        BY <1>3, <2>3 DEF Entry, EntryName
    <2>5. NewTable(location) = [table EXCEPT ![hole] = entry]
        OBVIOUS
    <2> HIDE DEF hole, table, location, entry, NewTable
    <2> QED
        BY <1>4, <2>4, <2>5 DEF TableType, SafeEntry
<1>7. child \in TableType
    BY <1>4, NewTableIsTable
<1>8. Issued(pending', cluster_map') /\ WritesFat(pending')
    <2> DEFINE map == Map(location)
               newTable == NewTable(location)
    <2>1. pending' = <<WriteTable(parent, newTable), WriteFat(map),
                       WriteTable(location, child), WriteTable(parent, newTable)>>
        BY <1>2
    <2>2. cluster_map' = map
        BY <1>2
    <2>3. map \in MapType /\ newTable \in TableType /\ child \in TableType
        BY <1>5, <1>6, <1>7
    <2> HIDE DEF map, newTable, child, location
    <2>4. /\ WriteTable(parent, newTable) \in Cluster \X Content
          /\ WriteFat(map) \in Cluster \X Content
          /\ WriteTable(location, child) \in Cluster \X Content
        BY <1>3, <1>4, <2>3, Constants, ContentKinds DEF WriteFat, WriteTable
    <2>5. /\ WriteTable(parent, newTable)[1] = parent
          /\ WriteFat(map)[1] = FAT_CLUSTER_NUMBER /\ WriteFat(map)[2] = Fat(map)
          /\ WriteTable(location, child)[1] = location
        BY DEF WriteFat, WriteTable
    <2>6. pending' \in Seq(Cluster \X Content) /\ Len(pending') = 4
        BY <2>1, <2>4
    <2> QED
        BY <1>3, <1>4, <2>1, <2>2, <2>5, <2>6 DEF Issued, WritesFat
<1> QED
    BY <1>2, <1>5, <1>8, CallIsIssued

LEMMA MakeFolderKeeps ==
    ASSUME IInv, MakeFolder
    PROVE  IInv'
<1>1. PICK parent \in Directories, name \in Names, residue \in Residue :
          write_folder(parent, name, NoExt, residue)
    BY DEF MakeFolder
<1> QED
    BY <1>1, FolderKeeps, DirectoryIsTable DEF MakeFolder, EntryName

LEMMA DeletionKeeps ==
    ASSUME IInv, Idle, NEW parent \in Aside, NEW name, NEW ext,
           delete(parent, name, ext)
    PROVE  IInv'
<1> DEFINE table == TableAt(parent)
           index == FirstIndex(Deletable(table, name, ext))
           map == [c \in Cluster |->
                      IF c \in FreedClusters(table[index]) THEN EMPTY ELSE cluster_map[c]]
           newTable == [table EXCEPT ![index].live = FALSE]
<1>2. /\ cluster_map' = map
      /\ pending' = <<WriteFat(map), WriteTable(parent, newTable)>>
      /\ UNCHANGED disk
    BY DEF delete, DeleteWrites
<1>3. parent \in Cluster /\ parent # FAT_CLUSTER_NUMBER /\ table \in TableType
    BY TableIsTable DEF Aside
<1>4. map \in MapType
    BY Constants DEF IInv, MapType, EMPTY, FAT32_FAT_EMPTY_ENTRY
<1>5. newTable \in TableType
    <2> HIDE DEF table, index
    <2>1. \A entry \in Entry : /\ [entry EXCEPT !.live = FALSE] \in Entry
                              /\ [entry EXCEPT !.live = FALSE].cluster = entry.cluster
        BY DEF Entry
    <2>2. index \in Index =>
              table[index] \in Entry /\ table[index].cluster # FAT_CLUSTER_NUMBER
        BY <1>3 DEF TableType, SafeEntry
    <2> QED
        BY <1>3, <2>1, <2>2 DEF TableType, SafeEntry
<1> HIDE DEF map, newTable
<1>6. Issued(pending', cluster_map') /\ WritesFat(pending')
    BY <1>2, <1>3, <1>4, <1>5, FatThenTable
<1> QED
    BY <1>2, <1>4, <1>6, CallIsIssued

LEMMA DeleteKeeps ==
    ASSUME IInv, Delete
    PROVE  IInv'
<1>1. PICK parent \in Directories, name \in Names, ext \in Extensions :
          delete(parent, name, ext)
    BY DEF Delete
<1> QED
    BY <1>1, DeletionKeeps, DirectoryIsTable DEF Delete

LEMMA EntryMoveKeeps ==
    ASSUME IInv, Idle, NEW from \in Aside, NEW to \in Aside, NEW name, NEW ext,
           NEW newName \in EntryName, NEW newExt \in EntryExt,
           move(from, name, ext, to, newName, newExt)
    PROVE  IInv'
<1> DEFINE fromTable == TableAt(from)
           toTable == TableAt(to)
           source == FirstIndex(Movable(fromTable, name, ext))
           hole == FirstIndex(Holes(toTable))
           entry == [fromTable[source] EXCEPT !.name = newName, !.ext = newExt]
           newFrom == [fromTable EXCEPT ![source].live = FALSE]
           newTo == [toTable EXCEPT ![hole] = entry]
<1>2. /\ pending' = <<WriteTable(from, newFrom), WriteTable(to, newTo)>>
      /\ UNCHANGED <<cluster_map, disk>>
    BY DEF move, MoveWrites
<1>3. /\ from \in Cluster /\ from # FAT_CLUSTER_NUMBER /\ fromTable \in TableType
      /\ to \in Cluster /\ to # FAT_CLUSTER_NUMBER /\ toTable \in TableType
    BY TableIsTable DEF Aside
<1>4. source \in Index
    <2>1. Movable(fromTable, name, ext) # {}
        BY DEF move, MoveCode
    <2> QED
        BY <2>1, FirstIsMember, Constants DEF Movable
<1>5. newFrom \in TableType /\ newTo \in TableType
    <2>1. fromTable[source] \in Entry /\ fromTable[source].cluster # FAT_CLUSTER_NUMBER
        BY <1>3, <1>4 DEF TableType, SafeEntry
    <2> DEFINE dead == [fromTable[source] EXCEPT !.live = FALSE]
    <2>2. /\ entry \in Entry /\ entry.cluster # FAT_CLUSTER_NUMBER
          /\ dead \in Entry /\ dead.cluster # FAT_CLUSTER_NUMBER
        BY <2>1 DEF Entry, EntryName, EntryExt
    <2>3. newFrom = [fromTable EXCEPT ![source] = dead]
        OBVIOUS
    <2> HIDE DEF fromTable, toTable, source, hole, entry, dead, newFrom
    <2> QED
        BY <1>3, <2>2, <2>3 DEF TableType, SafeEntry
<1> HIDE DEF newFrom, newTo
<1>6. Issued(pending', cluster_map')
    <2>1. /\ WriteTable(from, newFrom) \in Cluster \X Content
          /\ WriteTable(to, newTo) \in Cluster \X Content
        BY <1>3, <1>5, ContentKinds DEF WriteTable
    <2>2. WriteTable(from, newFrom)[1] = from /\ WriteTable(to, newTo)[1] = to
        BY DEF WriteTable
    <2>3. pending' \in Seq(Cluster \X Content) /\ Len(pending') = 2
        BY <1>2, <2>1
    <2> QED
        BY <1>2, <1>3, <2>2, <2>3 DEF Issued
<1> QED
    BY <1>2, <1>6, CallIsIssued DEF IInv

LEMMA MoveKeeps ==
    ASSUME IInv, Move
    PROVE  IInv'
<1>1. PICK from \in Directories, to \in Directories, name \in Names,
           newName \in Names, ext \in Extensions \cup {NoExt} :
          move(from, name, ext, to, newName, ext)
    BY DEF Move
<1> QED
    BY <1>1, EntryMoveKeeps, DirectoryIsTable DEF Move, EntryName, EntryExt

-----------------------------------------------------------------------------
(* The disk *)

\* A cluster that reaches the disk takes its part of the promise with it.
LEMMA ClusterWrittenKeeps ==
    ASSUME IInv, write_clusters
    PROVE  IInv'
<1> DEFINE cluster == Head(pending)[1]
           content == Head(pending)[2]
<1>1. /\ pending # <<>> /\ pending' = Tail(pending)
      /\ disk' = [disk EXCEPT ![cluster] = content]
      /\ cluster_map' = cluster_map
    BY DEF write_clusters, Idle
<1>2. pending \in Seq(Cluster \X Content)
    BY DEF IInv, Issued
<1>3. /\ Head(pending) = pending[1] /\ Head(pending) \in Cluster \X Content
      /\ Len(pending) \in Nat \ {0}
      /\ Tail(pending) \in Seq(Cluster \X Content)
      /\ Len(Tail(pending)) = Len(pending) - 1
      /\ \A k \in 1 .. Len(Tail(pending)) : Tail(pending)[k] = pending[k + 1]
    BY <1>1, <1>2, HeadTailProperties, EmptySeq
<1>4. cluster \in Cluster /\ content \in Content
    BY <1>3
<1>5. cluster = FAT_CLUSTER_NUMBER => content = Fat(cluster_map)
    BY <1>3 DEF IInv, Issued
<1> HIDE DEF cluster, content
<1>6. disk' \in [Cluster -> Content]
    BY <1>1, <1>4 DEF IInv
<1>7. Issued(pending', cluster_map')
    BY <1>1, <1>3 DEF IInv, Issued
<1>8. CASE cluster = FAT_CLUSTER_NUMBER
    <2>1. disk'[FAT_CLUSTER_NUMBER] = Fat(cluster_map)
        BY <1>1, <1>4, <1>5, <1>8 DEF IInv
    <2>2. /\ Fat(cluster_map).kind = "fat"
          /\ Fat(cluster_map).map = cluster_map
        BY DEF Fat
    <2>3. OnDisk' = cluster_map'
        BY <1>1, <2>1, <2>2 DEF OnDisk, MapOn
    <2> QED
        BY <1>1, <1>6, <1>7, <2>1, <2>2, <2>3 DEF IInv
<1>9. CASE cluster # FAT_CLUSTER_NUMBER
    <2>1. disk'[FAT_CLUSTER_NUMBER] = disk[FAT_CLUSTER_NUMBER]
        BY <1>1, <1>4, <1>9, Constants DEF IInv
    <2>2. OnDisk' = OnDisk
        BY <2>1 DEF OnDisk, MapOn
    <2>3. WritesFat(pending) => WritesFat(pending')
        <3> SUFFICES ASSUME NEW k \in 1 .. Len(pending),
                            pending[k][1] = FAT_CLUSTER_NUMBER
                     PROVE  WritesFat(pending')
            BY DEF WritesFat
        <3>1. k # 1
            BY <1>3, <1>9 DEF cluster
        <3>2. k - 1 \in 1 .. Len(pending') /\ pending'[k - 1] = pending[k]
            BY <1>1, <1>3, <3>1
        <3> QED
            BY <3>2 DEF WritesFat
    <2> QED
        BY <1>1, <1>6, <1>7, <2>1, <2>2, <2>3 DEF IInv
<1> QED
    BY <1>8, <1>9

\* Formatting a disk without an allocation table, or a half-formatted one.
LEMMA FormattingPromises ==
    /\ FormattedMap \in MapType
    /\ Issued(FormatWrites, FormattedMap) /\ WritesFat(FormatWrites)
<1>1. FormattedMap \in MapType
    BY Constants DEF FormattedMap, MapType, EMPTY, FAT32_FAT_EMPTY_ENTRY
<1> DEFINE root == init_directory_table(RootName, ROOT_CLUSTER_NUMBER, BlankEntry)
<1>2. root \in TableType
    BY NewTableIsTable, RootIsAside DEF Residue, EntryName
<1> HIDE DEF root
<1>3. /\ <<BOOT_SECTOR, Signature>> \in Cluster \X Content
      /\ WriteTable(ROOT_CLUSTER_NUMBER, root) \in Cluster \X Content
      /\ WriteFat(FormattedMap) \in Cluster \X Content
    BY <1>1, <1>2, Constants, ContentKinds DEF WriteTable, WriteFat
<1>4. /\ <<BOOT_SECTOR, Signature>>[1] = BOOT_SECTOR
      /\ WriteTable(ROOT_CLUSTER_NUMBER, root)[1] = ROOT_CLUSTER_NUMBER
      /\ WriteFat(FormattedMap)[1] = FAT_CLUSTER_NUMBER
      /\ WriteFat(FormattedMap)[2] = Fat(FormattedMap)
    BY DEF WriteTable, WriteFat
<1>5. FormatWrites = <<<<BOOT_SECTOR, Signature>>,
                       WriteTable(ROOT_CLUSTER_NUMBER, root), WriteFat(FormattedMap)>>
    BY DEF FormatWrites, root
<1>6. FormatWrites \in Seq(Cluster \X Content) /\ Len(FormatWrites) = 3
    BY <1>3, <1>5
<1> QED
    BY <1>1, <1>4, <1>5, <1>6, Constants DEF Issued, WritesFat

\* After a power failure the driver has the table the disk has, or formats.
LEMMA RestartKeeps ==
    ASSUME IInv, Restart
    PROVE  IInv'
<1>1. OnDisk' = OnDisk /\ UNCHANGED disk
    BY DEF Restart, OnDisk
<1>2. CASE disk[BOOT_SECTOR] = Signature
    <2>1. cluster_map' = OnDisk /\ pending' = <<>>
        BY <1>2 DEF Restart
    <2>2. OnDisk \in MapType
        <3>1. disk[FAT_CLUSTER_NUMBER] \in Content
            BY Constants DEF IInv
        <3>2. [c \in Cluster |-> EMPTY] \in MapType
            BY Constants DEF MapType, EMPTY, FAT32_FAT_EMPTY_ENTRY
        <3> QED
            BY <3>1, <3>2, ContentKinds DEF OnDisk, MapOn
    <2>3. Issued(pending', cluster_map')
        BY <2>1 DEF Issued
    <2> QED
        BY <1>1, <2>1, <2>2, <2>3 DEF IInv
<1>3. CASE disk[BOOT_SECTOR] # Signature
    <2>1. cluster_map' = FormattedMap /\ pending' = FormatWrites
        BY <1>3 DEF Restart
    <2> QED
        BY <1>1, <2>1, FormattingPromises DEF IInv
<1> QED
    BY <1>2, <1>3

LEMMA InitKeeps == Init => IInv
<1> SUFFICES ASSUME Init PROVE IInv
    OBVIOUS
<1>1. cluster_map = FormattedMap /\ pending = FormatWrites
    BY DEF Init
<1>2. disk \in [Cluster -> Content]
    BY ContentKinds DEF Init
<1>3. disk[FAT_CLUSTER_NUMBER].kind # "table"
    BY Constants DEF Init, Blank
<1> QED
    BY <1>1, <1>2, <1>3, FormattingPromises DEF IInv

LEMMA StepKeeps == IInv /\ [Next]_vars => IInv'
<1> SUFFICES ASSUME IInv, [Next]_vars PROVE IInv'
    OBVIOUS
<1>1. CASE WriteFile
    BY <1>1, WriteFileKeeps
<1>2. CASE MakeFolder
    BY <1>2, MakeFolderKeeps
<1>3. CASE Delete
    BY <1>3, DeleteKeeps
<1>4. CASE Move
    BY <1>4, MoveKeeps
<1>5. CASE write_clusters
    BY <1>5, ClusterWrittenKeeps
<1>6. CASE Restart
    BY <1>6, RestartKeeps
<1>7. CASE UNCHANGED vars
    BY <1>7 DEF vars, IInv, OnDisk
<1> QED
    BY <1>1, <1>2, <1>3, <1>4, <1>5, <1>6, <1>7 DEF Next

-----------------------------------------------------------------------------

\* The invariant holds in every state the driver and the disk can reach.
THEOREM Inductive == Spec => []IInv
BY InitKeeps, StepKeeps, PTL DEF Spec

LEMMA InvariantIsType == IInv => TypeOK
<1> SUFFICES ASSUME IInv PROVE TypeOK
    OBVIOUS
<1>1. cluster_map \in [Cluster -> Cluster \cup {EOF, CLUSTER_0_VALUE}]
    BY DEF IInv, MapType
<1>2. DOMAIN disk = Cluster
    BY DEF IInv
<1>3. \A c \in Directories : TableAt(c) \in [Index -> Entry]
    BY DirectoryIsTable DEF TableType, SafeEntry
<1>4. \A j \in 1 .. Len(pending) : pending[j][1] \in Cluster
    <2>1. \A j \in 1 .. Len(pending) : pending[j] \in Cluster \X Content
        BY DEF IInv, Issued
    <2> QED
        BY <2>1
<1> QED
    BY <1>1, <1>2, <1>3, <1>4 DEF TypeOK

\* The allocation table only ever holds links to clusters and end marks, every
\* directory holds entries that lead into the disk, and no call writes beyond it.
THEOREM TypeCorrect == Spec => []TypeOK
BY InvariantIsType, Inductive, PTL

\* Between calls the allocation table in memory, by which the driver reads files
\* and finds free clusters, is the one the next start would find on the disk.
THEOREM MemoryIsDisk == Spec => []MapIsOnDisk
<1>1. IInv => MapIsOnDisk
    BY DEF IInv, MapIsOnDisk, Idle, WritesFat
<1> QED
    BY <1>1, Inductive, PTL

=============================================================================
