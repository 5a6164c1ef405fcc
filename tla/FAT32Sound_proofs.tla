-------------------------- MODULE FAT32Sound_proofs ---------------------------
(***************************************************************************)
(* That the disk stays sound, for every size of disk, cluster and          *)
(* directory and every set of names and file sizes: chains end and meet no *)
(* other entry's, files hold what was written, nothing is lost; and that   *)
(* the driver implements the store of FileStore.                           *)
(*                                                                         *)
(* The properties speak of what a walk along the disk reaches: the levels  *)
(* of the directory tree, the hops of a chain.  The invariant names the    *)
(* set of directories and says what holds of each of them (Good), and that *)
(* it holds of the disk as it will be when the running call's writes have  *)
(* reached it and, in calls after which the machine may restart, after     *)
(* each of them (SoundInv).  Proofs along a walk take the least step that  *)
(* fails, since the numbers of steps are bounded by the disk's size.       *)
(*                                                                         *)
(* A step of the refinement compares two good disks entry by entry: which  *)
(* of them both have (Kept) and the one that one of them has more          *)
(* (OneMoreEntry); what a call creates, removes or moves is that one.      *)
(***************************************************************************)
EXTENDS FAT32_proofs

-----------------------------------------------------------------------------
(* Numbers and iteration *)

Iterates(f, next, start, N) ==
    f = [n \in 0 .. N |-> IF n = 0 THEN start ELSE next[f[n - 1]]]

\* A function can be defined by iterating another.
LEMMA IterationExists ==
    ASSUME NEW X, NEW next \in [X -> X], NEW start \in X, NEW N \in Nat
    PROVE  \E f : Iterates(f, next, start, N)
<1> DEFINE Obeys(g, n) == /\ g \in [0 .. n -> X] /\ g[0] = start
                          /\ \A m \in 1 .. n : g[m] = next[g[m - 1]]
           S == {n \in 0 .. N : \E g : Obeys(g, n)}
<1>1. 0 \in S
    <2> DEFINE g == [m \in 0 .. 0 |-> start]
    <2>1. Obeys(g, 0)
        OBVIOUS
    <2> HIDE DEF Obeys, g
    <2>2. \E h : Obeys(h, 0)
        BY <2>1
    <2> QED
        BY <2>2
<1>2. ASSUME NEW n \in 0 .. (N - 1), n \in S
      PROVE  n + 1 \in S
    <2>1. PICK g : Obeys(g, n)
        BY <1>2
    <2> DEFINE h == [m \in 0 .. (n + 1) |-> IF m = n + 1 THEN next[g[n]] ELSE g[m]]
    <2>2. h \in [0 .. (n + 1) -> X] /\ h[0] = start
        BY <2>1
    <2>3. ASSUME NEW m \in 1 .. (n + 1) PROVE h[m] = next[h[m - 1]]
        BY <2>1
    <2>4. Obeys(h, n + 1)
        BY <2>2, <2>3
    <2> HIDE DEF Obeys, h
    <2>5. (\E k : Obeys(k, n + 1)) /\ n + 1 \in 0 .. N
        BY <2>4
    <2> QED
        BY <2>5
<1>3. \E g : Obeys(g, N)
    <2> HIDE DEF Obeys
    <2>1. \A n \in 0 .. N : n \in S
        <3> HIDE DEF S
        <3> QED
            BY <1>1, <1>2, BoundedInduction
    <2> QED
        BY <2>1
<1>4. PICK g : Obeys(g, N)
    BY <1>3
<1> DEFINE h == [n \in 0 .. N |-> IF n = 0 THEN start ELSE next[g[n - 1]]]
<1>5. \A n \in 0 .. N : g[n] = h[n]
    BY <1>4
<1>6. g = h
    BY <1>4, <1>5
<1>7. Iterates(g, next, start, N)
    BY <1>6 DEF Iterates
<1> QED
    BY <1>7

\* What is so defined obeys its definition.
LEMMA IterationObeys ==
    ASSUME NEW X, NEW next \in [X -> X], NEW start \in X, NEW N \in Nat, NEW f,
           Iterates(f, next, start, N)
    PROVE  /\ f \in [0 .. N -> X] /\ f[0] = start
           /\ \A n \in 1 .. N : f[n] = next[f[n - 1]]
<1> DEFINE e(n) == IF n = 0 THEN start ELSE next[f[n - 1]]
<1>1. f = [n \in 0 .. N |-> e(n)]
    BY DEF Iterates
<1>2. f = [n \in 0 .. N |-> f[n]] /\ \A n \in 0 .. N : f[n] = e(n)
    <2> HIDE DEF e
    <2> QED
        BY <1>1
<1>3. f[0] = start
    BY <1>2
<1>4. ASSUME NEW n \in 1 .. N PROVE f[n] = next[f[n - 1]]
    <2>1. n \in 0 .. N /\ n # 0
        OBVIOUS
    <2> QED
        BY <1>2, <2>1
<1> HIDE DEF e
<1> DEFINE T == {n \in 0 .. N : f[n] \in X}
<1>5. \A n \in 0 .. N : f[n] \in X
    <2>1. 0 \in T
        BY <1>3
    <2>2. ASSUME NEW n \in 0 .. (N - 1), n \in T PROVE n + 1 \in T
        <3>1. n + 1 \in 1 .. N /\ n + 1 - 1 = n
            OBVIOUS
        <3>2. f[n + 1] = next[f[n]]
            BY <1>4, <3>1
        <3> QED
            BY <2>2, <3>1, <3>2
    <2>3. \A n \in 0 .. N : n \in T
        <3> HIDE DEF T
        <3> QED
            BY <2>1, <2>2, BoundedInduction
    <2> QED
        BY <2>3
<1> QED
    BY <1>2, <1>3, <1>4, <1>5

-----------------------------------------------------------------------------
(* Chains *)

Link == Cluster \cup {EOF, CLUSTER_0_VALUE}

LEMMA Marks ==
    /\ EOF \notin Cluster /\ EOF # EMPTY /\ EMPTY \notin DataCluster
    /\ CLUSTER_MAP_SIZE \in Nat /\ CLUSTER_MAP_SIZE > 3
    /\ ROOT_CLUSTER_NUMBER \notin DataCluster
BY FAT32Assumption
DEF FAT32Assumption, EOF, FAT32_FAT_END_OF_FILE, EMPTY, FAT32_FAT_EMPTY_ENTRY,
    CLUSTER_0_VALUE, Cluster, DataCluster, ROOT_CLUSTER_NUMBER

\* Each hop follows the link of a cluster a file can have, and stays elsewhere.
LEMMA HopDefined ==
    ASSUME NEW map \in MapType, NEW start \in Link
    PROVE  LET hop == Hop(map, start)
           IN  /\ hop \in [0 .. CLUSTER_MAP_SIZE -> Link] /\ hop[0] = start
               /\ \A n \in 1 .. CLUSTER_MAP_SIZE :
                    hop[n] = IF hop[n - 1] \in DataCluster THEN map[hop[n - 1]]
                             ELSE hop[n - 1]
<1> DEFINE jump == [c \in Cluster \cup {EOF, CLUSTER_0_VALUE} |->
                       IF c \in DataCluster THEN map[c] ELSE c]
           hop == Hop(map, start)
<1>1. jump \in [Link -> Link]
    BY Constants DEF Link, MapType
<1>2. Iterates(hop, jump, start, CLUSTER_MAP_SIZE)
    <2>1. hop = CHOOSE g : Iterates(g, jump, start, CLUSTER_MAP_SIZE)
        BY DEF Hop, Iterates
    <2>2. \E g : Iterates(g, jump, start, CLUSTER_MAP_SIZE)
        <3> HIDE DEF jump
        <3> QED
            BY <1>1, Marks, IterationExists
    <2> HIDE DEF jump, hop
    <2> QED
        BY <2>1, <2>2
<1>3. \A c \in Link : jump[c] = IF c \in DataCluster THEN map[c] ELSE c
    BY DEF Link
<1> HIDE DEF jump, hop
<1>4. /\ hop \in [0 .. CLUSTER_MAP_SIZE -> Link] /\ hop[0] = start
      /\ \A n \in 1 .. CLUSTER_MAP_SIZE : hop[n] = jump[hop[n - 1]]
    <2>1. start \in Link /\ CLUSTER_MAP_SIZE \in Nat
        BY Marks
    <2> QED
        BY <1>1, <1>2, <2>1, IterationObeys, SMTT(30)
<1>5. ASSUME NEW n \in 1 .. CLUSTER_MAP_SIZE
      PROVE  hop[n] = IF hop[n - 1] \in DataCluster THEN map[hop[n - 1]] ELSE hop[n - 1]
    <2>1. n - 1 \in 0 .. CLUSTER_MAP_SIZE
        BY Marks
    <2> QED
        BY <1>3, <1>4, <2>1
<1> QED
    BY <1>4, <1>5 DEF hop

\* A chain of `length` clusters that ends where it should.
WellLinked(map, start, length) ==
    /\ length \in 1 .. CLUSTER_MAP_SIZE
    /\ \A n \in 0 .. (length - 1) : Hop(map, start)[n] \in DataCluster
    /\ Hop(map, start)[length] = EOF

\* Past its end a chain stays at the end mark.
LEMMA PastTheEnd ==
    ASSUME NEW map \in MapType, NEW start \in Link, NEW length,
           WellLinked(map, start, length)
    PROVE  /\ \A n \in length .. CLUSTER_MAP_SIZE : Hop(map, start)[n] = EOF
           /\ EndsWell(map, start)
           /\ Chain(map, start) = {Hop(map, start)[n] : n \in 0 .. (length - 1)}
<1> DEFINE hop == Hop(map, start)
           S == {n \in 0 .. CLUSTER_MAP_SIZE : n >= length => hop[n] = EOF}
<1>1. /\ CLUSTER_MAP_SIZE \in Nat /\ EOF \notin DataCluster
      /\ length \in 1 .. CLUSTER_MAP_SIZE
    BY Marks, Constants DEF WellLinked
<1>2. 0 \in S
    BY <1>1
<1>3. ASSUME NEW n \in 0 .. (CLUSTER_MAP_SIZE - 1), n \in S
      PROVE  n + 1 \in S
    <2>1. n + 1 \in 1 .. CLUSTER_MAP_SIZE /\ n + 1 - 1 = n
        BY <1>1
    <2>2. hop[n + 1] = IF hop[n] \in DataCluster THEN map[hop[n]] ELSE hop[n]
        BY <2>1, HopDefined
    <2>3. CASE n + 1 = length
        BY <2>1, <2>3 DEF WellLinked
    <2>4. CASE n >= length
        BY <1>1, <1>3, <2>1, <2>2, <2>4
    <2>5. CASE ~(n + 1 >= length)
        BY <2>1, <2>5
    <2> QED
        BY <1>1, <2>3, <2>4, <2>5
<1>4. \A n \in 0 .. CLUSTER_MAP_SIZE : n \in S
    <2> HIDE DEF S
    <2> QED
        BY <1>1, <1>2, <1>3, BoundedInduction
<1>5. \A n \in length .. CLUSTER_MAP_SIZE : hop[n] = EOF
    BY <1>1, <1>4
<1>6. \A n \in 0 .. (length - 1) : hop[n] \in DataCluster
    BY DEF WellLinked
<1> HIDE DEF hop, S
<1>7. CLUSTER_MAP_SIZE \in length .. CLUSTER_MAP_SIZE
    BY <1>1
<1>8. EndsWell(map, start)
    BY <1>5, <1>7 DEF EndsWell, hop
<1>9. {hop[n] : n \in 0 .. CLUSTER_MAP_SIZE} \cap DataCluster = {hop[n] : n \in 0 .. (length - 1)}
    <2>1. ASSUME NEW n \in 0 .. CLUSTER_MAP_SIZE, hop[n] \in DataCluster
          PROVE  n \in 0 .. (length - 1)
        BY <1>1, <1>5, <2>1
    <2>2. \A n \in 0 .. (length - 1) : n \in 0 .. CLUSTER_MAP_SIZE
        BY <1>1
    <2> QED
        BY <1>6, <2>1, <2>2
<1> QED
    BY <1>5, <1>8, <1>9 DEF Chain, hop

\* In the table a chain's clusters are marked as taken, and link to one another.
LEMMA ChainIsTaken ==
    ASSUME NEW map \in MapType, NEW start \in Link, NEW length,
           WellLinked(map, start, length), NEW c \in Chain(map, start)
    PROVE  c \in DataCluster /\ map[c] \in DataCluster \cup {EOF} /\ map[c] # EMPTY
<1> DEFINE hop == Hop(map, start)
<1>1. PICK n \in 0 .. (length - 1) : c = hop[n]
    BY PastTheEnd
<1>2. length \in 1 .. CLUSTER_MAP_SIZE /\ CLUSTER_MAP_SIZE \in Nat
    BY Marks DEF WellLinked
<1>3. n + 1 \in 1 .. CLUSTER_MAP_SIZE /\ n + 1 - 1 = n
    BY <1>2
<1>4. hop[n] \in DataCluster
    BY DEF WellLinked
<1>5. hop[n + 1] = map[c]
    BY <1>1, <1>3, <1>4, HopDefined
<1>6. hop[n + 1] \in DataCluster \cup {EOF}
    <2>1. CASE n + 1 = length
        BY <2>1 DEF WellLinked
    <2>2. CASE n + 1 # length
        <3>1. n + 1 \in 0 .. (length - 1)
            BY <1>2, <2>2
        <3> QED
            BY <3>1 DEF WellLinked
    <2> QED
        BY <2>1, <2>2
<1> QED
    BY <1>1, <1>4, <1>5, <1>6, Marks

\* A chain depends on the links of its own clusters only.
LEMMA SameHops ==
    ASSUME NEW map \in MapType, NEW other \in MapType, NEW start \in Link,
           \A c \in Chain(map, start) : other[c] = map[c]
    PROVE  Hop(other, start) = Hop(map, start)
<1> DEFINE hop == Hop(map, start)
           new == Hop(other, start)
           S == {n \in 0 .. CLUSTER_MAP_SIZE : new[n] = hop[n]}
<1>1. CLUSTER_MAP_SIZE \in Nat
    BY Marks
<1>2. 0 \in S
    BY <1>1, HopDefined
<1>3. ASSUME NEW n \in 0 .. (CLUSTER_MAP_SIZE - 1), n \in S
      PROVE  n + 1 \in S
    <2>1. n + 1 \in 1 .. CLUSTER_MAP_SIZE /\ n + 1 - 1 = n /\ n \in 0 .. CLUSTER_MAP_SIZE
        BY <1>1
    <2>2. hop[n + 1] = IF hop[n] \in DataCluster THEN map[hop[n]] ELSE hop[n]
        BY <2>1, HopDefined
    <2>3. new[n + 1] = IF new[n] \in DataCluster THEN other[new[n]] ELSE new[n]
        BY <2>1, HopDefined
    <2>4. hop[n] \in DataCluster => hop[n] \in Chain(map, start)
        BY <2>1 DEF Chain
    <2>5. n + 1 \in 0 .. CLUSTER_MAP_SIZE
        BY <2>1
    <2> QED
        BY <1>3, <2>2, <2>3, <2>4, <2>5
<1>4. \A n \in 0 .. CLUSTER_MAP_SIZE : n \in S
    <2> HIDE DEF S
    <2> QED
        BY <1>1, <1>2, <1>3, BoundedInduction
<1>5. hop \in [0 .. CLUSTER_MAP_SIZE -> Link] /\ new \in [0 .. CLUSTER_MAP_SIZE -> Link]
    BY HopDefined
<1>6. \A n \in 0 .. CLUSTER_MAP_SIZE : new[n] = hop[n]
    BY <1>4
<1> HIDE DEF hop, new, S
<1>7. new = hop
    <2>1. new = [n \in 0 .. CLUSTER_MAP_SIZE |-> new[n]]
        BY <1>5
    <2>2. hop = [n \in 0 .. CLUSTER_MAP_SIZE |-> hop[n]]
        BY <1>5
    <2>3. [n \in 0 .. CLUSTER_MAP_SIZE |-> new[n]] = [n \in 0 .. CLUSTER_MAP_SIZE |-> hop[n]]
        BY <1>6
    <2> QED
        BY <2>1, <2>2, <2>3, Zenon
<1> QED
    BY <1>7 DEF hop, new

\* A chain of one cluster, as folders have.
LEMMA SingleCluster ==
    ASSUME NEW map \in MapType, NEW c \in DataCluster, map[c] = EOF
    PROVE  /\ WellLinked(map, c, 1)
           /\ EndsWell(map, c) /\ Chain(map, c) = {c}
<1> DEFINE hop == Hop(map, c)
<1>1. c \in Link /\ CLUSTER_MAP_SIZE \in Nat /\ CLUSTER_MAP_SIZE > 3
    BY Constants, Marks DEF Link
<1>2. 1 \in 1 .. CLUSTER_MAP_SIZE
    BY <1>1
<1>3. hop[0] = c /\ hop[1] = EOF
    <2>1. hop[0] = c
        BY <1>1, HopDefined
    <2>2. hop[1] = IF hop[1 - 1] \in DataCluster THEN map[hop[1 - 1]] ELSE hop[1 - 1]
        BY <1>1, <1>2, HopDefined
    <2> QED
        BY <2>1, <2>2
<1>4. 0 .. (1 - 1) = {0}
    OBVIOUS
<1>5. WellLinked(map, c, 1)
    BY <1>2, <1>3, <1>4 DEF WellLinked
<1> QED
    BY <1>1, <1>3, <1>4, <1>5, PastTheEnd

\* The first free clusters are different ones.
LEMMA LocationsDiffer ==
    ASSUME NEW amount \in Nat, NEW locations \in Locations(amount),
           NEW j \in 1 .. amount, NEW k \in 1 .. amount, locations[j] = locations[k]
    PROVE  j = k
<1>1. \A m \in 1 .. amount : \A c \in FreeCluster(cluster_map) :
          c < locations[m] <=> \E n \in 1 .. (m - 1) : c = locations[n]
    BY DEF Locations
<1>2. \A m \in 1 .. amount : locations[m] \in FreeCluster(cluster_map) /\ locations[m] \in Nat
    BY DEF Locations, FreeCluster, DataCluster
<1>3. ASSUME NEW m \in 1 .. amount, NEW n \in 1 .. amount, n < m
      PROVE  locations[n] < locations[m]
    <2>1. n \in 1 .. (m - 1)
        BY <1>3
    <2> QED
        BY <1>1, <1>2, <2>1
<1>4. j < k \/ k < j \/ j = k
    OBVIOUS
<1> QED
    BY <1>2, <1>3, <1>4

\* What LinkChain makes of them is a chain of all of them in order.
LEMMA LinkedChain ==
    ASSUME IInv, NEW amount \in 1 .. CLUSTER_MAP_SIZE, NEW locations \in Locations(amount)
    PROVE  LET map == LinkChain(locations)
           IN  /\ \A n \in 0 .. (amount - 1) :
                    Hop(map, locations[1])[n] = locations[n + 1]
               /\ WellLinked(map, locations[1], amount)
               /\ Chain(map, locations[1]) = {locations[j] : j \in 1 .. amount}
               /\ \A c \in Cluster :
                    c \notin {locations[j] : j \in 1 .. amount} =>
                        map[c] = cluster_map[c]
<1> DEFINE map == LinkChain(locations)
           hop == Hop(map, locations[1])
           S == {n \in 0 .. CLUSTER_MAP_SIZE : n < amount => hop[n] = locations[n + 1]}
<1>1. amount \in Nat /\ CLUSTER_MAP_SIZE \in Nat /\ 1 \in 1 .. amount
    BY Marks
<1>2. /\ locations \in Seq(DataCluster) /\ Len(locations) = amount /\ map \in MapType
      /\ \A j \in 1 .. amount : locations[j] \in DataCluster
    BY <1>1, LinkedMap
<1>3. locations[1] \in Link
    BY <1>1, <1>2, Constants DEF Link
<1>4. ASSUME NEW j \in 1 .. amount
      PROVE  map[locations[j]] = IF j = amount THEN EOF ELSE locations[j + 1]
    <2>1. locations[j] \in Cluster /\ \E k \in 1 .. Len(locations) : locations[k] = locations[j]
        BY <1>2, Constants
    <2> DEFINE k == CHOOSE k \in 1 .. Len(locations) : locations[k] = locations[j]
    <2>2. k \in 1 .. amount /\ locations[k] = locations[j]
        BY <1>2, <2>1
    <2>3. k = j
        <3> HIDE DEF k
        <3> QED
            BY <1>1, <2>2, LocationsDiffer
    <2>4. map[locations[j]] = IF k = amount THEN EOF ELSE locations[k + 1]
        BY <1>2, <2>1 DEF LinkChain
    <2> HIDE DEF k
    <2> QED
        BY <2>3, <2>4
<1>5. \A c \in Cluster : c \notin {locations[j] : j \in 1 .. amount} => map[c] = cluster_map[c]
    BY <1>2 DEF LinkChain
<1> HIDE DEF map
<1>6. hop[0] = locations[1]
    BY <1>2, <1>3, HopDefined
<1>7. ASSUME NEW n \in 0 .. (CLUSTER_MAP_SIZE - 1), n < amount, hop[n] = locations[n + 1]
      PROVE  hop[n + 1] = IF n + 1 = amount THEN EOF ELSE locations[n + 2]
    <2>1. n + 1 \in 1 .. CLUSTER_MAP_SIZE /\ n + 1 - 1 = n /\ n + 1 \in 1 .. amount
        BY <1>1, <1>7
    <2>2. hop[n + 1] = IF hop[n] \in DataCluster THEN map[hop[n]] ELSE hop[n]
        BY <1>2, <1>3, <2>1, HopDefined
    <2>3. hop[n] \in DataCluster
        BY <1>2, <1>7, <2>1
    <2>4. map[locations[n + 1]] = IF n + 1 = amount THEN EOF ELSE locations[n + 1 + 1]
        BY <1>4, <2>1
    <2> QED
        BY <1>7, <2>2, <2>3, <2>4
<1> HIDE DEF hop
<1>8. 0 \in S
    BY <1>1, <1>6
<1>9. ASSUME NEW n \in 0 .. (CLUSTER_MAP_SIZE - 1), n \in S PROVE n + 1 \in S
    <2>1. n + 1 \in 0 .. CLUSTER_MAP_SIZE
        BY <1>1
    <2>2. CASE n + 1 < amount
        <3>1. n < amount /\ n + 1 # amount
            BY <1>1, <2>2
        <3> QED
            BY <1>7, <1>9, <2>1, <3>1
    <2> QED
        BY <2>1, <2>2
<1>10. \A n \in 0 .. CLUSTER_MAP_SIZE : n \in S
    <2> HIDE DEF S
    <2> QED
        BY <1>1, <1>8, <1>9, BoundedInduction
<1>11. \A n \in 0 .. (amount - 1) : hop[n] = locations[n + 1] /\ hop[n] \in DataCluster
    <2> TAKE n \in 0 .. (amount - 1)
    <2>1. n \in 0 .. CLUSTER_MAP_SIZE /\ n < amount /\ n + 1 \in 1 .. amount
        BY <1>1
    <2> QED
        BY <1>2, <1>10, <2>1
<1>12. hop[amount] = EOF
    <2>1. amount - 1 \in 0 .. (CLUSTER_MAP_SIZE - 1) /\ amount - 1 < amount
          /\ amount - 1 \in 0 .. (amount - 1) /\ amount - 1 + 1 = amount
        BY <1>1
    <2> QED
        BY <1>7, <1>11, <2>1
<1>13. WellLinked(map, locations[1], amount)
    BY <1>11, <1>12 DEF WellLinked, hop
<1>14. Chain(map, locations[1]) = {locations[j] : j \in 1 .. amount}
    <2>1. Chain(map, locations[1]) = {hop[n] : n \in 0 .. (amount - 1)}
        BY <1>2, <1>3, <1>13, PastTheEnd DEF hop
    <2>2. \A j \in 1 .. amount : j - 1 \in 0 .. (amount - 1) /\ j - 1 + 1 = j
        BY <1>1
    <2>3. \A n \in 0 .. (amount - 1) : n + 1 \in 1 .. amount
        BY <1>1
    <2> QED
        BY <1>11, <2>1, <2>2, <2>3
<1> QED
    BY <1>5, <1>11, <1>13, <1>14 DEF hop, map

-----------------------------------------------------------------------------
(* Directories *)

\* The levels of the tree below a directory: each is the one above and its folders.
LevelsOf(level, contents, dir) ==
    level = [n \in 0 .. CLUSTER_MAP_SIZE |->
                IF n = 0 THEN {dir} ELSE WithSubfolders(contents, level[n - 1])]

\* The entry in a slot of a directory, and whether it is a file's or a folder's.
Slot(contents, d, j) == AsTable(contents[d])[j]
FileAt(contents, d, j) == Slot(contents, d, j).live /\ ~Slot(contents, d, j).folder
FolderAt(contents, d, j) == Slot(contents, d, j).live /\ Slot(contents, d, j).folder

\* What WithSubfolders adds are tables that live folder entries lead to.
LEMMA SubfolderIs ==
    ASSUME NEW contents, NEW dirs, NEW c \in WithSubfolders(contents, dirs), c \notin dirs
    PROVE  \E d \in dirs, j \in ChildIndex :
              /\ FolderAt(contents, d, j) /\ Slot(contents, d, j).cluster = c
              /\ contents[c].kind = "table"
BY DEF WithSubfolders, FolderAt, Slot

\* It adds all of them.
LEMMA SubfolderIsAdded ==
    ASSUME NEW contents, NEW dirs, NEW d \in dirs, NEW j \in ChildIndex,
           FolderAt(contents, d, j),
           contents[Slot(contents, d, j).cluster].kind = "table"
    PROVE  Slot(contents, d, j).cluster \in WithSubfolders(contents, dirs)
BY DEF WithSubfolders, FolderAt, Slot

\* It leaves out none it was given.
LEMMA SubfoldersKeep ==
    ASSUME NEW contents, NEW dirs
    PROVE  dirs \subseteq WithSubfolders(contents, dirs)
BY DEF WithSubfolders

\* Every slot of a disk's cluster, read as a table, holds an entry.
LEMMA SlotIsEntry ==
    ASSUME NEW contents \in [Cluster -> Content], NEW d \in Cluster, NEW j \in Index
    PROVE  Slot(contents, d, j) \in SafeEntry
<1>1. AsTable(contents[d]) \in [Index -> SafeEntry]
    BY ReadAsTable DEF TableType
<1> QED
    BY <1>1 DEF Slot

Level(contents, dir) ==
    CHOOSE level : LevelsOf(level, contents, dir)

\* The levels exist, and each is a set of clusters.
LEMMA LevelsDefined ==
    ASSUME NEW contents \in [Cluster -> Content], NEW dir \in Cluster
    PROVE  LET level == Level(contents, dir)
           IN  /\ DirectoriesBelow(contents, dir) = level[CLUSTER_MAP_SIZE]
               /\ level[0] = {dir}
               /\ \A n \in 0 .. CLUSTER_MAP_SIZE : level[n] \subseteq Cluster
               /\ \A n \in 0 .. (CLUSTER_MAP_SIZE - 1) :
                    level[n + 1] = WithSubfolders(contents, level[n])
<1> DEFINE next == [dirs \in SUBSET Cluster |-> WithSubfolders(contents, dirs)]
           level == Level(contents, dir)
           N == CLUSTER_MAP_SIZE
           start == {dir}
<1>1. next \in [SUBSET Cluster -> SUBSET Cluster] /\ start \in SUBSET Cluster
    <2> SUFFICES ASSUME NEW dirs \in SUBSET Cluster
                 PROVE  WithSubfolders(contents, dirs) \subseteq Cluster
        OBVIOUS
    <2>1. ASSUME NEW c \in WithSubfolders(contents, dirs), c \notin dirs
          PROVE  c \in Cluster
        <3>1. PICK d \in dirs, j \in ChildIndex :
                  FolderAt(contents, d, j) /\ Slot(contents, d, j).cluster = c
            BY <2>1, SubfolderIs
        <3>2. Slot(contents, d, j) \in SafeEntry
            BY SlotIsEntry, Constants
        <3> QED
            BY <3>1, <3>2 DEF SafeEntry, Entry
    <2> QED
        BY <2>1
<1>2. N \in Nat
    BY Marks
<1> HIDE DEF N
<1>3. \E f : Iterates(f, next, start, N)
    <2> HIDE DEF next, start
    <2> QED
        BY <1>1, <1>2, IterationExists
<1>4. ASSUME NEW f, Iterates(f, next, start, N)
      PROVE  LevelsOf(f, contents, dir)
    <2>1. /\ f \in [0 .. N -> SUBSET Cluster] /\ f[0] = start
          /\ \A n \in 1 .. N : f[n] = next[f[n - 1]]
        <3> DEFINE X == SUBSET Cluster
        <3>1. next \in [X -> X] /\ start \in X
            BY <1>1
        <3> HIDE DEF next, start, X
        <3>2. f \in [0 .. N -> X] /\ f[0] = start /\ \A n \in 1 .. N : f[n] = next[f[n - 1]]
            BY <1>2, <1>4, <3>1, IterationObeys
        <3> QED
            BY <3>2 DEF X
    <2>2. \A n \in 0 .. N : f[n] = IF n = 0 THEN {dir} ELSE WithSubfolders(contents, f[n - 1])
        <3> TAKE n \in 0 .. N
        <3>1. CASE n = 0
            BY <2>1, <3>1
        <3>2. CASE n # 0
            <4>1. n \in 1 .. N /\ n - 1 \in 0 .. N
                BY <1>2, <3>2
            <4>2. f[n - 1] \in SUBSET Cluster
                BY <2>1, <4>1
            <4> QED
                BY <2>1, <3>2, <4>1, <4>2
        <3> QED
            BY <3>1, <3>2
    <2> HIDE DEF next, start
    <2>3. f = [n \in 0 .. N |-> f[n]]
        BY <2>1
    <2>4. [n \in 0 .. N |-> f[n]] =
          [n \in 0 .. N |-> IF n = 0 THEN {dir} ELSE WithSubfolders(contents, f[n - 1])]
        BY <2>2
    <2> QED
        BY <2>3, <2>4 DEF LevelsOf, N
<1>5. LevelsOf(level, contents, dir)
    BY <1>3, <1>4 DEF Level
<1>6. DirectoriesBelow(contents, dir) = level[N]
    BY DEF DirectoriesBelow, Level, LevelsOf, N
<1> DEFINE e(n) == IF n = 0 THEN {dir} ELSE WithSubfolders(contents, level[n - 1])
<1>7. \A n \in 0 .. N : level[n] = e(n)
    <2>1. level = [n \in 0 .. N |-> e(n)]
        BY <1>5 DEF LevelsOf, N
    <2> HIDE DEF e, level
    <2> QED
        BY <2>1
<1>8. level[0] = {dir}
    BY <1>2, <1>7
<1>9. ASSUME NEW n \in 0 .. (N - 1)
      PROVE  level[n + 1] = WithSubfolders(contents, level[n])
    <2>1. n + 1 \in 0 .. N /\ n + 1 # 0 /\ n + 1 - 1 = n
        BY <1>2
    <2>2. level[n + 1] = e(n + 1)
        BY <1>7, <2>1
    <2> QED
        BY <2>1, <2>2
<1> DEFINE S == {n \in 0 .. N : level[n] \subseteq Cluster}
<1> HIDE DEF level, e
<1>10. 0 \in S
    BY <1>2, <1>8
<1>11. ASSUME NEW n \in 0 .. (N - 1), n \in S PROVE n + 1 \in S
    <2>1. n + 1 \in 0 .. N
        BY <1>2
    <2>2. level[n] \in SUBSET Cluster
        BY <1>11
    <2>3. WithSubfolders(contents, level[n]) \subseteq Cluster
        BY <1>1, <2>2
    <2> QED
        BY <1>9, <2>1, <2>3
<1>12. \A n \in 0 .. N : n \in S
    <2> HIDE DEF S
    <2> QED
        BY <1>2, <1>10, <1>11, BoundedInduction
<1> QED
    BY <1>6, <1>8, <1>9, <1>12 DEF level, N

\* A set of directories that no live entry of a folder leads out of.
Closed(contents, dirs) ==
    \A d \in dirs, j \in ChildIndex :
        FolderAt(contents, d, j) => Slot(contents, d, j).cluster \in dirs

\* All directories below one are in any closed set that has it.
LEMMA DirectoriesAreIn ==
    ASSUME NEW contents \in [Cluster -> Content], NEW dirs \in SUBSET Cluster,
           NEW dir \in dirs, Closed(contents, dirs)
    PROVE  DirectoriesBelow(contents, dir) \subseteq dirs
<1> DEFINE level == Level(contents, dir)
           N == CLUSTER_MAP_SIZE
           S == {n \in 0 .. N : level[n] \subseteq dirs}
<1>1. N \in Nat /\ dir \in Cluster
    BY Marks
<1>2. /\ DirectoriesBelow(contents, dir) = level[N] /\ level[0] = {dir}
      /\ \A n \in 0 .. (N - 1) : level[n + 1] = WithSubfolders(contents, level[n])
    BY <1>1, LevelsDefined
<1> HIDE DEF level, N
<1>3. 0 \in S
    BY <1>1, <1>2
<1>4. ASSUME NEW n \in 0 .. (N - 1), n \in S PROVE n + 1 \in S
    <2>1. n + 1 \in 0 .. N
        BY <1>1
    <2>2. level[n] \subseteq dirs
        BY <1>4
    <2>3. WithSubfolders(contents, level[n]) \subseteq dirs
        <3> SUFFICES ASSUME NEW c \in WithSubfolders(contents, level[n]), c \notin level[n]
                     PROVE  c \in dirs
            BY <2>2
        <3>1. PICK d \in level[n], j \in ChildIndex :
                  FolderAt(contents, d, j) /\ Slot(contents, d, j).cluster = c
            BY SubfolderIs
        <3> QED
            BY <2>2, <3>1 DEF Closed
    <2> QED
        BY <1>2, <2>1, <2>3
<1>5. \A n \in 0 .. N : n \in S
    <2> HIDE DEF S
    <2> QED
        BY <1>1, <1>3, <1>4, BoundedInduction
<1> QED
    BY <1>1, <1>2, <1>5

-----------------------------------------------------------------------------
(* Writes that reach a disk *)

\* The last write to a cluster is what it holds.
LEMMA LastWrite ==
    ASSUME NEW contents, NEW writes, NEW k \in Nat, NEW c \in Cluster
    PROVE  /\ (\A j \in 1 .. k : writes[j][1] # c) =>
                    Written(contents, writes, k)[c] = contents[c]
           /\ \A j \in 1 .. k :
                /\ writes[j][1] = c
                /\ \A i \in 1 .. k : writes[i][1] = c => i <= j
                => Written(contents, writes, k)[c] = writes[j][2]
<1> DEFINE to == {j \in 1 .. k : writes[j][1] = c}
           last == CHOOSE j \in to : \A i \in to : i <= j
<1>1. Written(contents, writes, k)[c] = IF to = {} THEN contents[c] ELSE writes[last][2]
    BY DEF Written
<1>2. (\A j \in 1 .. k : writes[j][1] # c) => to = {}
    OBVIOUS
<1>3. ASSUME NEW j \in 1 .. k, writes[j][1] = c,
             \A i \in 1 .. k : writes[i][1] = c => i <= j
      PROVE  Written(contents, writes, k)[c] = writes[j][2]
    <2>1. j \in to /\ \A i \in to : i <= j
        BY <1>3
    <2>2. last \in to /\ \A i \in to : i <= last
        BY <2>1
    <2>3. last = j
        <3> HIDE DEF last
        <3> QED
            BY <2>1, <2>2
    <2> HIDE DEF last, to
    <2> QED
        BY <1>1, <2>1, <2>3
<1> HIDE DEF last, to
<1> QED
    BY <1>1, <1>2, <1>3

\* One write more.
LEMMA OneMoreWrite ==
    ASSUME NEW contents, DOMAIN contents = Cluster, NEW writes, NEW k \in Nat
    PROVE  /\ Written(contents, writes, 0) = [c \in Cluster |-> contents[c]]
           /\ Written(contents, writes, k + 1) =
                [Written(contents, writes, k) EXCEPT ![writes[k + 1][1]] = writes[k + 1][2]]
<1> DEFINE old == Written(contents, writes, k)
           new == Written(contents, writes, k + 1)
           next == [old EXCEPT ![writes[k + 1][1]] = writes[k + 1][2]]
           zero == Written(contents, writes, 0)
<1>1. /\ old = [c \in Cluster |-> old[c]] /\ new = [c \in Cluster |-> new[c]]
      /\ zero = [c \in Cluster |-> zero[c]]
    BY DEF Written
<1>2. \A c \in Cluster : zero[c] = contents[c]
    BY LastWrite
<1>3. ASSUME NEW c \in Cluster PROVE new[c] = next[c]
    <2>1. CASE writes[k + 1][1] = c
        <3>1. new[c] = writes[k + 1][2]
            <4>1. k + 1 \in 1 .. k + 1 /\ \A i \in 1 .. k + 1 : i <= k + 1
                OBVIOUS
            <4> HIDE DEF new
            <4> QED
                BY <2>1, <4>1, LastWrite DEF new
        <3>2. next[c] = writes[k + 1][2]
            <4> HIDE DEF old
            <4> QED
                BY <1>1, <2>1
        <3> QED
            BY <3>1, <3>2
    <2>2. CASE writes[k + 1][1] # c
        <3>1. next[c] = old[c]
            <4> HIDE DEF old
            <4> QED
                BY <1>1, <2>2
        <3>2. CASE \A j \in 1 .. k : writes[j][1] # c
            <4>1. \A j \in 1 .. k + 1 : writes[j][1] # c
                BY <2>2, <3>2
            <4>2. old[c] = contents[c]
                BY <3>2, LastWrite
            <4>3. new[c] = contents[c]
                BY <4>1, LastWrite
            <4> QED
                BY <3>1, <4>2, <4>3
        <3>3. CASE \E j \in 1 .. k : writes[j][1] = c
            <4> DEFINE behind == {k - j : j \in {i \in 1 .. k : writes[i][1] = c}}
            <4>1. behind \in SUBSET Nat /\ behind # {}
                BY <3>3
            <4>2. PICK b \in behind : \A a \in behind : b <= a
                BY <4>1, HasLeast
            <4>3. PICK j \in 1 .. k : writes[j][1] = c /\ b = k - j
                BY <4>2
            <4>4. ASSUME NEW i \in 1 .. k, writes[i][1] = c PROVE i <= j
                <5>1. k - i \in behind
                    BY <4>4
                <5> HIDE DEF behind
                <5>2. k - j <= k - i
                    BY <4>2, <4>3, <5>1
                <5> QED
                    BY <5>2
            <4>5. j \in 1 .. k + 1 /\ \A i \in 1 .. k + 1 : writes[i][1] = c => i <= j
                BY <2>2, <4>4
            <4>6. old[c] = writes[j][2]
                BY <4>3, <4>4, LastWrite
            <4>7. new[c] = writes[j][2]
                BY <4>3, <4>5, LastWrite
            <4> QED
                BY <3>1, <4>6, <4>7
        <3> QED
            BY <3>2, <3>3
    <2> QED
        BY <2>1, <2>2
<1>4. DOMAIN old = Cluster
    BY <1>1
<1> HIDE DEF old, new, zero
<1>5. next = [c \in Cluster |-> next[c]]
    BY <1>4
<1>6. new = next
    <2>1. [c \in Cluster |-> new[c]] = [c \in Cluster |-> next[c]]
        BY <1>3
    <2> QED
        BY <1>1, <1>5, <2>1, Zenon
<1> QED
    BY <1>1, <1>2, <1>6 DEF old, new, zero

\* Writes of clusters keep a disk a disk.
LEMMA DiskStays ==
    ASSUME NEW contents \in [Cluster -> Content], NEW writes \in Seq(Cluster \X Content)
    PROVE  /\ Written(contents, writes, 0) = contents
           /\ \A k \in 0 .. Len(writes) :
                Written(contents, writes, k) \in [Cluster -> Content]
<1> DEFINE N == Len(writes)
           S == {k \in 0 .. N : Written(contents, writes, k) \in [Cluster -> Content]}
<1>1. Written(contents, writes, 0) = contents
    <2>1. Written(contents, writes, 0) = [c \in Cluster |-> contents[c]]
        BY OneMoreWrite
    <2> QED
        BY <2>1
<1>2. N \in Nat /\ 0 \in S
    BY <1>1
<1>3. ASSUME NEW k \in 0 .. (N - 1), k \in S PROVE k + 1 \in S
    <2>1. k \in Nat /\ k + 1 \in 1 .. N /\ k + 1 \in 0 .. N
        BY <1>2
    <2>2. writes[k + 1] \in Cluster \X Content
        BY <2>1
    <2>3. Written(contents, writes, k + 1) =
              [Written(contents, writes, k) EXCEPT ![writes[k + 1][1]] = writes[k + 1][2]]
        BY <2>1, OneMoreWrite
    <2>4. Written(contents, writes, k) \in [Cluster -> Content]
        BY <1>3
    <2> QED
        BY <2>1, <2>2, <2>3, <2>4
<1>4. \A k \in 0 .. N : k \in S
    <2> HIDE DEF S, N
    <2> QED
        BY <1>2, <1>3, BoundedInduction
<1> QED
    BY <1>1, <1>4

\* Once a call's first write has reached the disk the others are still to come.
LEMMA OneWriteLess ==
    ASSUME NEW contents \in [Cluster -> Content],
           NEW writes \in Seq(Cluster \X Content), writes # <<>>
    PROVE  LET new == [contents EXCEPT ![Head(writes)[1]] = Head(writes)[2]]
           IN  \A k \in 0 .. Len(Tail(writes)) :
                  Written(new, Tail(writes), k) = Written(contents, writes, k + 1)
<1> DEFINE new == [contents EXCEPT ![Head(writes)[1]] = Head(writes)[2]]
           rest == Tail(writes)
           N == Len(rest)
           S == {k \in 0 .. N : Written(new, rest, k) = Written(contents, writes, k + 1)}
<1>1. /\ Head(writes) = writes[1] /\ rest \in Seq(Cluster \X Content)
      /\ N \in Nat /\ N + 1 = Len(writes)
      /\ \A k \in 1 .. N : rest[k] = writes[k + 1]
      /\ Head(writes) \in Cluster \X Content
    BY HeadTailProperties, EmptySeq
<1>2. new \in [Cluster -> Content]
    BY <1>1
<1>3. 0 \in S
    <2>1. Written(new, rest, 0) = new
        <3> HIDE DEF new, rest
        <3> QED
            BY <1>1, <1>2, DiskStays
    <2>2. Written(contents, writes, 0) = contents
        BY DiskStays
    <2>3. Written(contents, writes, 1) = new
        <3>1. PICK k \in Nat : k = 0 /\ k + 1 = 1
            OBVIOUS
        <3>2. DOMAIN contents = Cluster
            OBVIOUS
        <3>3. Written(contents, writes, k + 1) =
                  [Written(contents, writes, k) EXCEPT ![writes[k + 1][1]] = writes[k + 1][2]]
            BY <3>2, OneMoreWrite
        <3> QED
            BY <1>1, <2>2, <3>1, <3>3
    <2>4. 0 \in 0 .. N /\ 0 + 1 = 1
        BY <1>1
    <2> HIDE DEF new, rest, N
    <2> QED
        BY <2>1, <2>3, <2>4
<1>4. ASSUME NEW k \in 0 .. (N - 1), k \in S PROVE k + 1 \in S
    <2>1. k \in Nat /\ k + 1 \in Nat /\ k + 1 \in 1 .. N /\ k + 1 \in 0 .. N
        BY <1>1
    <2>2. rest[k + 1] = writes[k + 1 + 1]
        BY <1>1, <2>1
    <2>3. Written(new, rest, k + 1) =
              [Written(new, rest, k) EXCEPT ![rest[k + 1][1]] = rest[k + 1][2]]
        <3>1. DOMAIN new = Cluster
            BY <1>2
        <3> HIDE DEF new, rest
        <3> QED
            BY <2>1, <3>1, OneMoreWrite
    <2>4. Written(contents, writes, k + 1 + 1) =
              [Written(contents, writes, k + 1) EXCEPT
                  ![writes[k + 1 + 1][1]] = writes[k + 1 + 1][2]]
        <3>1. DOMAIN contents = Cluster
            OBVIOUS
        <3> QED
            BY <2>1, <3>1, OneMoreWrite
    <2>5. Written(new, rest, k) = Written(contents, writes, k + 1)
        BY <1>4
    <2> HIDE DEF new, rest, N
    <2>6. Written(new, rest, k + 1) = Written(contents, writes, k + 1 + 1)
        BY <2>2, <2>3, <2>4, <2>5
    <2> QED
        BY <2>1, <2>6
<1>5. \A k \in 0 .. N : k \in S
    <2> HIDE DEF S, N
    <2> QED
        BY <1>1, <1>3, <1>4, BoundedInduction
<1> QED
    BY <1>5

-----------------------------------------------------------------------------
(* A sound disk *)

\* A set of directories is the tree below the root: every table's two own
\* entries are as it was made, live folder entries lead to the other tables one
\* to one, and nothing smaller has the root and what its folders lead to.
Tree(contents, dirs) ==
    /\ ROOT_CLUSTER_NUMBER \in dirs
    /\ dirs \subseteq DataCluster \cup {ROOT_CLUSTER_NUMBER}
    /\ \A d \in dirs : contents[d].kind = "table"
    /\ \A d \in dirs : Slot(contents, d, 1).name = ParentName
    /\ Slot(contents, ROOT_CLUSTER_NUMBER, 0).name = RootName
    /\ \A d \in dirs \ {ROOT_CLUSTER_NUMBER} :
          /\ Slot(contents, d, 0).folder
          /\ \E b \in dirs, j \in ChildIndex :
                /\ FolderAt(contents, b, j) /\ Slot(contents, b, j).cluster = d
                /\ Slot(contents, d, 0).cluster = b
    /\ \A d \in dirs, j \in ChildIndex :
          FolderAt(contents, d, j) =>
              Slot(contents, d, j).cluster \in dirs \ {ROOT_CLUSTER_NUMBER}
    /\ \A d, b \in dirs, j, i \in ChildIndex :
          /\ FolderAt(contents, d, j) /\ FolderAt(contents, b, i)
          /\ Slot(contents, d, j).cluster = Slot(contents, b, i).cluster
          => d = b /\ j = i
    /\ \A some \in SUBSET dirs :
          ROOT_CLUSTER_NUMBER \in some /\ Closed(contents, some) => some = dirs

\* What files may hold, by the number of the block: one whole writing, or the
\* first blocks of one and nothing behind them.
WholeTexts == {[j \in Nat \ {0} |-> Data(tag, j)] : tag \in Tags}

PaddedTexts ==
    {[j \in Nat \ {0} |-> IF j <= n THEN Data(tag, j) ELSE Blank] :
        tag \in Tags, n \in Nat \ {0}}

\* A file's entry: it starts a chain of as many clusters as write() links, none
\* of them a directory, with the blocks of one of these texts in them.
IsFile(texts, contents, map, dirs, entry) ==
    /\ entry.filesize \in FileSizes
    /\ WellLinked(map, entry.cluster, ClusterAmount(entry.filesize))
    /\ Chain(map, entry.cluster) \cap dirs = {}
    /\ \E text \in texts : \A j \in 1 .. ClustersFor(entry.filesize) :
          contents[Hop(map, entry.cluster)[j - 1]] = text[j]

\* The allocation table has a cluster for each directory and a chain for each
\* file, and no cluster is in two of them.
Chains(texts, contents, map, dirs) ==
    /\ \A d \in dirs : map[d] = EOF
    /\ \A d \in dirs, j \in ChildIndex :
          FileAt(contents, d, j) => IsFile(texts, contents, map, dirs, Slot(contents, d, j))
    /\ \A d, b \in dirs, j, i \in ChildIndex, c \in DataCluster :
          /\ FileAt(contents, d, j) /\ c \in Chain(map, Slot(contents, d, j).cluster)
          /\ FileAt(contents, b, i) /\ c \in Chain(map, Slot(contents, b, i).cluster)
          => d = b /\ j = i

\* Clients gave every live entry its name.
Labelled(contents, dirs) ==
    \A d \in dirs, j \in ChildIndex :
        Slot(contents, d, j).live => Slot(contents, d, j).name \in Names

Good(texts, contents, dirs) ==
    /\ contents[BOOT_SECTOR] = Signature
    /\ MapOn(contents) \in MapType
    /\ Tree(contents, dirs)
    /\ Labelled(contents, dirs)
    /\ Chains(texts, contents, MapOn(contents), dirs)

\* The clusters directories and files have.
Used(contents, map, dirs) ==
    {c \in Cluster :
        \/ c \in dirs
        \/ \E d \in dirs, j \in ChildIndex :
              FileAt(contents, d, j) /\ c \in Chain(map, Slot(contents, d, j).cluster)}

\* Every other cluster is free.
Full(contents, dirs) ==
    \A c \in DataCluster :
        MapOn(contents)[c] # EMPTY => c \in Used(contents, MapOn(contents), dirs)

\* A whole text has the blocks of one writing.
LEMMA WholeTextIs ==
    ASSUME NEW text \in WholeTexts
    PROVE  \E tag \in Tags : \A count \in Nat : \A j \in 1 .. count : text[j] = Data(tag, j)
BY DEF WholeTexts

\* A file has at least the clusters its blocks need, and at most one more.
LEMMA BlocksFit ==
    ASSUME NEW size \in FileSizes
    PROVE  /\ ClusterAmount(size) \in Nat \ {0}
           /\ ClustersFor(size) \in Nat /\ ClustersFor(size) \in 1 .. ClusterAmount(size)
           /\ size % CLUSTER_SIZE # 0 => ClustersFor(size) = ClusterAmount(size)
<1>1. size \in Nat \ {0} /\ CLUSTER_SIZE \in Nat \ {0}
    BY FAT32Assumption DEF FAT32Assumption
<1> QED
    BY <1>1 DEF ClustersFor, ClusterAmount

\* A used cluster is not free in the table, and not one of the system's own two.
LEMMA UsedIsTaken ==
    ASSUME NEW texts, NEW contents \in [Cluster -> Content], NEW dirs, Good(texts, contents, dirs),
           NEW c \in Used(contents, MapOn(contents), dirs)
    PROVE  /\ MapOn(contents)[c] # EMPTY
           /\ c \in DataCluster \cup {ROOT_CLUSTER_NUMBER}
<1> DEFINE map == MapOn(contents)
<1>1. CASE c \in dirs
    <2>1. map[c] = EOF /\ dirs \subseteq DataCluster \cup {ROOT_CLUSTER_NUMBER}
        BY <1>1 DEF Good, Chains, Tree
    <2> QED
        BY <1>1, <2>1, Marks
<1>2. CASE c \notin dirs
    <2>1. PICK d \in dirs, j \in ChildIndex :
              FileAt(contents, d, j) /\ c \in Chain(map, Slot(contents, d, j).cluster)
        BY <1>2 DEF Used
    <2> DEFINE entry == Slot(contents, d, j)
    <2>2. map \in MapType /\ dirs \subseteq Cluster
        BY Constants DEF Good, Tree
    <2>3. entry.cluster \in Link
        <3>1. entry \in SafeEntry
            BY <2>2, SlotIsEntry, Constants
        <3> HIDE DEF entry
        <3> QED
            BY <3>1 DEF SafeEntry, Entry, Link
    <2>4. WellLinked(map, entry.cluster, ClusterAmount(entry.filesize))
        BY <2>1 DEF Good, Chains, IsFile
    <2> HIDE DEF entry, map
    <2>5. c \in Chain(map, entry.cluster)
        BY <2>1 DEF entry
    <2>6. c \in DataCluster /\ map[c] # EMPTY
        BY <2>2, <2>3, <2>4, <2>5, ChainIsTaken
    <2> QED
        BY <2>6 DEF map
<1> QED
    BY <1>1, <1>2

\* Clusters nobody uses may change, on the disk and in the table.
LEMMA UnusedMayChange ==
    ASSUME NEW texts, NEW contents \in [Cluster -> Content], NEW dirs, Good(texts, contents, dirs),
           NEW new \in [Cluster -> Content], MapOn(new) \in MapType,
           new[BOOT_SECTOR] = Signature,
           \A c \in Used(contents, MapOn(contents), dirs) :
              new[c] = contents[c] /\ MapOn(new)[c] = MapOn(contents)[c]
    PROVE  /\ Good(texts, new, dirs)
           /\ Used(new, MapOn(new), dirs) = Used(contents, MapOn(contents), dirs)
<1> DEFINE map == MapOn(contents)
           map2 == MapOn(new)
<1>1. map \in MapType /\ map2 \in MapType /\ dirs \subseteq Cluster /\ Tree(contents, dirs)
    BY Constants DEF Good, Tree
<1>2. \A d \in dirs : new[d] = contents[d] /\ map2[d] = map[d]
    BY <1>1 DEF Used
<1>3. \A d \in dirs : \A j : Slot(new, d, j) = Slot(contents, d, j)
    BY <1>2 DEF Slot
<1>4. \A d \in dirs : \A j : /\ FileAt(new, d, j) <=> FileAt(contents, d, j)
                             /\ FolderAt(new, d, j) <=> FolderAt(contents, d, j)
    BY <1>3 DEF FileAt, FolderAt
<1>5. ASSUME NEW some \in SUBSET dirs
      PROVE  Closed(new, some) <=> Closed(contents, some)
    BY <1>3, <1>4 DEF Closed
<1>6. Tree(new, dirs)
    BY <1>1, <1>2, <1>3, <1>4, <1>5 DEF Tree
<1>7. ASSUME NEW d \in dirs, NEW j \in ChildIndex, FileAt(contents, d, j)
      PROVE  LET start == Slot(contents, d, j).cluster
             IN  /\ Hop(map2, start) = Hop(map, start)
                 /\ Chain(map2, start) = Chain(map, start)
                 /\ IsFile(texts, new, map2, dirs, Slot(contents, d, j))
    <2> DEFINE entry == Slot(contents, d, j)
               start == entry.cluster
               amount == ClusterAmount(entry.filesize)
    <2>1. IsFile(texts, contents, map, dirs, entry)
        BY <1>7 DEF Good, Chains
    <2>2. start \in Link
        <3>1. entry \in SafeEntry
            BY <1>1, SlotIsEntry, Constants
        <3> HIDE DEF entry
        <3> QED
            BY <3>1 DEF SafeEntry, Entry, Link
    <2>3. \A c \in Chain(map, start) : map2[c] = map[c] /\ new[c] = contents[c]
        <3>1. Chain(map, start) \subseteq Cluster
            BY Constants DEF Chain
        <3> QED
            BY <1>7, <3>1 DEF Used
    <2> HIDE DEF entry, map, map2
    <2>4. Hop(map2, start) = Hop(map, start)
        BY <1>1, <2>2, <2>3, SameHops
    <2>5. Chain(map2, start) = Chain(map, start)
        BY <2>4 DEF Chain
    <2>6. WellLinked(map2, start, amount)
        BY <2>1, <2>4 DEF IsFile, WellLinked
    <2>7. \A i \in 1 .. ClustersFor(entry.filesize) :
              new[Hop(map2, start)[i - 1]] = contents[Hop(map, start)[i - 1]]
        <3> TAKE i \in 1 .. ClustersFor(entry.filesize)
        <3>1. entry.filesize \in FileSizes /\ WellLinked(map, start, amount)
            BY <2>1 DEF IsFile
        <3>2. i - 1 \in 0 .. (amount - 1)
            BY <3>1, BlocksFit
        <3>3. Hop(map, start)[i - 1] \in Chain(map, start)
            BY <1>1, <2>2, <3>1, <3>2, PastTheEnd
        <3> QED
            BY <2>3, <2>4, <3>3
    <2>8. IsFile(texts, new, map2, dirs, entry)
        BY <2>1, <2>5, <2>6, <2>7 DEF IsFile
    <2> QED
        BY <2>4, <2>5, <2>8 DEF entry
<1>8. Chains(texts, new, map2, dirs)
    <2>1. \A d \in dirs : map2[d] = EOF
        BY <1>2 DEF Good, Chains
    <2>2. ASSUME NEW d \in dirs, NEW j \in ChildIndex, FileAt(new, d, j)
          PROVE  IsFile(texts, new, map2, dirs, Slot(new, d, j))
        BY <1>3, <1>4, <1>7, <2>2
    <2>3. ASSUME NEW d \in dirs, NEW j \in ChildIndex, FileAt(new, d, j)
          PROVE  Chain(map2, Slot(new, d, j).cluster) = Chain(map, Slot(contents, d, j).cluster)
        BY <1>3, <1>4, <1>7, <2>3
    <2>4. ASSUME NEW d \in dirs, NEW b \in dirs, NEW j \in ChildIndex, NEW i \in ChildIndex,
                 NEW c \in DataCluster,
                 FileAt(new, d, j), c \in Chain(map2, Slot(new, d, j).cluster),
                 FileAt(new, b, i), c \in Chain(map2, Slot(new, b, i).cluster)
          PROVE  d = b /\ j = i
        BY <1>4, <2>3, <2>4 DEF Good, Chains
    <2> QED
        BY <2>1, <2>2, <2>4 DEF Chains
<1>9. Used(new, map2, dirs) = Used(contents, map, dirs)
    BY <1>3, <1>4, <1>7 DEF Used
<1>10. Labelled(new, dirs)
    BY <1>3 DEF Good, Labelled
<1> QED
    BY <1>6, <1>8, <1>9, <1>10 DEF Good

-----------------------------------------------------------------------------
(* A directory table with one entry changed *)

WithSlot(contents, d, i, entry) ==
    [contents EXCEPT ![d] = Table([AsTable(contents[d]) EXCEPT ![i] = entry])]

\* Nothing else changes.
LEMMA OneSlotChanges ==
    ASSUME NEW contents \in [Cluster -> Content], NEW dirs, Tree(contents, dirs),
           NEW d \in dirs, NEW i \in ChildIndex, NEW entry \in SafeEntry
    PROVE  LET new == WithSlot(contents, d, i, entry)
           IN  /\ new \in [Cluster -> Content]
               /\ MapOn(new) = MapOn(contents)
               /\ new[BOOT_SECTOR] = contents[BOOT_SECTOR]
               /\ \A c \in Cluster \ {d} : new[c] = contents[c]
               /\ new[d].kind = "table"
               /\ Slot(new, d, i) = entry
               /\ \A j \in Index \ {i} : Slot(new, d, j) = Slot(contents, d, j)
               /\ \A b \in Cluster \ {d} : \A j : Slot(new, b, j) = Slot(contents, b, j)
<1> DEFINE new == WithSlot(contents, d, i, entry)
           table == [AsTable(contents[d]) EXCEPT ![i] = entry]
<1>1. d \in Cluster /\ d # FAT_CLUSTER_NUMBER /\ d # BOOT_SECTOR /\ i \in Index
    BY Constants DEF Tree, DataCluster, BOOT_SECTOR, FAT_CLUSTER_NUMBER, ROOT_CLUSTER_NUMBER
<1>2. AsTable(contents[d]) \in [Index -> SafeEntry]
    BY <1>1, ReadAsTable DEF TableType
<1>3. table \in [Index -> SafeEntry] /\ table[i] = entry
      /\ \A j \in Index \ {i} : table[j] = AsTable(contents[d])[j]
    BY <1>1, <1>2
<1>4. new = [contents EXCEPT ![d] = Table(table)]
    BY DEF WithSlot
<1> HIDE DEF table, new
<1>5. Table(table) \in Content /\ Table(table).kind = "table" /\ Table(table).table = table
    BY <1>3, ContentKinds DEF Table, TableType
<1>6. new \in [Cluster -> Content] /\ new[d] = Table(table)
      /\ \A c \in Cluster \ {d} : new[c] = contents[c]
    BY <1>1, <1>4, <1>5
<1>7. MapOn(new) = MapOn(contents) /\ new[BOOT_SECTOR] = contents[BOOT_SECTOR]
    BY <1>1, <1>6, Constants DEF MapOn
<1>8. \A j : Slot(new, d, j) = table[j]
    BY <1>5, <1>6 DEF Slot, AsTable
<1>9. \A b \in Cluster \ {d} : \A j : Slot(new, b, j) = Slot(contents, b, j)
    BY <1>6 DEF Slot
<1> QED
    BY <1>3, <1>5, <1>6, <1>7, <1>8, <1>9 DEF new, Slot

\* Entries a good disk's files have.
LEMMA FilesAre ==
    ASSUME NEW texts, NEW contents \in [Cluster -> Content], NEW dirs, Good(texts, contents, dirs),
           NEW d \in dirs, NEW j \in ChildIndex, FileAt(contents, d, j)
    PROVE  LET map == MapOn(contents)
               entry == Slot(contents, d, j)
           IN  /\ entry \in SafeEntry /\ entry.cluster \in Link
               /\ IsFile(texts, contents, map, dirs, entry)
               /\ Chain(map, entry.cluster) \subseteq Used(contents, map, dirs)
<1> DEFINE entry == Slot(contents, d, j)
<1>1. dirs \subseteq Cluster
    BY Constants DEF Good, Tree
<1>2. entry \in SafeEntry
    BY <1>1, SlotIsEntry, Constants
<1>3. entry.cluster \in Link
    <2> HIDE DEF entry
    <2> QED
        BY <1>2 DEF SafeEntry, Entry, Link
<1>4. Chain(MapOn(contents), entry.cluster) \subseteq Cluster
    BY Constants DEF Chain
<1> QED
    BY <1>2, <1>3, <1>4 DEF Good, Chains, Used

\* A block of a file outside the directories stays what it is when they change.
LEMMA FileStays ==
    ASSUME NEW texts, NEW contents \in [Cluster -> Content], NEW new, NEW map \in MapType,
           NEW dirs, NEW entry \in SafeEntry, IsFile(texts, contents, map, dirs, entry),
           NEW dirs2, Chain(map, entry.cluster) \cap dirs2 = {},
           \A c \in Cluster \ dirs : new[c] = contents[c]
    PROVE  IsFile(texts, new, map, dirs2, entry)
<1> DEFINE start == entry.cluster
           amount == ClusterAmount(entry.filesize)
<1>1. start \in Link
    BY DEF SafeEntry, Entry, Link
<1>2. entry.filesize \in FileSizes /\ WellLinked(map, start, amount)
    BY DEF IsFile
<1>3. ASSUME NEW i \in 1 .. ClustersFor(entry.filesize)
      PROVE  new[Hop(map, start)[i - 1]] = contents[Hop(map, start)[i - 1]]
    <2>1. i - 1 \in 0 .. (amount - 1)
        BY <1>2, BlocksFit
    <2>2. Hop(map, start)[i - 1] \in Chain(map, start)
        BY <1>1, <1>2, <2>1, PastTheEnd
    <2>3. Hop(map, start)[i - 1] \in Cluster \ dirs
        BY <2>2, Constants DEF IsFile, Chain
    <2> QED
        BY <2>3
<1> QED
    BY <1>2, <1>3 DEF IsFile

\* Killing a file's entry, or changing a dead one into another, leaves a sound disk.
LEMMA FileKilled ==
    ASSUME NEW texts, NEW contents \in [Cluster -> Content], NEW dirs, Good(texts, contents, dirs),
           NEW d \in dirs, NEW i \in ChildIndex, ~FolderAt(contents, d, i),
           NEW entry \in SafeEntry, ~entry.live
    PROVE  LET new == WithSlot(contents, d, i, entry)
               map == MapOn(contents)
               chain == Chain(map, Slot(contents, d, i).cluster)
           IN  /\ new \in [Cluster -> Content] /\ Good(texts, new, dirs) /\ MapOn(new) = map
               /\ Used(new, map, dirs) =
                     IF FileAt(contents, d, i) THEN Used(contents, map, dirs) \ chain
                                               ELSE Used(contents, map, dirs)
<1> DEFINE new == WithSlot(contents, d, i, entry)
           map == MapOn(contents)
<1>1. /\ new \in [Cluster -> Content] /\ MapOn(new) = map
      /\ new[BOOT_SECTOR] = contents[BOOT_SECTOR]
      /\ \A c \in Cluster \ {d} : new[c] = contents[c]
      /\ new[d].kind = "table" /\ Slot(new, d, i) = entry
      /\ \A j \in Index \ {i} : Slot(new, d, j) = Slot(contents, d, j)
      /\ \A b \in Cluster \ {d} : \A j : Slot(new, b, j) = Slot(contents, b, j)
    BY OneSlotChanges DEF Good
<1>2. dirs \subseteq Cluster /\ map \in MapType /\ Tree(contents, dirs)
      /\ contents[BOOT_SECTOR] = Signature
    BY Constants DEF Good, Tree
<1> HIDE DEF new, map
<1>3. 0 \in Index \ {i} /\ 1 \in Index \ {i} /\ ChildIndex \subseteq Index
    BY Constants DEF ChildIndex
<1>4. \A b \in dirs : /\ Slot(new, b, 0) = Slot(contents, b, 0)
                     /\ Slot(new, b, 1) = Slot(contents, b, 1)
                     /\ new[b].kind = "table"
    BY <1>1, <1>2, <1>3 DEF Tree
<1>5. \A b \in dirs, j \in ChildIndex :
          b # d \/ j # i => Slot(new, b, j) = Slot(contents, b, j)
    BY <1>1, <1>2, <1>3
<1>6. ~FileAt(new, d, i) /\ ~FolderAt(new, d, i)
    BY <1>1 DEF FileAt, FolderAt
<1>7. \A b \in dirs, j \in ChildIndex :
          /\ FolderAt(new, b, j) <=> FolderAt(contents, b, j)
          /\ FolderAt(new, b, j) => Slot(new, b, j) = Slot(contents, b, j)
          /\ FileAt(new, b, j) <=> FileAt(contents, b, j) /\ ~(b = d /\ j = i)
          /\ FileAt(new, b, j) => Slot(new, b, j) = Slot(contents, b, j)
    BY <1>5, <1>6 DEF FileAt, FolderAt
<1>8. ASSUME NEW some \in SUBSET dirs
      PROVE  Closed(new, some) <=> Closed(contents, some)
    BY <1>7 DEF Closed
<1>9. Tree(new, dirs)
    BY <1>2, <1>4, <1>7, <1>8 DEF Tree
<1>10. Chains(texts, new, map, dirs)
    <2>1. ASSUME NEW b \in dirs, NEW j \in ChildIndex, FileAt(new, b, j)
          PROVE  IsFile(texts, new, map, dirs, Slot(new, b, j))
        <3>1. /\ Slot(new, b, j) \in SafeEntry
              /\ IsFile(texts, contents, map, dirs, Slot(new, b, j))
            BY <1>7, <2>1, FilesAre DEF map
        <3>2. Chain(map, Slot(new, b, j).cluster) \cap dirs = {}
            BY <3>1 DEF IsFile
        <3>3. \A c \in Cluster \ dirs : new[c] = contents[c]
            BY <1>1
        <3> QED
            BY <1>2, <3>1, <3>2, <3>3, FileStays
    <2> QED
        BY <1>7, <2>1 DEF Good, Chains, map
<1>11. Used(new, map, dirs) =
          IF FileAt(contents, d, i)
          THEN Used(contents, map, dirs) \ Chain(map, Slot(contents, d, i).cluster)
          ELSE Used(contents, map, dirs)
    <2>1. CASE ~FileAt(contents, d, i)
        BY <1>7, <2>1 DEF Used
    <2>2. CASE FileAt(contents, d, i)
        <3>1. Chain(map, Slot(contents, d, i).cluster) \cap dirs = {}
            <4>1. IsFile(texts, contents, map, dirs, Slot(contents, d, i))
                BY ONLY Good(texts, contents, dirs), <2>2, contents \in [Cluster -> Content],
                        d \in dirs, i \in ChildIndex, FilesAre DEF map
            <4> QED
                BY <4>1 DEF IsFile
        <3>2. ASSUME NEW b \in dirs, NEW j \in ChildIndex, FileAt(new, b, j),
                     NEW c \in Chain(map, Slot(new, b, j).cluster)
              PROVE  c \notin Chain(map, Slot(contents, d, i).cluster)
            <4>1. c \in DataCluster
                BY DEF Chain
            <4> QED
                BY <1>7, <2>2, <3>2, <4>1 DEF Good, Chains, map
        <3> QED
            BY <1>7, <2>2, <3>1, <3>2 DEF Used
    <2> QED
        BY <2>1, <2>2
<1>12. Labelled(new, dirs)
    BY <1>1, <1>5 DEF Good, Labelled
<1> QED
    BY <1>1, <1>2, <1>9, <1>10, <1>11, <1>12 DEF Good, new, map

\* A file's entry in a hole, with a chain nobody else uses, leaves a sound disk.
LEMMA FileAdded ==
    ASSUME NEW texts, NEW contents \in [Cluster -> Content], NEW dirs, Good(texts, contents, dirs),
           NEW d \in dirs, NEW i \in ChildIndex, ~Slot(contents, d, i).live,
           NEW entry \in SafeEntry, entry.live, ~entry.folder, entry.name \in Names,
           IsFile(texts, contents, MapOn(contents), dirs, entry),
           Chain(MapOn(contents), entry.cluster)
               \cap Used(contents, MapOn(contents), dirs) = {}
    PROVE  LET new == WithSlot(contents, d, i, entry)
               map == MapOn(contents)
           IN  /\ new \in [Cluster -> Content] /\ Good(texts, new, dirs) /\ MapOn(new) = map
               /\ Used(new, map, dirs) =
                     Used(contents, map, dirs) \cup Chain(map, entry.cluster)
<1> DEFINE new == WithSlot(contents, d, i, entry)
           map == MapOn(contents)
<1>1. /\ new \in [Cluster -> Content] /\ MapOn(new) = map
      /\ new[BOOT_SECTOR] = contents[BOOT_SECTOR]
      /\ \A c \in Cluster \ {d} : new[c] = contents[c]
      /\ new[d].kind = "table" /\ Slot(new, d, i) = entry
      /\ \A j \in Index \ {i} : Slot(new, d, j) = Slot(contents, d, j)
      /\ \A b \in Cluster \ {d} : \A j : Slot(new, b, j) = Slot(contents, b, j)
    BY OneSlotChanges DEF Good
<1>2. dirs \subseteq Cluster /\ map \in MapType /\ Tree(contents, dirs)
      /\ contents[BOOT_SECTOR] = Signature
    BY Constants DEF Good, Tree
<1> HIDE DEF new, map
<1>3. 0 \in Index \ {i} /\ 1 \in Index \ {i} /\ ChildIndex \subseteq Index
    BY Constants DEF ChildIndex
<1>4. \A b \in dirs : /\ Slot(new, b, 0) = Slot(contents, b, 0)
                     /\ Slot(new, b, 1) = Slot(contents, b, 1)
                     /\ new[b].kind = "table"
    BY <1>1, <1>2, <1>3 DEF Tree
<1>5. \A b \in dirs, j \in ChildIndex :
          b # d \/ j # i => Slot(new, b, j) = Slot(contents, b, j)
    BY <1>1, <1>2, <1>3
<1>6. FileAt(new, d, i) /\ ~FolderAt(new, d, i) /\ ~FolderAt(contents, d, i)
      /\ ~FileAt(contents, d, i)
    BY <1>1 DEF FileAt, FolderAt
<1>7. \A b \in dirs, j \in ChildIndex :
          /\ FolderAt(new, b, j) <=> FolderAt(contents, b, j)
          /\ FolderAt(new, b, j) => Slot(new, b, j) = Slot(contents, b, j)
          /\ FileAt(new, b, j) <=> FileAt(contents, b, j) \/ (b = d /\ j = i)
          /\ FileAt(contents, b, j) => Slot(new, b, j) = Slot(contents, b, j)
    BY <1>5, <1>6 DEF FileAt, FolderAt
<1>8. ASSUME NEW some \in SUBSET dirs
      PROVE  Closed(new, some) <=> Closed(contents, some)
    BY <1>7 DEF Closed
<1>9. Tree(new, dirs)
    BY <1>2, <1>4, <1>7, <1>8 DEF Tree
<1>10. \A c \in Cluster \ dirs : new[c] = contents[c]
    BY <1>1
<1>11. ASSUME NEW b \in dirs, NEW j \in ChildIndex, FileAt(new, b, j)
       PROVE  IsFile(texts, new, map, dirs, Slot(new, b, j))
    <2>1. Slot(new, b, j) \in SafeEntry /\ IsFile(texts, contents, map, dirs, Slot(new, b, j))
        <3>1. CASE b = d /\ j = i
            BY <1>1, <3>1 DEF map
        <3>2. CASE ~(b = d /\ j = i)
            BY <1>7, <1>11, <3>2, FilesAre DEF map
        <3> QED
            BY <3>1, <3>2
    <2>2. Chain(map, Slot(new, b, j).cluster) \cap dirs = {}
        BY <2>1 DEF IsFile
    <2> QED
        BY <1>2, <1>10, <2>1, <2>2, FileStays
<1>12. ASSUME NEW b \in dirs, NEW j \in ChildIndex, FileAt(contents, b, j),
              NEW c \in DataCluster, c \in Chain(map, Slot(contents, b, j).cluster)
       PROVE  c \notin Chain(map, entry.cluster)
    <2>1. c \in Used(contents, map, dirs)
        BY <1>12, FilesAre DEF map
    <2> QED
        BY <2>1 DEF map
<1>13. \A a, b \in dirs, j, k \in ChildIndex, c \in DataCluster :
          /\ FileAt(new, a, j) /\ c \in Chain(map, Slot(new, a, j).cluster)
          /\ FileAt(new, b, k) /\ c \in Chain(map, Slot(new, b, k).cluster)
          => a = b /\ j = k
    <2> SUFFICES ASSUME NEW a \in dirs, NEW b \in dirs,
                        NEW j \in ChildIndex, NEW k \in ChildIndex, NEW c \in DataCluster,
                        FileAt(new, a, j), c \in Chain(map, Slot(new, a, j).cluster),
                        FileAt(new, b, k), c \in Chain(map, Slot(new, b, k).cluster)
                 PROVE  a = b /\ j = k
        OBVIOUS
    <2>1. CASE FileAt(contents, a, j) /\ FileAt(contents, b, k)
        BY <1>7, <2>1 DEF Good, Chains, map
    <2>2. CASE ~FileAt(contents, a, j)
        BY <1>1, <1>7, <1>12, <2>2
    <2>3. CASE ~FileAt(contents, b, k)
        BY <1>1, <1>7, <1>12, <2>3
    <2> QED
        BY <2>1, <2>2, <2>3
<1>14. Chains(texts, new, map, dirs)
    <2>1. \A b \in dirs : map[b] = EOF
        BY DEF Good, Chains, map
    <2> QED
        BY <1>11, <1>13, <2>1 DEF Chains
<1>15. Used(new, map, dirs) = Used(contents, map, dirs) \cup Chain(map, entry.cluster)
    <2>1. Chain(map, entry.cluster) \subseteq Cluster
        BY Constants DEF Chain
    <2>2. ASSUME NEW c \in Used(new, map, dirs), c \notin Used(contents, map, dirs)
          PROVE  c \in Chain(map, entry.cluster)
        BY <1>1, <1>7, <2>2 DEF Used
    <2>3. ASSUME NEW c \in Used(contents, map, dirs)
          PROVE  c \in Used(new, map, dirs)
        BY <1>7 DEF Used
    <2>4. ASSUME NEW c \in Chain(map, entry.cluster)
          PROVE  c \in Used(new, map, dirs)
        BY <1>1, <1>6, <2>1 DEF Used
    <2> QED
        BY <2>2, <2>3, <2>4
<1>16. Labelled(new, dirs)
    BY <1>1, <1>5 DEF Good, Labelled
<1> QED
    BY <1>1, <1>2, <1>9, <1>14, <1>15, <1>16 DEF Good, new, map

\* A cluster holds the table of a folder just made in another.
IsNewFolder(contents, c, parent) ==
    /\ contents[c].kind = "table"
    /\ Slot(contents, c, 0).folder
    /\ Slot(contents, c, 0).cluster = parent
    /\ Slot(contents, c, 1).name = ParentName
    /\ \A j \in ChildIndex : ~Slot(contents, c, j).live

\* A hole, and what leads from it to an empty table nobody uses.
FolderFits(texts, contents, dirs, d, i, entry) ==
    /\ contents \in [Cluster -> Content] /\ Good(texts, contents, dirs)
    /\ d \in dirs /\ i \in ChildIndex /\ ~Slot(contents, d, i).live
    /\ entry \in SafeEntry /\ entry.live /\ entry.folder /\ entry.name \in Names
    /\ entry.cluster \in DataCluster
    /\ entry.cluster \notin Used(contents, MapOn(contents), dirs)
    /\ MapOn(contents)[entry.cluster] = EOF
    /\ IsNewFolder(contents, entry.cluster, d)

\* A good disk like another but for one more directory.
OneMoreDirectory(texts, contents, dirs, new, cluster) ==
    /\ new \in [Cluster -> Content] /\ Good(texts, new, dirs \cup {cluster})
    /\ MapOn(new) = MapOn(contents)
    /\ Used(new, MapOn(contents), dirs \cup {cluster}) =
          Used(contents, MapOn(contents), dirs) \cup {cluster}

\* A folder's entry in it leaves a sound disk with one more directory.
LEMMA FolderAdded ==
    ASSUME NEW texts, NEW contents, NEW dirs, NEW d, NEW i, NEW entry,
           FolderFits(texts, contents, dirs, d, i, entry)
    PROVE  OneMoreDirectory(texts, contents, dirs, WithSlot(contents, d, i, entry), entry.cluster)
<1> DEFINE new == WithSlot(contents, d, i, entry)
           map == MapOn(contents)
           location == entry.cluster
           more == dirs \cup {location}
<1> USE DEF FolderFits
<1>1. /\ new \in [Cluster -> Content] /\ MapOn(new) = map
      /\ new[BOOT_SECTOR] = contents[BOOT_SECTOR]
      /\ \A c \in Cluster \ {d} : new[c] = contents[c]
      /\ new[d].kind = "table" /\ Slot(new, d, i) = entry
      /\ \A j \in Index \ {i} : Slot(new, d, j) = Slot(contents, d, j)
      /\ \A b \in Cluster \ {d} : \A j : Slot(new, b, j) = Slot(contents, b, j)
    BY OneSlotChanges DEF Good
<1>2. dirs \subseteq Cluster /\ map \in MapType /\ Tree(contents, dirs)
      /\ contents[BOOT_SECTOR] = Signature
    BY Constants DEF Good, Tree
<1>3. location \in Cluster /\ location \notin dirs
    BY <1>2, Constants DEF Used
<1> HIDE DEF new, map
<1>4. 0 \in Index \ {i} /\ 1 \in Index \ {i} /\ ChildIndex \subseteq Index
    BY Constants DEF ChildIndex
<1> USE DEF IsNewFolder
<1>5. \A b \in more : /\ Slot(new, b, 0) = Slot(contents, b, 0)
                     /\ Slot(new, b, 1) = Slot(contents, b, 1)
                     /\ new[b].kind = "table"
    BY <1>1, <1>2, <1>3, <1>4 DEF Tree
<1>6. \A b \in more, j \in ChildIndex :
          b # d \/ j # i => Slot(new, b, j) = Slot(contents, b, j)
    BY <1>1, <1>2, <1>3, <1>4
<1>7. ~FileAt(new, d, i) /\ FolderAt(new, d, i) /\ ~FolderAt(contents, d, i)
      /\ ~FileAt(contents, d, i)
    BY <1>1 DEF FileAt, FolderAt
<1>8. \A j \in ChildIndex : ~FileAt(new, location, j) /\ ~FolderAt(new, location, j)
    BY <1>3, <1>6 DEF FileAt, FolderAt
<1>9. \A b \in dirs, j \in ChildIndex :
          /\ FileAt(new, b, j) <=> FileAt(contents, b, j)
          /\ FileAt(new, b, j) => Slot(new, b, j) = Slot(contents, b, j)
          /\ FolderAt(new, b, j) <=> FolderAt(contents, b, j) \/ (b = d /\ j = i)
          /\ FolderAt(contents, b, j) =>
                /\ Slot(new, b, j) = Slot(contents, b, j)
                /\ Slot(new, b, j).cluster \in dirs \ {ROOT_CLUSTER_NUMBER}
    BY <1>2, <1>6, <1>7 DEF FileAt, FolderAt, Tree
<1>10. location # ROOT_CLUSTER_NUMBER
    BY Marks
<1>11. ASSUME NEW some \in SUBSET more, ROOT_CLUSTER_NUMBER \in some, Closed(new, some)
       PROVE  some = more
    <2>1. Closed(contents, some \cap dirs)
        BY <1>9, <1>11 DEF Closed
    <2>2. ROOT_CLUSTER_NUMBER \in some \cap dirs /\ some \cap dirs \in SUBSET dirs
        BY <1>2, <1>11 DEF Tree
    <2>3. some \cap dirs = dirs
        BY <1>2, <2>1, <2>2 DEF Tree
    <2>4. location \in some
        BY <1>1, <1>7, <1>11, <2>3 DEF Closed
    <2> QED
        BY <2>3, <2>4
<1>12. ASSUME NEW b \in more \ {ROOT_CLUSTER_NUMBER}
       PROVE  /\ Slot(new, b, 0).folder
              /\ \E a \in more, j \in ChildIndex :
                    /\ FolderAt(new, a, j) /\ Slot(new, a, j).cluster = b
                    /\ Slot(new, b, 0).cluster = a
    <2>1. CASE b = location
        BY <1>1, <1>5, <1>7, <2>1
    <2>2. CASE b # location
        <3>1. b \in dirs \ {ROOT_CLUSTER_NUMBER}
            BY <2>2
        <3>2. PICK a \in dirs, j \in ChildIndex :
                  /\ FolderAt(contents, a, j) /\ Slot(contents, a, j).cluster = b
                  /\ Slot(contents, b, 0).cluster = a
            BY <1>2, <3>1 DEF Tree
        <3>3. FolderAt(new, a, j) /\ Slot(new, a, j).cluster = b
            BY <1>9, <3>2
        <3>4. Slot(new, b, 0) = Slot(contents, b, 0) /\ Slot(contents, b, 0).folder
            BY <1>2, <1>5, <3>1 DEF Tree
        <3> QED
            BY <3>2, <3>3, <3>4
    <2> QED
        BY <2>1, <2>2
<1>13. ASSUME NEW b \in more, NEW j \in ChildIndex, FolderAt(new, b, j)
       PROVE  /\ b \in dirs
              /\ Slot(new, b, j).cluster \in more \ {ROOT_CLUSTER_NUMBER}
              /\ Slot(new, b, j).cluster = location <=> b = d /\ j = i
              /\ ~(b = d /\ j = i) => FolderAt(contents, b, j) /\ Slot(new, b, j) = Slot(contents, b, j)
    BY <1>1, <1>3, <1>8, <1>9, <1>10, <1>13
<1>14. \A a, b \in more, j, k \in ChildIndex :
          /\ FolderAt(new, a, j) /\ FolderAt(new, b, k)
          /\ Slot(new, a, j).cluster = Slot(new, b, k).cluster
          => a = b /\ j = k
    <2> SUFFICES ASSUME NEW a \in more, NEW b \in more,
                        NEW j \in ChildIndex, NEW k \in ChildIndex,
                        FolderAt(new, a, j), FolderAt(new, b, k),
                        Slot(new, a, j).cluster = Slot(new, b, k).cluster
                 PROVE  a = b /\ j = k
        OBVIOUS
    <2>1. CASE Slot(new, a, j).cluster = location
        <3>1. a = d /\ j = i
            BY <1>13, <2>1
        <3>2. b = d /\ k = i
            BY <1>13, <2>1
        <3> QED
            BY <3>1, <3>2
    <2>2. CASE Slot(new, a, j).cluster # location
        <3>1. /\ a \in dirs /\ FolderAt(contents, a, j) /\ Slot(new, a, j) = Slot(contents, a, j)
              /\ b \in dirs /\ FolderAt(contents, b, k) /\ Slot(new, b, k) = Slot(contents, b, k)
            BY <1>13, <2>2
        <3> QED
            BY <1>2, <3>1 DEF Tree
    <2> QED
        BY <2>1, <2>2
<1>15. Tree(new, more)
    <2>1. ROOT_CLUSTER_NUMBER \in more /\ more \subseteq DataCluster \cup {ROOT_CLUSTER_NUMBER}
        BY <1>2 DEF Tree
    <2>2. \A b \in more : Slot(new, b, 1).name = ParentName
        BY <1>2, <1>5 DEF Tree
    <2>3. Slot(new, ROOT_CLUSTER_NUMBER, 0).name = RootName
        BY <1>2, <1>5, <2>1 DEF Tree
    <2> QED
        BY <1>5, <1>11, <1>12, <1>13, <1>14, <2>1, <2>2, <2>3 DEF Tree
<1>16. ASSUME NEW b \in more, NEW j \in ChildIndex, FileAt(new, b, j)
       PROVE  /\ b \in dirs /\ FileAt(contents, b, j)
              /\ Slot(new, b, j) = Slot(contents, b, j)
              /\ IsFile(texts, new, map, more, Slot(new, b, j))
    <2>1. b \in dirs /\ FileAt(contents, b, j) /\ Slot(new, b, j) = Slot(contents, b, j)
        BY <1>8, <1>9, <1>16
    <2>2. /\ Slot(new, b, j) \in SafeEntry
          /\ IsFile(texts, contents, map, dirs, Slot(new, b, j))
          /\ Chain(map, Slot(new, b, j).cluster) \subseteq Used(contents, map, dirs)
        BY <2>1, FilesAre DEF map
    <2>3. Chain(map, Slot(new, b, j).cluster) \cap more = {}
        BY <2>2 DEF IsFile, map
    <2>4. \A c \in Cluster \ dirs : new[c] = contents[c]
        BY <1>1
    <2> QED
        BY <1>2, <2>1, <2>2, <2>3, <2>4, FileStays
<1>17. Chains(texts, new, map, more)
    <2>1. \A b \in more : map[b] = EOF
        BY DEF Good, Chains, map
    <2>2. \A a, b \in more, j, k \in ChildIndex, c \in DataCluster :
              /\ FileAt(new, a, j) /\ c \in Chain(map, Slot(new, a, j).cluster)
              /\ FileAt(new, b, k) /\ c \in Chain(map, Slot(new, b, k).cluster)
              => a = b /\ j = k
        BY <1>16 DEF Good, Chains, map
    <2> QED
        BY <1>16, <2>1, <2>2 DEF Chains
<1>18. Used(new, map, more) = Used(contents, map, dirs) \cup {location}
    <2>1. ASSUME NEW c \in Used(new, map, more) PROVE c \in Used(contents, map, dirs) \cup {location}
        BY <1>16 DEF Used
    <2>2. ASSUME NEW c \in Used(contents, map, dirs) PROVE c \in Used(new, map, more)
        BY <1>9 DEF Used
    <2>3. location \in Used(new, map, more)
        BY <1>3 DEF Used
    <2> QED
        BY <2>1, <2>2, <2>3
<1>19. Labelled(new, more)
    BY <1>1, <1>6 DEF Good, Labelled
<1> QED
    BY <1>1, <1>2, <1>15, <1>17, <1>18, <1>19 DEF Good, OneMoreDirectory, new, map

\* The entry of a folder with no live entry in it, and a dead one for its slot.
FolderEmpty(texts, contents, dirs, d, i, entry) ==
    /\ contents \in [Cluster -> Content] /\ Good(texts, contents, dirs)
    /\ d \in dirs /\ i \in ChildIndex /\ FolderAt(contents, d, i)
    /\ \A j \in ChildIndex : ~Slot(contents, Slot(contents, d, i).cluster, j).live
    /\ entry \in SafeEntry /\ ~entry.live

\* Killing it leaves a sound disk with one directory less.
LEMMA FolderKilled ==
    ASSUME NEW texts, NEW contents, NEW dirs, NEW d, NEW i, NEW entry,
           FolderEmpty(texts, contents, dirs, d, i, entry)
    PROVE  LET new == WithSlot(contents, d, i, entry)
               map == MapOn(contents)
               gone == Slot(contents, d, i).cluster
           IN  /\ new \in [Cluster -> Content] /\ MapOn(new) = map
               /\ Good(texts, new, dirs \ {gone})
               /\ Used(new, map, dirs \ {gone}) = Used(contents, map, dirs) \ {gone}
<1> DEFINE new == WithSlot(contents, d, i, entry)
           map == MapOn(contents)
           gone == Slot(contents, d, i).cluster
           less == dirs \ {gone}
<1> USE DEF FolderEmpty
<1>1. /\ new \in [Cluster -> Content] /\ MapOn(new) = map
      /\ new[BOOT_SECTOR] = contents[BOOT_SECTOR]
      /\ \A c \in Cluster \ {d} : new[c] = contents[c]
      /\ new[d].kind = "table" /\ Slot(new, d, i) = entry
      /\ \A j \in Index \ {i} : Slot(new, d, j) = Slot(contents, d, j)
      /\ \A b \in Cluster \ {d} : \A j : Slot(new, b, j) = Slot(contents, b, j)
    BY OneSlotChanges DEF Good
<1>2. dirs \subseteq Cluster /\ map \in MapType /\ Tree(contents, dirs)
      /\ contents[BOOT_SECTOR] = Signature
    BY Constants DEF Good, Tree
<1> HIDE DEF new, map
<1>3. gone \in dirs \ {ROOT_CLUSTER_NUMBER} /\ gone # d /\ d \in less
    <2>1. gone \in dirs \ {ROOT_CLUSTER_NUMBER}
        BY <1>2 DEF Tree
    <2>2. gone # d
        BY DEF FolderAt
    <2> QED
        BY <2>1, <2>2
<1>4. 0 \in Index \ {i} /\ 1 \in Index \ {i} /\ ChildIndex \subseteq Index
    BY Constants DEF ChildIndex
<1>5. \A b \in dirs : /\ Slot(new, b, 0) = Slot(contents, b, 0)
                     /\ Slot(new, b, 1) = Slot(contents, b, 1)
                     /\ new[b].kind = "table"
    BY <1>1, <1>2, <1>4 DEF Tree
<1>6. \A b \in dirs, j \in ChildIndex :
          b # d \/ j # i => Slot(new, b, j) = Slot(contents, b, j)
    BY <1>1, <1>2, <1>4
<1>7. ~FileAt(new, d, i) /\ ~FolderAt(new, d, i) /\ ~FileAt(contents, d, i)
    BY <1>1 DEF FileAt, FolderAt
<1>8. \A j \in ChildIndex : ~FileAt(contents, gone, j) /\ ~FolderAt(contents, gone, j)
    BY DEF FileAt, FolderAt
<1>9. \A b \in dirs, j \in ChildIndex :
          /\ FileAt(new, b, j) <=> FileAt(contents, b, j)
          /\ FileAt(new, b, j) => b # gone /\ Slot(new, b, j) = Slot(contents, b, j)
          /\ FolderAt(new, b, j) <=> FolderAt(contents, b, j) /\ ~(b = d /\ j = i)
          /\ FolderAt(new, b, j) => b # gone /\ Slot(new, b, j) = Slot(contents, b, j)
    BY <1>6, <1>7, <1>8 DEF FileAt, FolderAt
<1> HIDE DEF gone
<1>10. \A b \in dirs, j \in ChildIndex :
          FolderAt(new, b, j) => /\ Slot(contents, b, j).cluster \in dirs \ {ROOT_CLUSTER_NUMBER}
                                 /\ Slot(contents, b, j).cluster # gone
    <2> SUFFICES ASSUME NEW b \in dirs, NEW j \in ChildIndex, FolderAt(new, b, j)
                 PROVE  /\ Slot(contents, b, j).cluster \in dirs \ {ROOT_CLUSTER_NUMBER}
                        /\ Slot(contents, b, j).cluster # gone
        OBVIOUS
    <2>1. FolderAt(contents, b, j) /\ ~(b = d /\ j = i)
        BY <1>9
    <2>2. Slot(contents, b, j).cluster \in dirs \ {ROOT_CLUSTER_NUMBER}
        BY <1>2, <2>1 DEF Tree
    <2>3. ASSUME Slot(contents, b, j).cluster = Slot(contents, d, i).cluster
          PROVE  FALSE
        <3>1. b = d /\ j = i
            BY <1>2, <2>1, <2>3 DEF Tree
        <3> QED
            BY <2>1, <3>1
    <2> QED
        BY <2>2, <2>3 DEF gone
<1>11. ASSUME NEW some \in SUBSET less, ROOT_CLUSTER_NUMBER \in some, Closed(new, some)
       PROVE  some = less
    <2> DEFINE with == some \cup {gone}
    <2>1. Closed(contents, with)
        <3> SUFFICES ASSUME NEW b \in with, NEW j \in ChildIndex, FolderAt(contents, b, j)
                     PROVE  Slot(contents, b, j).cluster \in with
            BY DEF Closed
        <3>1. b # gone
            BY <1>8
        <3>2. b \in some /\ b \in dirs
            BY <3>1
        <3>3. CASE b = d /\ j = i
            BY <3>3 DEF gone
        <3>4. CASE ~(b = d /\ j = i)
            BY <1>9, <1>11, <3>2, <3>4 DEF Closed
        <3> QED
            BY <3>3, <3>4
    <2>2. with \in SUBSET dirs /\ ROOT_CLUSTER_NUMBER \in with
        BY <1>3, <1>11
    <2>3. with = dirs
        <3> HIDE DEF with
        <3> QED
            BY <1>2, <2>1, <2>2 DEF Tree
    <2> QED
        BY <2>3
<1>12. ASSUME NEW b \in less \ {ROOT_CLUSTER_NUMBER}
       PROVE  /\ Slot(new, b, 0).folder
              /\ \E a \in less, j \in ChildIndex :
                    /\ FolderAt(new, a, j) /\ Slot(new, a, j).cluster = b
                    /\ Slot(new, b, 0).cluster = a
    <2>1. b \in dirs \ {ROOT_CLUSTER_NUMBER} /\ b # gone
        OBVIOUS
    <2>2. PICK a \in dirs, j \in ChildIndex :
              /\ FolderAt(contents, a, j) /\ Slot(contents, a, j).cluster = b
              /\ Slot(contents, b, 0).cluster = a
        BY <1>2, <2>1 DEF Tree
    <2>3. ~(a = d /\ j = i)
        BY <2>1, <2>2 DEF gone
    <2>4. FolderAt(new, a, j) /\ Slot(new, a, j).cluster = b /\ a \in less
        BY <1>9, <2>2, <2>3
    <2>5. Slot(new, b, 0) = Slot(contents, b, 0) /\ Slot(contents, b, 0).folder
        BY <1>2, <1>5, <2>1 DEF Tree
    <2> QED
        BY <2>2, <2>4, <2>5
<1>13. Tree(new, less)
    <2>1. ROOT_CLUSTER_NUMBER \in less /\ less \subseteq DataCluster \cup {ROOT_CLUSTER_NUMBER}
          /\ less \subseteq dirs
        BY <1>2, <1>3 DEF Tree
    <2>2. \A b \in less : Slot(new, b, 1).name = ParentName
        BY <1>2, <1>5 DEF Tree
    <2>3. Slot(new, ROOT_CLUSTER_NUMBER, 0).name = RootName
        BY <1>2, <1>5, <2>1 DEF Tree
    <2>4. \A b \in less, j \in ChildIndex :
              FolderAt(new, b, j) =>
                  Slot(new, b, j).cluster \in less \ {ROOT_CLUSTER_NUMBER}
        BY <1>9, <1>10
    <2>5. \A a, b \in less, j, k \in ChildIndex :
              /\ FolderAt(new, a, j) /\ FolderAt(new, b, k)
              /\ Slot(new, a, j).cluster = Slot(new, b, k).cluster
              => a = b /\ j = k
        BY <1>2, <1>9 DEF Tree
    <2>6. \A b \in less : new[b].kind = "table"
        BY <1>5
    <2> HIDE DEF less
    <2> QED
        BY <1>11, <1>12, <2>1, <2>2, <2>3, <2>4, <2>5, <2>6 DEF Tree
<1>14. ASSUME NEW b \in dirs, NEW j \in ChildIndex, FileAt(new, b, j)
       PROVE  /\ b \in less /\ FileAt(contents, b, j)
              /\ Slot(new, b, j) = Slot(contents, b, j)
              /\ gone \notin Chain(map, Slot(new, b, j).cluster)
              /\ IsFile(texts, new, map, less, Slot(new, b, j))
    <2>1. b \in less /\ FileAt(contents, b, j) /\ Slot(new, b, j) = Slot(contents, b, j)
        BY <1>9, <1>14
    <2>2. /\ Slot(new, b, j) \in SafeEntry
          /\ IsFile(texts, contents, map, dirs, Slot(new, b, j))
        BY <2>1, FilesAre DEF map
    <2>3. Chain(map, Slot(new, b, j).cluster) \cap dirs = {}
        BY <2>2 DEF IsFile
    <2>4. \A c \in Cluster \ dirs : new[c] = contents[c]
        BY <1>1
    <2>5. Chain(map, Slot(new, b, j).cluster) \cap less = {}
        BY <2>3
    <2>6. IsFile(texts, new, map, less, Slot(new, b, j))
        BY <1>2, <2>2, <2>4, <2>5, FileStays
    <2> QED
        BY <1>3, <2>1, <2>3, <2>6
<1>15. Chains(texts, new, map, less)
    <2>1. \A b \in less : map[b] = EOF
        BY DEF Good, Chains, map
    <2>2. \A a, b \in less, j, k \in ChildIndex, c \in DataCluster :
              /\ FileAt(new, a, j) /\ c \in Chain(map, Slot(new, a, j).cluster)
              /\ FileAt(new, b, k) /\ c \in Chain(map, Slot(new, b, k).cluster)
              => a = b /\ j = k
        BY <1>14 DEF Good, Chains, map
    <2>3. \A b \in less : b \in dirs
        OBVIOUS
    <2> HIDE DEF less
    <2> QED
        BY <1>14, <2>1, <2>2, <2>3 DEF Chains
<1>16. Used(new, map, less) = Used(contents, map, dirs) \ {gone}
    <2>1. ASSUME NEW c \in Used(new, map, less) PROVE c \in Used(contents, map, dirs) \ {gone}
        BY <1>14 DEF Used
    <2>2. ASSUME NEW c \in Used(contents, map, dirs), c # gone
          PROVE  c \in Used(new, map, less)
        <3>1. CASE c \in dirs
            BY <1>2, <2>2, <3>1 DEF Used
        <3>2. CASE c \notin dirs
            <4>1. PICK b \in dirs, j \in ChildIndex :
                      FileAt(contents, b, j) /\ c \in Chain(map, Slot(contents, b, j).cluster)
                BY <3>2 DEF Used
            <4>2. FileAt(new, b, j) /\ b \in less /\ Slot(new, b, j) = Slot(contents, b, j)
                BY <1>9, <4>1
            <4>3. c \in Cluster
                BY DEF Used
            <4> QED
                BY <4>1, <4>2, <4>3 DEF Used
        <3> QED
            BY <3>1, <3>2
    <2> QED
        BY <2>1, <2>2
<1>17. Labelled(new, less)
    BY <1>1, <1>6 DEF Good, Labelled
<1> QED
    BY <1>1, <1>2, <1>13, <1>15, <1>16, <1>17 DEF Good, new, map, gone

-----------------------------------------------------------------------------
(* What users of a good disk find *)

LEMMA ClusterCount == IsFiniteSet(Cluster) /\ Cardinality(Cluster) = CLUSTER_MAP_SIZE
<1> DEFINE N == CLUSTER_MAP_SIZE
<1>1. N \in Nat /\ N > 3
    BY Marks
<1> HIDE DEF N
<1>2. IsFiniteSet(0 .. (N - 1)) /\ Cardinality(0 .. (N - 1)) = N
    BY <1>1, FS_Interval
<1> QED
    BY <1>2 DEF Cluster, N

\* The directories a user can reach are the ones of the tree: what follows folder
\* entries for as many levels as there are clusters has been everywhere.
LEMMA DirectoriesAreAll ==
    ASSUME NEW contents \in [Cluster -> Content], NEW dirs, Tree(contents, dirs)
    PROVE  DirectoriesBelow(contents, ROOT_CLUSTER_NUMBER) = dirs
<1> DEFINE N == CLUSTER_MAP_SIZE
           level == Level(contents, ROOT_CLUSTER_NUMBER)
           S == {n \in 0 .. N : /\ level[n] \subseteq dirs
                                /\ ROOT_CLUSTER_NUMBER \in level[n]
                                /\ level[n] = dirs \/ Cardinality(level[n]) >= n + 1}
<1>1. N \in Nat /\ dirs \subseteq Cluster /\ ROOT_CLUSTER_NUMBER \in dirs
      /\ ROOT_CLUSTER_NUMBER \in Cluster
    BY Marks, Constants DEF Tree
<1>2. IsFiniteSet(Cluster) /\ Cardinality(Cluster) = N
    BY ClusterCount
<1>3. /\ DirectoriesBelow(contents, ROOT_CLUSTER_NUMBER) = level[N]
      /\ level[0] = {ROOT_CLUSTER_NUMBER}
      /\ \A n \in 0 .. (N - 1) : level[n + 1] = WithSubfolders(contents, level[n])
    BY <1>1, LevelsDefined
<1> HIDE DEF N, level
<1>4. 0 \in S
    <2>1. Cardinality({ROOT_CLUSTER_NUMBER}) = 1
        BY FS_Singleton
    <2> QED
        BY <1>1, <1>3, <2>1
<1>5. ASSUME NEW n \in 0 .. (N - 1), n \in S PROVE n + 1 \in S
    <2> DEFINE some == level[n]
               more == WithSubfolders(contents, some)
    <2>1. level[n + 1] = more /\ n + 1 \in 0 .. N
        BY <1>1, <1>3
    <2>2. some \subseteq dirs /\ ROOT_CLUSTER_NUMBER \in some
          /\ (some = dirs \/ Cardinality(some) >= n + 1)
        BY <1>5
    <2> HIDE DEF some
    <2>3. some \subseteq more
        BY SubfoldersKeep
    <2>4. more \subseteq dirs
        <3> SUFFICES ASSUME NEW c \in more, c \notin some PROVE c \in dirs
            BY <2>2
        <3>1. PICK d \in some, j \in ChildIndex :
                  FolderAt(contents, d, j) /\ Slot(contents, d, j).cluster = c
            BY SubfolderIs
        <3> QED
            BY <2>2, <3>1 DEF Tree
    <2>5. CASE more = some
        <3>1. Closed(contents, some)
            <4> SUFFICES ASSUME NEW d \in some, NEW j \in ChildIndex, FolderAt(contents, d, j)
                         PROVE  Slot(contents, d, j).cluster \in some
                BY DEF Closed
            <4>1. contents[Slot(contents, d, j).cluster].kind = "table"
                BY <2>2 DEF Tree
            <4> QED
                BY <2>5, <4>1, SubfolderIsAdded
        <3>2. some = dirs
            BY <2>2, <3>1 DEF Tree
        <3> QED
            BY <2>1, <2>2, <2>5, <3>2
    <2>6. CASE more # some
        <3>1. IsFiniteSet(more)
            BY <1>1, <1>2, <2>4, FS_Subset
        <3>2. Cardinality(some) \in Nat /\ Cardinality(more) \in Nat
              /\ Cardinality(some) < Cardinality(more)
            <4>1. IsFiniteSet(some)
                BY <2>3, <3>1, FS_Subset
            <4>2. Cardinality(some) <= Cardinality(more)
                  /\ (Cardinality(some) = Cardinality(more) => some = more)
                BY <2>3, <3>1, FS_Subset
            <4>3. Cardinality(some) \in Nat /\ Cardinality(more) \in Nat
                BY <3>1, <4>1, FS_CardinalityType
            <4> QED
                BY <2>6, <4>2, <4>3
        <3>3. CASE some = dirs
            BY <2>3, <2>4, <2>6, <3>3
        <3>4. CASE Cardinality(some) >= n + 1
            <4>1. Cardinality(more) >= n + 1 + 1
                BY <1>1, <3>2, <3>4
            <4> QED
                BY <2>1, <2>2, <2>3, <2>4, <4>1
        <3> QED
            BY <2>2, <3>3, <3>4
    <2> QED
        BY <2>5, <2>6
<1>6. \A n \in 0 .. N : n \in S
    <2> HIDE DEF S
    <2> QED
        BY <1>1, <1>4, <1>5, BoundedInduction
<1>7. level[N] \subseteq dirs /\ (level[N] = dirs \/ Cardinality(level[N]) >= N + 1)
    <2>1. N \in S
        BY <1>1, <1>6
    <2> QED
        BY <2>1
<1>8. Cardinality(level[N]) \in Nat /\ Cardinality(level[N]) <= N
    <2>1. level[N] \subseteq Cluster
        BY <1>1, <1>7
    <2>2. IsFiniteSet(level[N]) /\ Cardinality(level[N]) <= Cardinality(Cluster)
        BY <1>2, <2>1, FS_Subset
    <2> QED
        BY <1>2, <2>2, FS_CardinalityType
<1> QED
    BY <1>1, <1>3, <1>7, <1>8

\* On a good disk they are what Directories is.
LEMMA DirectoriesAre ==
    ASSUME NEW texts, NEW dirs, disk \in [Cluster -> Content], Good(texts, disk, dirs)
    PROVE  Directories = dirs
<1>1. DirectoriesBelow(disk, ROOT_CLUSTER_NUMBER) = dirs
    BY DirectoriesAreAll DEF Good
<1>2. \A d \in dirs : d \in Cluster /\ disk[d].kind = "table"
    BY Constants DEF Good, Tree
<1> QED
    BY <1>1, <1>2 DEF Directories

\* Each live entry of a good disk has its own chain.
LEMMA EntriesHaveChains ==
    ASSUME NEW texts, NEW contents \in [Cluster -> Content], NEW dirs, Good(texts, contents, dirs),
           NEW d \in dirs, NEW j \in ChildIndex, Slot(contents, d, j).live
    PROVE  LET entry == Slot(contents, d, j)
               map == MapOn(contents)
           IN  /\ EndsWell(map, entry.cluster)
               /\ Chain(map, entry.cluster) \subseteq DataCluster
               /\ entry.folder => /\ entry.cluster \in dirs
                                  /\ Chain(map, entry.cluster) = {entry.cluster}
               /\ ~entry.folder => Chain(map, entry.cluster) \cap dirs = {}
<1> DEFINE entry == Slot(contents, d, j)
           map == MapOn(contents)
<1>1. map \in MapType
    BY DEF Good
<1>2. Chain(map, entry.cluster) \subseteq DataCluster
    BY DEF Chain
<1>3. CASE entry.folder
    <2>1. FolderAt(contents, d, j)
        BY <1>3 DEF FolderAt
    <2>2. entry.cluster \in dirs \ {ROOT_CLUSTER_NUMBER} /\ map[entry.cluster] = EOF
          /\ entry.cluster \in DataCluster
        BY <2>1 DEF Good, Tree, Chains
    <2> HIDE DEF entry, map
    <2>3. EndsWell(map, entry.cluster) /\ Chain(map, entry.cluster) = {entry.cluster}
        BY <1>1, <2>2, SingleCluster
    <2> QED
        BY <1>2, <1>3, <2>2, <2>3 DEF entry, map
<1>4. CASE ~entry.folder
    <2>1. FileAt(contents, d, j)
        BY <1>4 DEF FileAt
    <2>2. IsFile(texts, contents, map, dirs, entry) /\ entry.cluster \in Link
        BY <2>1, FilesAre
    <2> HIDE DEF entry, map
    <2>3. EndsWell(map, entry.cluster)
        BY <1>1, <2>2, PastTheEnd DEF IsFile
    <2>4. Chain(map, entry.cluster) \cap dirs = {}
        BY <2>2 DEF IsFile
    <2> QED
        BY <1>2, <1>4, <2>3, <2>4 DEF entry, map
<1> QED
    BY <1>3, <1>4

\* A good disk is sound.
LEMMA GoodIsSound ==
    ASSUME NEW texts, NEW dirs, disk \in [Cluster -> Content], Good(texts, disk, dirs)
    PROVE  Sound
<1> DEFINE map == MapOn(disk)
<1>1. Directories = dirs
    BY DirectoriesAre
<1>2. \A d, j : TableAt(d)[j] = Slot(disk, d, j)
    BY DEF TableAt, Slot
<1>3. \A p \in Places : /\ p = <<p[1], p[2]>> /\ p[1] \in dirs /\ p[2] \in ChildIndex
                        /\ Slot(disk, p[1], p[2]).live
    BY <1>1, <1>2 DEF Places
<1>4. \A p \in Places : EndsWell(map, Slot(disk, p[1], p[2]).cluster)
    <2> TAKE p \in Places
    <2>1. p[1] \in dirs /\ p[2] \in ChildIndex /\ Slot(disk, p[1], p[2]).live
        BY <1>3
    <2> QED
        BY ONLY <2>1, disk \in [Cluster -> Content], Good(texts, disk, dirs),
                EntriesHaveChains DEF map
<1>5. ASSUME NEW d \in dirs, NEW j \in ChildIndex, Slot(disk, d, j).live,
             NEW c \in Chain(map, Slot(disk, d, j).cluster)
      PROVE  /\ Slot(disk, d, j).folder => c \in dirs /\ c = Slot(disk, d, j).cluster
             /\ ~Slot(disk, d, j).folder => c \notin dirs
    <2>1. /\ Slot(disk, d, j).folder => /\ Slot(disk, d, j).cluster \in dirs
                                       /\ Chain(map, Slot(disk, d, j).cluster)
                                          = {Slot(disk, d, j).cluster}
          /\ ~Slot(disk, d, j).folder => Chain(map, Slot(disk, d, j).cluster) \cap dirs = {}
        BY ONLY <1>5, disk \in [Cluster -> Content], Good(texts, disk, dirs),
                EntriesHaveChains DEF map
    <2> QED
        BY <1>5, <2>1
<1>6. ASSUME NEW p \in Places, NEW q \in Places,
             NEW c, c \in Chain(map, Slot(disk, p[1], p[2]).cluster),
             c \in Chain(map, Slot(disk, q[1], q[2]).cluster)
      PROVE  p = q
    <2> DEFINE d == p[1]
               j == p[2]
               b == q[1]
               i == q[2]
    <2>1. /\ d \in dirs /\ j \in ChildIndex /\ Slot(disk, d, j).live
          /\ b \in dirs /\ i \in ChildIndex /\ Slot(disk, b, i).live
          /\ p = <<d, j>> /\ q = <<b, i>>
        BY <1>3
    <2>2. c \in Chain(map, Slot(disk, d, j).cluster) /\ c \in Chain(map, Slot(disk, b, i).cluster)
        BY <1>6
    <2> HIDE DEF d, j, b, i
    <2>3. c \in DataCluster
        BY <2>2 DEF Chain
    <2>4. /\ Slot(disk, d, j).folder => c \in dirs /\ c = Slot(disk, d, j).cluster
          /\ Slot(disk, b, i).folder => c \in dirs /\ c = Slot(disk, b, i).cluster
          /\ ~Slot(disk, d, j).folder => c \notin dirs
          /\ ~Slot(disk, b, i).folder => c \notin dirs
        BY <1>5, <2>1, <2>2
    <2>5. d = b /\ j = i
        <3>1. CASE Slot(disk, d, j).folder
            <4>1. FolderAt(disk, d, j) /\ FolderAt(disk, b, i)
                BY <2>1, <2>4, <3>1 DEF FolderAt
            <4>2. Slot(disk, d, j).cluster = Slot(disk, b, i).cluster
                BY <2>4, <3>1
            <4> QED
                BY <2>1, <4>1, <4>2 DEF Good, Tree
        <3>2. CASE ~Slot(disk, d, j).folder
            <4>1. FileAt(disk, d, j) /\ FileAt(disk, b, i)
                BY <2>1, <2>4, <3>2 DEF FileAt
            <4> QED
                BY <2>1, <2>2, <2>3, <4>1 DEF Good, Chains
        <3> QED
            BY <3>1, <3>2
    <2> QED
        BY <2>1, <2>5
<1> HIDE DEF map
<1>7. OnDisk = map
    BY DEF OnDisk, map
<1>8. \A p \in Places : ChainAt(map, p) = Chain(map, Slot(disk, p[1], p[2]).cluster)
    BY <1>2 DEF ChainAt
<1> QED
    BY <1>2, <1>4, <1>6, <1>7, <1>8 DEF Sound

\* Its files are whole.
LEMMA GoodIsIntact ==
    ASSUME NEW dirs, disk \in [Cluster -> Content], Good(WholeTexts, disk, dirs)
    PROVE  FileIntact
<1> DEFINE map == MapOn(disk)
<1>1. Directories = dirs
    BY DirectoriesAre
<1>2. \A d, j : TableAt(d)[j] = Slot(disk, d, j)
    BY DEF TableAt, Slot
<1>3. OnDisk = map /\ map \in MapType
    BY DEF OnDisk, Good
<1> HIDE DEF map
<1>4. SUFFICES ASSUME NEW d \in dirs, NEW j \in ChildIndex, FileAt(disk, d, j)
               PROVE  LET entry == Slot(disk, d, j)
                      IN  \E tag \in Tags : \A i \in 1 .. ClustersFor(entry.filesize) :
                             LET c == Hop(map, entry.cluster)[i - 1]
                             IN  c \in DataCluster /\ disk[c] = Data(tag, i)
    BY <1>1, <1>2, <1>3 DEF FileIntact, Places, FileAt
<1> DEFINE entry == Slot(disk, d, j)
<1>5. IsFile(WholeTexts, disk, map, dirs, entry)
    BY <1>4, FilesAre DEF map
<1> HIDE DEF entry
<1>6. PICK tag \in Tags : \A i \in 1 .. ClustersFor(entry.filesize) :
          disk[Hop(map, entry.cluster)[i - 1]] = Data(tag, i)
    <2>1. PICK text \in WholeTexts : \A i \in 1 .. ClustersFor(entry.filesize) :
              disk[Hop(map, entry.cluster)[i - 1]] = text[i]
        BY <1>5 DEF IsFile
    <2>2. ClustersFor(entry.filesize) \in Nat
        BY <1>5, BlocksFit DEF IsFile
    <2> QED
        BY <2>1, <2>2, WholeTextIs
<1>7. \A i \in 1 .. ClustersFor(entry.filesize) : Hop(map, entry.cluster)[i - 1] \in DataCluster
    <2> TAKE i \in 1 .. ClustersFor(entry.filesize)
    <2>1. i - 1 \in 0 .. (ClusterAmount(entry.filesize) - 1)
        BY <1>5, BlocksFit DEF IsFile
    <2> QED
        BY <1>5, <2>1 DEF IsFile, WellLinked
<1> QED
    BY <1>6, <1>7 DEF entry

\* If it is full nothing is lost on it.
LEMMA FullLosesNothing ==
    ASSUME NEW texts, NEW dirs, disk \in [Cluster -> Content], Good(texts, disk, dirs), Full(disk, dirs),
           cluster_map = MapOn(disk)
    PROVE  NoLeak
<1>1. Directories = dirs
    BY DirectoriesAre
<1>2. \A d, j : TableAt(d)[j] = Slot(disk, d, j)
    BY DEF TableAt, Slot
<1> SUFFICES ASSUME NEW c \in DataCluster, cluster_map[c] # EMPTY
             PROVE  \E p \in Places : c \in ChainAt(cluster_map, p)
    BY DEF NoLeak
<1>3. c \in Used(disk, cluster_map, dirs)
    BY DEF Full
<1>4. PICK d \in dirs, j \in ChildIndex :
          /\ Slot(disk, d, j).live
          /\ c \in Chain(cluster_map, Slot(disk, d, j).cluster)
    <2>1. CASE c \in dirs
        <3>1. c # ROOT_CLUSTER_NUMBER
            BY Marks
        <3>2. PICK b \in dirs, j \in ChildIndex :
                  FolderAt(disk, b, j) /\ Slot(disk, b, j).cluster = c
            BY <2>1, <3>1 DEF Good, Tree
        <3>3. cluster_map \in MapType /\ cluster_map[c] = EOF
            BY <2>1 DEF Good, Chains
        <3>4. Chain(cluster_map, c) = {c}
            BY <3>3, SingleCluster
        <3> QED
            BY <3>2, <3>4 DEF FolderAt
    <2>2. CASE c \notin dirs
        BY <1>3, <2>2 DEF Used, FileAt
    <2> QED
        BY <2>1, <2>2
<1>5. <<d, j>> \in Places /\ ChainAt(cluster_map, <<d, j>>) = Chain(cluster_map, Slot(disk, d, j).cluster)
    BY <1>1, <1>2, <1>4 DEF Places, ChainAt
<1> QED
    BY <1>4, <1>5

-----------------------------------------------------------------------------
(* The store a disk holds *)

\* The store a disk holds.
StoreAt(contents) == StoreOn(contents, MapOn(contents))

Label(entry) == <<entry.name, entry.ext>>

TextOf(tag, size) == [j \in 1 .. ClustersFor(size) |-> Data(tag, j)]

\* A file's blocks are those of a writing that its first block tells.
LEMMA FileHasText ==
    ASSUME NEW contents \in [Cluster -> Content], NEW dirs, Good(WholeTexts, contents, dirs),
           NEW d \in dirs, NEW j \in ChildIndex, FileAt(contents, d, j)
    PROVE  LET entry == Slot(contents, d, j)
           IN  \E tag \in Tags :
                  /\ contents[entry.cluster] = Data(tag, 1)
                  /\ [i \in 1 .. ClustersFor(entry.filesize) |->
                         BlockOn(contents, MapOn(contents), entry.cluster, i)] =
                     TextOf(tag, entry.filesize)
<1> DEFINE entry == Slot(contents, d, j)
           start == entry.cluster
           map == MapOn(contents)
           count == ClustersFor(entry.filesize)
<1>1. entry \in SafeEntry /\ start \in Link /\ IsFile(WholeTexts, contents, map, dirs, entry)
    BY FilesAre
<1>2. map \in MapType
    BY DEF Good
<1>3. PICK tag \in Tags : \A i \in 1 .. count : contents[Hop(map, start)[i - 1]] = Data(tag, i)
    <2>1. PICK text \in WholeTexts :
              \A i \in 1 .. count : contents[Hop(map, start)[i - 1]] = text[i]
        BY <1>1 DEF IsFile
    <2>2. count \in Nat
        BY <1>1, BlocksFit DEF IsFile
    <2> QED
        BY <2>1, <2>2, WholeTextIs
<1> HIDE DEF entry, map, count
<1>4. count \in Nat /\ count \in 1 .. ClusterAmount(entry.filesize)
      /\ ClusterAmount(entry.filesize) \in Nat
    BY <1>1, BlocksFit DEF IsFile, count
<1>5. Hop(map, start)[0] = start
    BY <1>1, <1>2, HopDefined
<1>6. \A i \in 1 .. count : Hop(map, start)[i - 1] \in Cluster
    <2> TAKE i \in 1 .. count
    <2>1. i - 1 \in 0 .. (ClusterAmount(entry.filesize) - 1)
        BY <1>4
    <2>2. Hop(map, start)[i - 1] \in Chain(map, start)
        BY <1>1, <1>2, <2>1, PastTheEnd DEF IsFile
    <2> QED
        BY <2>2, Constants DEF Chain
<1>7. contents[start] = Data(tag, 1)
    <2>1. 1 \in 1 .. count /\ 1 - 1 = 0
        BY <1>4
    <2> QED
        BY <1>3, <1>5, <2>1
<1>8. \A i \in 1 .. count : BlockOn(contents, map, start, i) = Data(tag, i)
    BY <1>3, <1>6 DEF BlockOn
<1>9. [i \in 1 .. count |-> BlockOn(contents, map, start, i)] = TextOf(tag, entry.filesize)
    BY <1>8 DEF TextOf, count
<1> QED
    BY <1>7, <1>9 DEF entry, map, count

\* What the store has for an entry.
FolderItem(entry) == [label |-> Label(entry), folder |-> TRUE, holds |-> entry.cluster]
FileItem(entry, tag) ==
    [label |-> Label(entry), folder |-> FALSE, holds |-> TextOf(tag, entry.filesize)]

\* The store has a file with what is on the disk.
HoldsFile(contents, d, j) ==
    \E tag \in Tags :
        /\ contents[Slot(contents, d, j).cluster] = Data(tag, 1)
        /\ StoreAt(contents)[<<d, j>>] = FileItem(Slot(contents, d, j), tag)

\* The store of a good disk.
LEMMA StoreIs ==
    ASSUME NEW contents \in [Cluster -> Content], NEW dirs, Good(WholeTexts, contents, dirs)
    PROVE  LET store == StoreAt(contents)
           IN  /\ store = [p \in DOMAIN store |-> store[p]]
               /\ DOMAIN store = {p \in dirs \X ChildIndex : Slot(contents, p[1], p[2]).live}
               /\ \A d \in dirs, j \in ChildIndex :
                     FolderAt(contents, d, j) =>
                         store[<<d, j>>] = FolderItem(Slot(contents, d, j))
               /\ \A d \in dirs, j \in ChildIndex :
                     FileAt(contents, d, j) => HoldsFile(contents, d, j)
<1> DEFINE store == StoreAt(contents)
           live == {p \in dirs \X ChildIndex : Slot(contents, p[1], p[2]).live}
           Text(entry) == [i \in 1 .. ClustersFor(entry.filesize) |->
                              BlockOn(contents, MapOn(contents), entry.cluster, i)]
           Item(entry) == [label |-> <<entry.name, entry.ext>>, folder |-> entry.folder,
                           holds |-> IF entry.folder THEN entry.cluster ELSE Text(entry)]
<1>1. DirectoriesBelow(contents, ROOT_CLUSTER_NUMBER) = dirs
    BY DirectoriesAreAll DEF Good
<1>2. store = [p \in live |-> Item(Slot(contents, p[1], p[2]))]
    BY <1>1 DEF StoreAt, StoreOn, EntryOn, Slot
<1> HIDE DEF store
<1>3. ASSUME NEW d \in dirs, NEW j \in ChildIndex, Slot(contents, d, j).live
      PROVE  store[<<d, j>>] = Item(Slot(contents, d, j))
    <2>1. <<d, j>> \in live
        BY <1>3
    <2> HIDE DEF live, Item
    <2> QED
        BY <1>2, <2>1
<1>4. ASSUME NEW d \in dirs, NEW j \in ChildIndex, FolderAt(contents, d, j)
      PROVE  store[<<d, j>>] = FolderItem(Slot(contents, d, j))
    <2> DEFINE entry == Slot(contents, d, j)
    <2>1. store[<<d, j>>] = Item(entry) /\ entry.folder = TRUE
        <3>1. entry.folder \in BOOLEAN
            <4>1. entry \in SafeEntry
                BY SlotIsEntry, Constants DEF Good, Tree
            <4> HIDE DEF entry
            <4> QED
                BY <4>1 DEF SafeEntry, Entry
        <3> QED
            BY <1>3, <1>4, <3>1 DEF FolderAt
    <2> HIDE DEF entry
    <2> QED
        BY <2>1 DEF FolderItem, Label, entry
<1>5. ASSUME NEW d \in dirs, NEW j \in ChildIndex, FileAt(contents, d, j)
      PROVE  HoldsFile(contents, d, j)
    <2> DEFINE entry == Slot(contents, d, j)
    <2>1. store[<<d, j>>] = Item(entry) /\ entry.folder = FALSE
        <3>1. entry.folder \in BOOLEAN
            <4>1. entry \in SafeEntry
                BY <1>5, FilesAre
            <4> HIDE DEF entry
            <4> QED
                BY <4>1 DEF SafeEntry, Entry
        <3> QED
            BY <1>3, <1>5, <3>1 DEF FileAt
    <2>2. PICK tag \in Tags : contents[entry.cluster] = Data(tag, 1)
                              /\ Text(entry) = TextOf(tag, entry.filesize)
        BY <1>5, FileHasText
    <2> HIDE DEF entry, Text
    <2>3. store[<<d, j>>] = FileItem(entry, tag)
        BY <2>1, <2>2 DEF FileItem, Label
    <2> QED
        BY <2>2, <2>3 DEF entry, store, HoldsFile
<1>6. DOMAIN store = live /\ store = [p \in DOMAIN store |-> store[p]]
    <2> HIDE DEF live, Item
    <2> QED
        BY <1>2
<1> QED
    BY <1>4, <1>5, <1>6 DEF store
\* An entry two disks have in common, its file's first block included, or neither has.
Kept(old, new, d, j) ==
    /\ Slot(new, d, j).live <=> Slot(old, d, j).live
    /\ Slot(old, d, j).live => Slot(new, d, j) = Slot(old, d, j)
    /\ FileAt(old, d, j) =>
          new[Slot(old, d, j).cluster] = old[Slot(old, d, j).cluster]

\* Two good disks.
GoodDisks(old, dirs, new, dirs2) ==
    /\ old \in [Cluster -> Content] /\ Good(WholeTexts, old, dirs)
    /\ new \in [Cluster -> Content] /\ Good(WholeTexts, new, dirs2)

\* It is the same in both stores.
LEMMA KeptItem ==
    ASSUME NEW old, NEW dirs, NEW new, NEW dirs2, GoodDisks(old, dirs, new, dirs2),
           NEW d \in dirs, d \in dirs2, NEW j \in ChildIndex,
           Slot(old, d, j).live, Kept(old, new, d, j)
    PROVE  StoreAt(new)[<<d, j>>] = StoreAt(old)[<<d, j>>]
<1> DEFINE entry == Slot(old, d, j)
<1> USE DEF GoodDisks
<1>1. Slot(new, d, j) = entry
    BY DEF Kept
<1>2. CASE entry.folder
    <2>1. FolderAt(old, d, j) /\ FolderAt(new, d, j)
        BY <1>1, <1>2 DEF FolderAt
    <2>2. StoreAt(old)[<<d, j>>] = FolderItem(Slot(old, d, j))
        BY <2>1, StoreIs
    <2>3. StoreAt(new)[<<d, j>>] = FolderItem(Slot(new, d, j))
        BY <2>1, StoreIs
    <2> QED
        BY <1>1, <2>2, <2>3
<1>3. CASE ~entry.folder
    <2>1. FileAt(old, d, j) /\ FileAt(new, d, j)
        BY <1>1, <1>3 DEF FileAt
    <2>6. HoldsFile(old, d, j) /\ HoldsFile(new, d, j)
        BY <2>1, StoreIs
    <2>2. PICK tag \in Tags : old[entry.cluster] = Data(tag, 1)
                              /\ StoreAt(old)[<<d, j>>] = FileItem(entry, tag)
        BY <2>6 DEF HoldsFile
    <2>3. PICK tag2 \in Tags : new[entry.cluster] = Data(tag2, 1)
                               /\ StoreAt(new)[<<d, j>>] = FileItem(entry, tag2)
        BY <1>1, <2>6 DEF HoldsFile
    <2>4. Data(tag, 1) = Data(tag2, 1)
        BY <2>1, <2>2, <2>3 DEF Kept
    <2>5. tag = tag2
        BY <2>4 DEF Data
    <2> QED
        BY <2>2, <2>3, <2>5
<1> QED
    BY <1>2, <1>3

\* Good disks with the same entries hold the same store.
LEMMA SameStore ==
    ASSUME NEW old, NEW dirs, NEW new, GoodDisks(old, dirs, new, dirs),
           \A d \in dirs, j \in ChildIndex : Kept(old, new, d, j)
    PROVE  StoreAt(new) = StoreAt(old)
<1> DEFINE a == StoreAt(old)
           b == StoreAt(new)
<1>1. /\ a = [p \in DOMAIN a |-> a[p]] /\ b = [p \in DOMAIN b |-> b[p]]
      /\ DOMAIN a = {p \in dirs \X ChildIndex : Slot(old, p[1], p[2]).live}
      /\ DOMAIN b = {p \in dirs \X ChildIndex : Slot(new, p[1], p[2]).live}
    BY StoreIs DEF GoodDisks
<1>2. DOMAIN a = DOMAIN b
    <2> HIDE DEF a, b
    <2> QED
        BY <1>1 DEF Kept
<1>3. \A p \in DOMAIN a : a[p] = b[p]
    <2> TAKE p \in DOMAIN a
    <2>1. p[1] \in dirs /\ p[2] \in ChildIndex /\ p = <<p[1], p[2]>> /\ Slot(old, p[1], p[2]).live
        <3> HIDE DEF a, b
        <3> QED
            BY <1>1
    <2>2. StoreAt(new)[<<p[1], p[2]>>] = StoreAt(old)[<<p[1], p[2]>>]
        BY <2>1, KeptItem
    <2> QED
        BY <2>1, <2>2
<1> HIDE DEF a, b
<1>4. [p \in DOMAIN a |-> a[p]] = [p \in DOMAIN a |-> b[p]]
    BY <1>3
<1>5. a = b
    BY <1>1, <1>2, <1>4, Zenon
<1> QED
    BY <1>5 DEF a, b

\* The first cluster of a file is one of its chain.
LEMMA FileStarts ==
    ASSUME NEW texts, NEW contents, NEW map \in MapType, NEW dirs, NEW entry, entry.cluster \in Link,
           IsFile(texts, contents, map, dirs, entry)
    PROVE  entry.cluster \in Chain(map, entry.cluster)
<1> DEFINE start == entry.cluster
           amount == ClusterAmount(entry.filesize)
<1>1. WellLinked(map, start, amount) /\ amount \in Nat \ {0}
    BY BlocksFit DEF IsFile
<1> HIDE DEF start, amount
<1>2. start \in Link
    BY DEF start
<1>3. 0 \in 0 .. (amount - 1)
    BY <1>1
<1>4. Hop(map, start)[0] \in Chain(map, start)
    BY <1>1, <1>2, <1>3, PastTheEnd
<1>5. Hop(map, start)[0] = start
    BY <1>2, HopDefined
<1> QED
    BY <1>4, <1>5 DEF start

\* Nothing but one slot has changed of what a good disk's directories and files have.
OneSlotDiffers(old, dirs, new, d, i) ==
    /\ old \in [Cluster -> Content] /\ Good(WholeTexts, old, dirs) /\ d \in dirs
    /\ \A c \in Used(old, MapOn(old), dirs) : c # d => new[c] = old[c]
    /\ \A j \in ChildIndex : j # i => Slot(new, d, j) = Slot(old, d, j)

KeptBut(old, dirs, new, d, i) ==
    \A b \in dirs, j \in ChildIndex : b # d \/ j # i => Kept(old, new, b, j)

LEMMA OthersKept ==
    ASSUME NEW old, NEW dirs, NEW new, NEW d, NEW i, OneSlotDiffers(old, dirs, new, d, i)
    PROVE  KeptBut(old, dirs, new, d, i)
<1> USE DEF OneSlotDiffers, KeptBut
<1> SUFFICES ASSUME NEW b \in dirs, NEW j \in ChildIndex, b # d \/ j # i
             PROVE  Kept(old, new, b, j)
    OBVIOUS
<1>1. Slot(new, b, j) = Slot(old, b, j)
    <2>1. b \in Used(old, MapOn(old), dirs)
        BY Constants DEF Used, Good, Tree
    <2>2. CASE b = d
        BY <2>2
    <2>3. CASE b # d
        BY <2>1, <2>3 DEF Slot
    <2> QED
        BY <2>2, <2>3
<1>2. ASSUME FileAt(old, b, j)
      PROVE  new[Slot(old, b, j).cluster] = old[Slot(old, b, j).cluster]
    <2> DEFINE start == Slot(old, b, j).cluster
               map == MapOn(old)
    <2>1. /\ start \in Link /\ IsFile(WholeTexts, old, map, dirs, Slot(old, b, j))
          /\ Chain(map, start) \subseteq Used(old, map, dirs)
        BY <1>2, FilesAre
    <2>2. map \in MapType
        BY DEF Good
    <2>3. start \in Chain(map, start)
        BY <2>1, <2>2, FileStarts
    <2>4. start \notin dirs
        BY <2>1, <2>3 DEF IsFile
    <2> QED
        BY <2>1, <2>3, <2>4
<1> QED
    BY <1>1, <1>2 DEF Kept

\* Then the stores are the same if the slot is empty on both.
LEMMA SameStoreButOne ==
    ASSUME NEW old, NEW dirs, NEW new, NEW d, NEW i, GoodDisks(old, dirs, new, dirs),
           OneSlotDiffers(old, dirs, new, d, i),
           ~Slot(old, d, i).live, ~Slot(new, d, i).live
    PROVE  StoreAt(new) = StoreAt(old)
<1>1. KeptBut(old, dirs, new, d, i)
    BY OthersKept
<1>2. Kept(old, new, d, i)
    BY DEF Kept, FileAt
<1>3. \A b \in dirs, j \in ChildIndex : Kept(old, new, b, j)
    BY <1>1, <1>2 DEF KeptBut
<1> QED
    BY <1>3, SameStore

\* They are if nothing has changed at all.
LEMMA SameStoreIfUsedSame ==
    ASSUME NEW old, NEW dirs, NEW new, GoodDisks(old, dirs, new, dirs),
           \A c \in Used(old, MapOn(old), dirs) : new[c] = old[c]
    PROVE  StoreAt(new) = StoreAt(old)
<1> DEFINE d == ROOT_CLUSTER_NUMBER
<1>1. d \in dirs /\ d \in Used(old, MapOn(old), dirs)
    BY Constants DEF GoodDisks, Good, Tree, Used
<1>2. \A j : Slot(new, d, j) = Slot(old, d, j)
    BY <1>1 DEF Slot
<1>3. OneSlotDiffers(old, dirs, new, d, 0)
    BY <1>1, <1>2 DEF OneSlotDiffers, GoodDisks
<1>4. KeptBut(old, dirs, new, d, 0)
    BY <1>3, OthersKept
<1>5. \A j \in ChildIndex : j # 0
    BY DEF ChildIndex
<1>6. \A b \in dirs, j \in ChildIndex : Kept(old, new, b, j)
    BY <1>4, <1>5 DEF KeptBut
<1> QED
    BY <1>6, SameStore

\* A disk has one more entry than another, and if it is a folder's one more
\* directory, with nothing in it.
OneMoreEntry(less, dirs, more, dirs2, d, i) ==
    /\ GoodDisks(less, dirs, more, dirs2)
    /\ d \in dirs /\ dirs \subseteq dirs2 /\ i \in ChildIndex
    /\ ~Slot(less, d, i).live /\ Slot(more, d, i).live
    /\ KeptBut(less, dirs, more, d, i)
    /\ \A b \in dirs2 \ dirs, j \in ChildIndex : ~Slot(more, b, j).live
    /\ FolderAt(more, d, i) => Slot(more, d, i).cluster \in dirs2 \ dirs

MoreBy(store, next, p) ==
    /\ p \in DOMAIN next \ DOMAIN store
    /\ DOMAIN next = DOMAIN store \cup {p}
    /\ \A q \in DOMAIN store : next[q] = store[q]

\* What its store has more.
LEMMA OneMoreItem ==
    ASSUME NEW less, NEW dirs, NEW more, NEW dirs2, NEW d, NEW i,
           OneMoreEntry(less, dirs, more, dirs2, d, i)
    PROVE  /\ MoreBy(StoreAt(less), StoreAt(more), <<d, i>>)
           /\ DOMAIN StoreAt(less) \subseteq dirs \X ChildIndex
<1> DEFINE a == StoreAt(less)
           b == StoreAt(more)
<1> USE DEF OneMoreEntry, KeptBut
<1>1. /\ DOMAIN a = {p \in dirs \X ChildIndex : Slot(less, p[1], p[2]).live}
      /\ DOMAIN b = {p \in dirs2 \X ChildIndex : Slot(more, p[1], p[2]).live}
    BY StoreIs DEF GoodDisks
<1>2. ASSUME NEW p \in DOMAIN a
      PROVE  /\ p[1] \in dirs /\ p[2] \in ChildIndex /\ p = <<p[1], p[2]>>
             /\ Slot(less, p[1], p[2]).live /\ (p[1] # d \/ p[2] # i)
             /\ Kept(less, more, p[1], p[2])
    <2> HIDE DEF a, b
    <2> QED
        BY <1>1
<1>3. ASSUME NEW p \in DOMAIN a PROVE p \in DOMAIN b
    <2> HIDE DEF a, b
    <2>1. Slot(more, p[1], p[2]).live /\ p[1] \in dirs2
        BY <1>2 DEF Kept
    <2>2. <<p[1], p[2]>> \in dirs2 \X ChildIndex
        BY <1>2, <2>1
    <2> QED
        BY <1>1, <1>2, <2>1, <2>2
<1>4. <<d, i>> \in DOMAIN b /\ <<d, i>> \notin DOMAIN a
    <2> HIDE DEF a, b
    <2> QED
        BY <1>1
<1>5. ASSUME NEW p \in DOMAIN b, p # <<d, i>> PROVE p \in DOMAIN a
    <2> HIDE DEF a, b
    <2>1. /\ p[1] \in dirs2 /\ p[2] \in ChildIndex /\ p = <<p[1], p[2]>>
          /\ Slot(more, p[1], p[2]).live
        BY <1>1
    <2>2. p[1] \in dirs /\ (p[1] # d \/ p[2] # i)
        BY <1>5, <2>1
    <2>3. Slot(less, p[1], p[2]).live
        BY <2>1, <2>2 DEF Kept
    <2> QED
        BY <1>1, <2>1, <2>2, <2>3
<1>6. \A p \in DOMAIN a : b[p] = a[p]
    <2> TAKE p \in DOMAIN a
    <2>1. StoreAt(more)[<<p[1], p[2]>>] = StoreAt(less)[<<p[1], p[2]>>]
        BY <1>2, KeptItem
    <2> QED
        BY <1>2, <2>1
<1>7. DOMAIN a \subseteq dirs \X ChildIndex
    <2> HIDE DEF a, b
    <2> QED
        BY <1>1
<1> HIDE DEF a, b
<1> QED
    BY <1>3, <1>4, <1>5, <1>6, <1>7 DEF MoreBy, a, b

\* The directories of a good disk are those its store has.
LEMMA DirectoriesExist ==
    ASSUME NEW contents \in [Cluster -> Content], NEW dirs, Good(WholeTexts, contents, dirs),
           NEW d \in Cluster
    PROVE  Store!Exists(StoreAt(contents), d) <=> d \in dirs
<1> DEFINE store == StoreAt(contents)
<1>1. /\ DOMAIN store = {p \in dirs \X ChildIndex : Slot(contents, p[1], p[2]).live}
      /\ \A b \in dirs, j \in ChildIndex :
            /\ FolderAt(contents, b, j) =>
                   store[<<b, j>>] = FolderItem(Slot(contents, b, j))
            /\ FileAt(contents, b, j) => ~store[<<b, j>>].folder
    <2>1. \A b \in dirs, j \in ChildIndex :
              FileAt(contents, b, j) => HoldsFile(contents, b, j)
        BY StoreIs
    <2>2. \A entry, tag : ~FileItem(entry, tag).folder
        BY DEF FileItem
    <2>3. \A b \in dirs, j \in ChildIndex :
              FileAt(contents, b, j) => ~store[<<b, j>>].folder
        BY <2>1, <2>2 DEF HoldsFile
    <2>4. \A b \in dirs, j \in ChildIndex :
             FolderAt(contents, b, j) => store[<<b, j>>] = FolderItem(Slot(contents, b, j))
        BY StoreIs
    <2>5. DOMAIN store = {p \in dirs \X ChildIndex : Slot(contents, p[1], p[2]).live}
        BY StoreIs
    <2> QED
        BY <2>3, <2>4, <2>5
<1> HIDE DEF store
<1>2. \A b \in dirs, j \in ChildIndex : FolderAt(contents, b, j) =>
          /\ <<b, j>> \in DOMAIN store /\ store[<<b, j>>].folder
          /\ store[<<b, j>>].holds = Slot(contents, b, j).cluster
    <2> SUFFICES ASSUME NEW b \in dirs, NEW j \in ChildIndex, FolderAt(contents, b, j)
                 PROVE  /\ <<b, j>> \in DOMAIN store /\ store[<<b, j>>].folder
                        /\ store[<<b, j>>].holds = Slot(contents, b, j).cluster
        OBVIOUS
    <2>1. <<b, j>> \in DOMAIN store
        BY <1>1 DEF FolderAt
    <2>2. store[<<b, j>>] = FolderItem(Slot(contents, b, j))
        BY <1>1
    <2> QED
        BY <2>1, <2>2 DEF FolderItem
<1>3. ASSUME d \in dirs, d # ROOT_CLUSTER_NUMBER
      PROVE  \E p \in DOMAIN store : store[p].folder /\ store[p].holds = d
    <2>1. PICK b \in dirs, j \in ChildIndex :
              FolderAt(contents, b, j) /\ Slot(contents, b, j).cluster = d
        BY <1>3 DEF Good, Tree
    <2> QED
        BY <1>2, <2>1
<1>4. ASSUME NEW p \in DOMAIN store, store[p].folder, store[p].holds = d
      PROVE  d \in dirs
    <2>1. /\ p[1] \in dirs /\ p[2] \in ChildIndex /\ p = <<p[1], p[2]>>
          /\ Slot(contents, p[1], p[2]).live
        BY <1>1
    <2>2. FolderAt(contents, p[1], p[2])
        BY <1>1, <1>4, <2>1 DEF FolderAt, FileAt
    <2>3. Slot(contents, p[1], p[2]).cluster \in dirs
        BY <2>1, <2>2 DEF Good, Tree
    <2> QED
        BY <1>2, <1>4, <2>1, <2>2, <2>3
<1>5. ROOT_CLUSTER_NUMBER \in dirs
    BY DEF Good, Tree
<1> QED
    BY <1>3, <1>4, <1>5 DEF Store!Exists, store

\* The store's operations that lead from what one disk holds to what another does.
StoreStep(old, new) ==
    LET store == StoreAt(old)
        next == StoreAt(new)
    IN  \/ next = store
        \/ Store!Create(store, next)
        \/ Store!Remove(store, next)
        \/ Store!Move(store, next)

\* What an entry of a good disk is in the store.
LEMMA ItemIs ==
    ASSUME NEW contents \in [Cluster -> Content], NEW dirs, Good(WholeTexts, contents, dirs),
           NEW d \in dirs, NEW j \in ChildIndex, Slot(contents, d, j).live
    PROVE  LET item == StoreAt(contents)[<<d, j>>]
           IN  /\ item.label = Label(Slot(contents, d, j))
               /\ item.label \in Names \X (Extensions \cup {NoExt})
               /\ FolderAt(contents, d, j) =>
                      /\ item \in Store!Folder
                      /\ item.folder /\ item.holds = Slot(contents, d, j).cluster
               /\ FileAt(contents, d, j) => item \in Store!File /\ ~item.folder
<1> DEFINE item == StoreAt(contents)[<<d, j>>]
           entry == Slot(contents, d, j)
<1>1. entry \in SafeEntry /\ dirs \subseteq Cluster
    BY SlotIsEntry, Constants DEF Good, Tree
<1>2. entry.name \in Names
    BY DEF Good, Labelled
<1>3. ASSUME FileAt(contents, d, j) PROVE HoldsFile(contents, d, j)
    BY <1>3, StoreIs
<1>4. ASSUME FolderAt(contents, d, j)
      PROVE  item = FolderItem(entry) /\ entry.cluster \in Cluster
    <2>1. item = FolderItem(entry)
        BY <1>4, StoreIs
    <2>2. entry.cluster \in Cluster
        BY <1>1, <1>4 DEF Good, Tree
    <2> QED
        BY <2>1, <2>2
<1>5. ASSUME FileAt(contents, d, j) PROVE entry.filesize \in FileSizes
    <2>1. IsFile(WholeTexts, contents, MapOn(contents), dirs, entry)
        BY <1>5, FilesAre
    <2> QED
        BY <2>1 DEF IsFile
<1>6. FolderAt(contents, d, j) \/ FileAt(contents, d, j)
    BY DEF FolderAt, FileAt
<1> DEFINE Labels == Names \X (Extensions \cup {NoExt})
           Texts == {[n \in 1 .. ClustersFor(size) |-> Data(tag, n)] :
                        size \in FileSizes, tag \in Tags}
<1> HIDE DEF entry
<1>7. Label(entry) \in Labels
    BY <1>1, <1>2 DEF Label, SafeEntry, Entry
<1> HIDE DEF item, Labels
<1>8. ASSUME FolderAt(contents, d, j)
      PROVE  /\ item \in [label : Labels, folder : {TRUE}, holds : Cluster]
             /\ item.folder /\ item.holds = entry.cluster /\ item.label = Label(entry)
    <2>1. /\ item = FolderItem(entry) /\ entry.cluster \in Cluster /\ Label(entry) \in Labels
        BY <1>4, <1>7, <1>8
    <2> DEFINE label == Label(entry)
               holds == entry.cluster
    <2> HIDE DEF label, holds
    <2>2. item = [label |-> label, folder |-> TRUE, holds |-> holds]
        BY <2>1 DEF FolderItem, label, holds
    <2>3. label \in Labels /\ holds \in Cluster
        BY <2>1 DEF label, holds
    <2>4. item.folder /\ item.holds = holds /\ item.label = label
        BY <2>2
    <2>5. item \in [label : Labels, folder : {TRUE}, holds : Cluster]
        BY <2>2, <2>3
    <2> QED
        BY <2>4, <2>5 DEF label, holds
<1>9. ASSUME FileAt(contents, d, j)
      PROVE  /\ item \in [label : Labels, folder : {FALSE}, holds : Texts]
             /\ ~item.folder /\ item.label = Label(entry)
    <2>1. PICK tag \in Tags : item = FileItem(entry, tag)
        BY <1>3, <1>9 DEF HoldsFile, item, entry
    <2>2. TextOf(tag, entry.filesize) \in Texts
        BY <1>5, <1>9 DEF TextOf
    <2> HIDE DEF Texts
    <2> QED
        BY <1>7, <2>1, <2>2 DEF FileItem
<1>10. ASSUME FolderAt(contents, d, j)
       PROVE  item \in Store!Folder /\ item.folder /\ item.holds = entry.cluster
    BY <1>8, <1>10 DEF Store!Folder, Labels
<1>14. Store!File = [label : Labels, folder : {FALSE}, holds : Texts]
    BY SMT DEF Store!File, Labels, Texts
<1> HIDE DEF Texts
<1>11. ASSUME FileAt(contents, d, j) PROVE item \in Store!File /\ ~item.folder
    BY <1>9, <1>11, <1>14
<1>12. item.label = Label(entry)
    BY <1>6, <1>8, <1>9
<1>13. item.label \in Names \X (Extensions \cup {NoExt})
    BY <1>7, <1>12 DEF Labels
<1> QED
    BY <1>10, <1>11, <1>12, <1>13 DEF item, entry

LEMMA EntryCreated ==
    ASSUME NEW less, NEW dirs, NEW more, NEW dirs2, NEW d, NEW i,
           OneMoreEntry(less, dirs, more, dirs2, d, i)
    PROVE  StoreStep(less, more)
<1> DEFINE store == StoreAt(less)
           next == StoreAt(more)
           p == <<d, i>>
<1>1. /\ less \in [Cluster -> Content] /\ Good(WholeTexts, less, dirs) /\ dirs \subseteq Cluster
      /\ more \in [Cluster -> Content] /\ Good(WholeTexts, more, dirs2) /\ dirs2 \subseteq Cluster
      /\ d \in dirs /\ d \in dirs2 /\ i \in ChildIndex /\ Slot(more, d, i).live
    BY Constants DEF OneMoreEntry, GoodDisks, Good, Tree
<1>2. /\ p \in DOMAIN next \ DOMAIN store /\ DOMAIN next = DOMAIN store \cup {p}
      /\ \A q \in DOMAIN store : next[q] = store[q]
      /\ DOMAIN store \subseteq dirs \X ChildIndex
    BY OneMoreItem DEF MoreBy
<1>3. Store!Exists(store, d)
    BY <1>1, DirectoriesExist
<1>4. ASSUME FileAt(more, d, i) PROVE next[p] \in Store!File
    BY <1>1, <1>4, ItemIs
<1>5. ASSUME FolderAt(more, d, i)
      PROVE  /\ next[p] \in Store!Folder
             /\ ~Store!Exists(store, next[p].holds) /\ Store!IsEmpty(store, next[p].holds)
    <2>1. next[p] \in Store!Folder /\ next[p].holds = Slot(more, d, i).cluster
        BY <1>1, <1>5, ItemIs
    <2>2. Slot(more, d, i).cluster \in dirs2 \ dirs
        BY <1>5 DEF OneMoreEntry
    <2>3. ~Store!Exists(store, Slot(more, d, i).cluster)
        BY <1>1, <2>2, DirectoriesExist
    <2>4. Store!IsEmpty(store, Slot(more, d, i).cluster)
        <3> HIDE DEF store
        <3> QED
            BY <1>2, <2>2 DEF Store!IsEmpty
    <2> QED
        BY <2>1, <2>3, <2>4
<1>6. FileAt(more, d, i) \/ FolderAt(more, d, i)
    BY <1>1 DEF FileAt, FolderAt
<1>7. p \in Store!Place
    BY <1>1 DEF Store!Place
<1> HIDE DEF store, next
<1>8. Store!Same(store, next, DOMAIN store)
    BY <1>2 DEF Store!Same
<1>9. Store!Create(store, next)
    <2>1. p[1] = d
        OBVIOUS
    <2> HIDE DEF p
    <2> QED
        BY <1>2, <1>3, <1>4, <1>5, <1>6, <1>7, <1>8, <2>1 DEF Store!Create
<1> QED
    BY <1>9 DEF StoreStep, store, next

LEMMA EntryRemoved ==
    ASSUME NEW less, NEW dirs, NEW more, NEW dirs2, NEW d, NEW i,
           OneMoreEntry(less, dirs, more, dirs2, d, i)
    PROVE  StoreStep(more, less)
<1> DEFINE next == StoreAt(less)
           store == StoreAt(more)
           p == <<d, i>>
<1>1. /\ more \in [Cluster -> Content] /\ Good(WholeTexts, more, dirs2)
      /\ d \in dirs2 /\ i \in ChildIndex /\ Slot(more, d, i).live
    BY DEF OneMoreEntry, GoodDisks
<1>2. /\ p \in DOMAIN store \ DOMAIN next /\ DOMAIN store = DOMAIN next \cup {p}
      /\ \A q \in DOMAIN next : store[q] = next[q]
      /\ DOMAIN next \subseteq dirs \X ChildIndex
    BY OneMoreItem DEF MoreBy
<1>3. ASSUME store[p].folder PROVE Store!IsEmpty(store, store[p].holds)
    <2>1. FolderAt(more, d, i) \/ FileAt(more, d, i)
        BY <1>1 DEF FileAt, FolderAt
    <2>2. FolderAt(more, d, i)
        BY <1>1, <1>3, <2>1, ItemIs
    <2>3. store[p].holds = Slot(more, d, i).cluster
        BY <1>1, <2>2, ItemIs
    <2>4. Slot(more, d, i).cluster \in dirs2 \ dirs /\ d \in dirs
        BY <2>2 DEF OneMoreEntry
    <2> HIDE DEF store, next
    <2> QED
        BY <1>2, <2>3, <2>4 DEF Store!IsEmpty
<1> HIDE DEF store, next, p
<1>4. DOMAIN next = DOMAIN store \ {p}
    BY <1>2
<1>5. Store!Same(store, next, DOMAIN next)
    BY <1>2 DEF Store!Same
<1>6. Store!Remove(store, next)
    BY <1>2, <1>3, <1>4, <1>5 DEF Store!Remove
<1> QED
    BY <1>6 DEF StoreStep, store, next

\* Two disks that each have one entry more than a third, the same but for its
\* name and place.
LEMMA EntryMoved ==
    ASSUME NEW less, NEW dirs, NEW old, NEW new, NEW d, NEW i, NEW e, NEW k,
           OneMoreEntry(less, dirs, old, dirs, d, i),
           OneMoreEntry(less, dirs, new, dirs, e, k), d # e,
           FileAt(old, d, i), FileAt(new, e, k),
           Slot(new, e, k).cluster = Slot(old, d, i).cluster,
           Slot(new, e, k).filesize = Slot(old, d, i).filesize,
           new[Slot(old, d, i).cluster] = old[Slot(old, d, i).cluster]
    PROVE  StoreStep(old, new)
<1> DEFINE common == StoreAt(less)
           store == StoreAt(old)
           next == StoreAt(new)
           p == <<d, i>>
           q == <<e, k>>
<1>1. /\ old \in [Cluster -> Content] /\ Good(WholeTexts, old, dirs) /\ dirs \subseteq Cluster
      /\ new \in [Cluster -> Content] /\ Good(WholeTexts, new, dirs)
      /\ d \in dirs /\ i \in ChildIndex /\ Slot(old, d, i).live
      /\ e \in dirs /\ k \in ChildIndex /\ Slot(new, e, k).live
    BY Constants DEF OneMoreEntry, GoodDisks, Good, Tree
<1>2. /\ p \in DOMAIN store \ DOMAIN common /\ DOMAIN store = DOMAIN common \cup {p}
      /\ \A r \in DOMAIN common : store[r] = common[r]
    <2>1. MoreBy(common, store, p)
        BY OneMoreItem
    <2> HIDE DEF common, store, p
    <2> QED
        BY <2>1 DEF MoreBy
<1>3. /\ q \in DOMAIN next \ DOMAIN common /\ DOMAIN next = DOMAIN common \cup {q}
      /\ \A r \in DOMAIN common : next[r] = common[r]
    <2>1. MoreBy(common, next, q)
        BY OneMoreItem
    <2> HIDE DEF common, next, q
    <2> QED
        BY <2>1 DEF MoreBy
<1>4. Store!Exists(store, e) /\ q \in Store!Place
    <2>1. Store!Exists(store, e)
        BY <1>1, DirectoriesExist
    <2> QED
        BY <1>1, <2>1 DEF Store!Place
<1>5. /\ next[q].label \in Names \X (Extensions \cup {NoExt})
      /\ \E tag : /\ store[p] = FileItem(Slot(old, d, i), tag)
                  /\ next[q] = FileItem(Slot(new, e, k), tag)
    <2>1. next[q].label \in Names \X (Extensions \cup {NoExt})
        BY <1>1, ItemIs
    <2>2. HoldsFile(old, d, i) /\ HoldsFile(new, e, k)
        <3>1. HoldsFile(old, d, i)
            BY <1>1, StoreIs
        <3>2. HoldsFile(new, e, k)
            BY <1>1, StoreIs
        <3> QED
            BY <3>1, <3>2
    <2>3. PICK tag \in Tags : old[Slot(old, d, i).cluster] = Data(tag, 1)
                              /\ store[p] = FileItem(Slot(old, d, i), tag)
        BY <2>2 DEF HoldsFile
    <2>4. PICK tag2 \in Tags : new[Slot(new, e, k).cluster] = Data(tag2, 1)
                               /\ next[q] = FileItem(Slot(new, e, k), tag2)
        BY <2>2 DEF HoldsFile
    <2>5. tag = tag2
        <3>1. Data(tag, 1) = Data(tag2, 1)
            BY <2>3, <2>4
        <3> QED
            BY <3>1 DEF Data
    <2> QED
        BY <2>1, <2>3, <2>4, <2>5
<1>6. next[q] \in [label : Names \X (Extensions \cup {NoExt}), folder : {store[p].folder},
                   holds : {store[p].holds}]
    <2>1. PICK tag : /\ store[p] = FileItem(Slot(old, d, i), tag)
                     /\ next[q] = FileItem(Slot(new, e, k), tag)
        BY <1>5
    <2> DEFINE size == Slot(old, d, i).filesize
               label == Label(Slot(new, e, k))
               text == TextOf(tag, size)
    <2>2. /\ store[p].folder = FALSE /\ store[p].holds = text
          /\ next[q] = [label |-> label, folder |-> FALSE, holds |-> text]
        BY <2>1 DEF FileItem
    <2> HIDE DEF text, label, store, next, p, q
    <2>3. label \in Names \X (Extensions \cup {NoExt})
        BY <1>5, <2>2
    <2>4. next[q] \in [label : Names \X (Extensions \cup {NoExt}), folder : {FALSE},
                       holds : {text}]
        BY <2>2, <2>3
    <2> QED
        BY <2>2, <2>4, Zenon
<1>7. p # q
    OBVIOUS
<1>8. p \notin DOMAIN next /\ q \notin DOMAIN store
    BY <1>2, <1>3, <1>7
<1> HIDE DEF store, next, common, p
<1>9. DOMAIN next = (DOMAIN store \ {p}) \cup {q}
    BY <1>2, <1>3, <1>8
<1>10. Store!Same(store, next, DOMAIN store \ {p})
    BY <1>2, <1>3 DEF Store!Same
<1>11. q[1] = e
    OBVIOUS
<1> HIDE DEF q
<1>12. Store!Move(store, next)
    BY <1>2, <1>3, <1>4, <1>6, <1>8, <1>9, <1>10, <1>11 DEF Store!Move
<1> QED
    BY <1>12 DEF StoreStep, store, next

-----------------------------------------------------------------------------
(* The invariant *)

\* Clients as the shell is meant to be used: no rename within a directory, whose
\* two writes undo one another, no folder moved, whose own entries would lead to
\* a parent it no longer has, none called like a table's own entries; and a
\* machine that stops, if at all, while a file is written or an entry moved, not
\* in the middle of mkdir, rm or formatting, which write what leads to a cluster
\* before the cluster, or free it before what leads to it is gone.
SensibleClients ==
    /\ OPERATIONS \cap {"rename", "move_folder"} = {}
    /\ INTERRUPTED \subseteq {"write", "move"}
    /\ Names \cap {RootName, ParentName} = {}

\* Nothing gets lost when no call is interrupted and no file fills its last
\* cluster: write() gives such a file one cluster more than delete() takes back.
NothingLost ==
    /\ INTERRUPTED = {}
    /\ \A size \in FileSizes : size % CLUSTER_SIZE # 0

\* The disk is good when the running call is over.  In a call that writes a file or
\* moves an entry it is so at each moment until then, and what the store would lose
\* if the machine stopped is what one operation of the store takes back.
SoundFor(texts) ==
    /\ IInv
    /\ cluster_map = MapOn(Settled)
    /\ \E dirs : Good(texts, Settled, dirs) /\ (NothingLost => Full(Settled, dirs))
    /\ call \in {"none", "write", "move"} =>
          \A k \in 0 .. Len(pending) :
              /\ \E dirs : Good(texts, Written(disk, pending, k), dirs)
              /\ texts = WholeTexts => StoreStep(Settled, Written(disk, pending, k))
    /\ Idle <=> call = "none"

SoundInv == SoundFor(WholeTexts)

\* Between calls it is good as it is, and its directories are those of the tree.
LEMMA IdleIsGood ==
    ASSUME NEW texts, SoundFor(texts), Idle
    PROVE  /\ disk \in [Cluster -> Content] /\ cluster_map = MapOn(disk)
           /\ Good(texts, disk, Directories)
           /\ NothingLost => Full(disk, Directories)
           /\ Directories \subseteq DataCluster \cup {ROOT_CLUSTER_NUMBER}
           /\ \A d \in Directories : d \in Cluster /\ disk[d].kind = "table"
           /\ Settled = disk
<1>1. disk \in [Cluster -> Content] /\ pending = <<>> /\ pending \in Seq(Cluster \X Content)
    BY DEF SoundFor, IInv, Idle, Issued
<1>2. Settled = disk
    <2>1. Written(disk, pending, 0) = disk
        BY <1>1, DiskStays
    <2>2. Len(pending) = 0
        BY <1>1
    <2> QED
        BY <2>1, <2>2 DEF Settled
<1>3. PICK dirs : Good(texts, disk, dirs) /\ (NothingLost => Full(disk, dirs))
    BY <1>2 DEF SoundFor
<1>4. Directories = dirs
    BY <1>1, <1>3, DirectoriesAre
<1>5. dirs \subseteq DataCluster \cup {ROOT_CLUSTER_NUMBER}
      /\ \A d \in dirs : d \in Cluster /\ disk[d].kind = "table"
    BY <1>3, Constants DEF Good, Tree
<1> QED
    BY <1>1, <1>2, <1>3, <1>4, <1>5 DEF SoundFor

\* A call that goes ahead with a write has a hole, and the disk the room.
LEMMA WriteHasRoom ==
    ASSUME NEW parent \in Cluster, IInv, NEW name, NEW ext, NEW isFolder, NEW amount \in Nat,
           WriteCode(parent, name, ext, isFolder, amount) = 0
    PROVE  /\ FirstIndex(Holes(TableAt(parent))) \in ChildIndex
           /\ ~Slot(disk, parent, FirstIndex(Holes(TableAt(parent)))).live
           /\ amount <= CLUSTER_MAP_SIZE
<1> DEFINE holes == Holes(TableAt(parent))
<1>1. holes # {}
    BY WriteNeedsHole
<1>2. holes \in SUBSET Nat
    BY Constants DEF Holes
<1>3. FirstIndex(holes) \in holes
    <2> HIDE DEF holes
    <2> QED
        BY <1>1, <1>2, FirstIsMember
<1>4. ~(amount > Cardinality(FreeCluster(cluster_map)))
    BY DEF WriteCode
<1>5. Cardinality(FreeCluster(cluster_map)) \in Nat
      /\ Cardinality(FreeCluster(cluster_map)) <= CLUSTER_MAP_SIZE
    <2>1. IsFiniteSet(Cluster) /\ Cardinality(Cluster) = CLUSTER_MAP_SIZE
        BY ClusterCount
    <2>2. FreeCluster(cluster_map) \subseteq Cluster
        BY Constants DEF FreeCluster
    <2>3. /\ IsFiniteSet(FreeCluster(cluster_map))
          /\ Cardinality(FreeCluster(cluster_map)) <= Cardinality(Cluster)
        BY <2>1, <2>2, FS_Subset
    <2> QED
        BY <2>1, <2>3, FS_CardinalityType
<1>6. amount <= CLUSTER_MAP_SIZE
    BY <1>4, <1>5, Marks
<1> QED
    BY <1>3, <1>6 DEF Holes, Slot, TableAt

\* Of some directories nothing has changed but these slots.
OnlyChanges(contents, dirs, new, slots) ==
    \A d \in dirs, j \in Index :
        <<d, j>> \notin slots => Slot(new, d, j) = Slot(contents, d, j)

\* Between calls the disk is good, with these directories.
GoodBefore(texts, dirs) ==
    /\ IInv /\ cluster_map = MapOn(disk)
    /\ Good(texts, disk, dirs) /\ (NothingLost => Full(disk, dirs))

\* Writes of a call that leave a good disk with this allocation table and the store
\* one operation further, and in a call that writes a file or moves an entry a good
\* disk and at most one operation to undo at each moment until then.
Promised(texts, writes, map, running) ==
    /\ writes # <<>>
    /\ MapOn(Written(disk, writes, Len(writes))) = map
    /\ \E dirs : /\ Good(texts, Written(disk, writes, Len(writes)), dirs)
                 /\ NothingLost => Full(Written(disk, writes, Len(writes)), dirs)
    /\ texts = WholeTexts => StoreStep(disk, Written(disk, writes, Len(writes)))
    /\ running \in {"write", "move"} =>
          \A k \in 0 .. Len(writes) :
              /\ \E dirs : Good(texts, Written(disk, writes, k), dirs)
              /\ texts = WholeTexts =>
                    StoreStep(Written(disk, writes, Len(writes)), Written(disk, writes, k))

\* What write() is about to write of a file.
FileToWrite(texts, dirs, parent, hole, entry, newTable, size, content, locations) ==
    /\ GoodBefore(texts, dirs)
    /\ parent \in dirs /\ hole \in ChildIndex /\ ~Slot(disk, parent, hole).live
    /\ size \in FileSizes /\ content \in [1 .. ClusterAmount(size) -> Content]
    /\ \E text \in texts : \A j \in 1 .. ClustersFor(size) : content[j] = text[j]
    /\ ClusterAmount(size) <= CLUSTER_MAP_SIZE
    /\ locations \in Locations(ClusterAmount(size))
    /\ entry \in SafeEntry /\ entry.live /\ ~entry.folder /\ entry.name \in Names
    /\ entry.cluster = locations[1] /\ entry.filesize = size
    /\ newTable = [TableAt(parent) EXCEPT ![hole] = entry]

\* While a file is written the disk is the one before until the last write, but
\* for clusters nobody uses; the last write adds the file.
LEMMA FileWritesAreGood ==
    ASSUME NEW texts, NEW dirs, NEW parent, NEW hole, NEW entry, NEW newTable, NEW size,
           NEW content, NEW locations,
           FileToWrite(texts, dirs, parent, hole, entry, newTable, size, content, locations)
    PROVE  LET map == LinkChain(locations)
               writes == FileWrites(parent, newTable, locations, content, map)
               new == Written(disk, writes, Len(writes))
           IN  /\ Promised(texts, writes, map, "write")
               /\ Good(texts, new, dirs) /\ Slot(new, parent, hole) = entry
               /\ OnlyChanges(disk, dirs, new, {<<parent, hole>>})
<1> USE DEF FileToWrite, GoodBefore
<1> DEFINE amount == ClusterAmount(size)
           map == LinkChain(locations)
           writes == FileWrites(parent, newTable, locations, content, map)
           At(k) == Written(disk, writes, k)
           taken == {locations[j] : j \in 1 .. amount}
           used == Used(disk, cluster_map, dirs)
<1>1. /\ amount \in Nat \ {0} /\ amount \in 1 .. CLUSTER_MAP_SIZE
      /\ ClustersFor(size) \in 1 .. amount
    BY BlocksFit, Marks
<1>2. /\ locations \in Seq(DataCluster) /\ Len(locations) = amount /\ map \in MapType
    BY <1>1, LinkedMap
<1>3. /\ disk \in [Cluster -> Content] /\ dirs \subseteq DataCluster \cup {ROOT_CLUSTER_NUMBER}
      /\ dirs \subseteq Cluster /\ parent \in Cluster /\ parent # FAT_CLUSTER_NUMBER
      /\ parent # BOOT_SECTOR /\ disk[BOOT_SECTOR] = Signature
      /\ cluster_map \in MapType
    <2>1. /\ disk \in [Cluster -> Content] /\ cluster_map \in MapType
          /\ disk[BOOT_SECTOR] = Signature /\ parent \in dirs
          /\ dirs \subseteq DataCluster \cup {ROOT_CLUSTER_NUMBER}
        BY DEF IInv, Good, Tree
    <2> HIDE DEF FileToWrite, GoodBefore
    <2> QED
        BY <2>1, Constants DEF DataCluster, FAT_CLUSTER_NUMBER, BOOT_SECTOR, ROOT_CLUSTER_NUMBER
<1>4. newTable \in TableType
    <2>1. TableAt(parent) \in TableType
        BY <1>3, ReadAsTable DEF TableAt
    <2> QED
        BY <2>1 DEF TableType
<1>5. /\ content \in [1 .. amount -> Content]
      /\ \E text \in texts : \A j \in 1 .. ClustersFor(size) : content[j] = text[j]
    OBVIOUS
<1>6. /\ \A j \in 1 .. amount : /\ locations[j] \in DataCluster
                                /\ cluster_map[locations[j]] = EMPTY
      /\ taken \cap used = {}
    <2>1. \A j \in 1 .. amount : locations[j] \in DataCluster /\ cluster_map[locations[j]] = EMPTY
        BY <1>1 DEF Locations, FreeCluster
    <2>2. \A c \in used : cluster_map[c] # EMPTY
        BY <1>3, UsedIsTaken
    <2> QED
        BY <2>1, <2>2
<1> HIDE DEF map, amount
<1>7. /\ Len(writes) = amount + 2 /\ writes \in Seq(Cluster \X Content)
      /\ \A j \in 1 .. amount : writes[j] = <<locations[j], content[j]>>
      /\ writes[amount + 1] = WriteFat(map) /\ writes[amount + 2] = WriteTable(parent, newTable)
    <2> DEFINE blocks == [j \in 1 .. Len(locations) |-> <<locations[j], content[j]>>]
               rest == <<WriteFat(map), WriteTable(parent, newTable)>>
    <2>1. /\ blocks \in Seq(Cluster \X Content) /\ Len(blocks) = amount
          /\ \A j \in 1 .. amount : blocks[j] = <<locations[j], content[j]>>
        <3> HIDE DEF FileToWrite, GoodBefore
        <3>1. \A j \in 1 .. amount : <<locations[j], content[j]>> \in Cluster \X Content
            <4>1. \A j \in 1 .. amount : locations[j] \in Cluster /\ content[j] \in Content
                BY <1>5, <1>6, Constants
            <4> QED
                BY <4>1
        <3>2. amount \in Nat /\ Len(locations) = amount
            BY <1>1, <1>2
        <3> QED
            BY <3>1, <3>2
    <2>2. /\ WriteFat(map) \in Cluster \X Content
          /\ WriteTable(parent, newTable) \in Cluster \X Content
        BY <1>2, <1>3, <1>4, Constants, ContentKinds DEF WriteFat, WriteTable
    <2>3. rest \in Seq(Cluster \X Content) /\ Len(rest) = 2
          /\ rest[1] = WriteFat(map) /\ rest[2] = WriteTable(parent, newTable)
        BY <2>2
    <2>4. writes = blocks \o rest
        BY DEF FileWrites
    <2> HIDE DEF blocks, rest, writes
    <2>5. /\ blocks \o rest \in Seq(Cluster \X Content)
          /\ Len(blocks \o rest) = Len(blocks) + Len(rest)
          /\ \A i \in 1 .. Len(blocks) + Len(rest) :
                (blocks \o rest)[i] =
                    IF i <= Len(blocks) THEN blocks[i] ELSE rest[i - Len(blocks)]
        BY <2>1, <2>3, ConcatProperties
    <2>6. \A i \in 1 .. amount + 2 :
              writes[i] = IF i <= amount THEN blocks[i] ELSE rest[i - amount]
        BY <2>1, <2>3, <2>4, <2>5
    <2>7. \A j \in 1 .. amount : writes[j] = blocks[j]
        BY <1>1, <2>6
    <2>8. ASSUME NEW k \in 1 .. 2 PROVE writes[amount + k] = rest[k]
        <3>1. PICK i \in 1 .. amount + 2 : i = amount + k /\ ~(i <= amount) /\ i - amount = k
            BY <1>1
        <3>2. writes[i] = rest[k]
            BY <2>6, <3>1
        <3> QED
            BY <3>1, <3>2
    <2>9. writes \in Seq(Cluster \X Content) /\ Len(writes) = amount + 2
        BY <2>1, <2>3, <2>4, <2>5
    <2> QED
        BY <2>1, <2>3, <2>7, <2>8, <2>9
<1> HIDE DEF writes
<1>8. \A k \in 0 .. amount + 2 : At(k) \in [Cluster -> Content]
    BY <1>3, <1>7, DiskStays
<1>9. /\ FAT_CLUSTER_NUMBER \notin taken /\ BOOT_SECTOR \notin taken
      /\ FAT_CLUSTER_NUMBER \in Cluster /\ BOOT_SECTOR \in Cluster
    BY <1>6, Constants DEF DataCluster, BOOT_SECTOR
<1>10. \A k \in 0 .. amount : \A c \in Cluster \ taken : At(k)[c] = disk[c]
    <2> SUFFICES ASSUME NEW k \in 0 .. amount, NEW c \in Cluster \ taken
                 PROVE  At(k)[c] = disk[c]
        OBVIOUS
    <2>1. \A j \in 1 .. k : writes[j][1] # c
        BY <1>1, <1>7
    <2>2. k \in Nat
        BY <1>1
    <2> QED
        BY <2>1, <2>2, LastWrite
<1>11. ASSUME NEW k \in 0 .. amount PROVE Good(texts, At(k), dirs)
    <2>1. MapOn(At(k)) = cluster_map
        BY <1>9, <1>10 DEF MapOn
    <2>2. At(k)[BOOT_SECTOR] = Signature
        BY <1>3, <1>9, <1>10
    <2>3. \A c \in used : At(k)[c] = disk[c]
        BY <1>6, <1>10 DEF Used
    <2>4. At(k) \in [Cluster -> Content]
        BY <1>1, <1>8
    <2> HIDE DEF At
    <2> QED
        BY <1>3, <2>1, <2>2, <2>3, <2>4, UnusedMayChange
<1> DEFINE linked == At(amount + 1)
           done == At(amount + 2)
<1>12. /\ linked \in [Cluster -> Content]
       /\ linked[FAT_CLUSTER_NUMBER] = Fat(map)
       /\ \A c \in Cluster \ (taken \cup {FAT_CLUSTER_NUMBER}) : linked[c] = disk[c]
       /\ \A j \in 1 .. amount : linked[locations[j]] = content[j]
    <2>1. linked = [At(amount) EXCEPT ![FAT_CLUSTER_NUMBER] = Fat(map)]
        <3>1. Written(disk, writes, amount + 1) =
                  [Written(disk, writes, amount) EXCEPT
                      ![writes[amount + 1][1]] = writes[amount + 1][2]]
            BY <1>1, <1>3, OneMoreWrite
        <3>2. writes[amount + 1][1] = FAT_CLUSTER_NUMBER /\ writes[amount + 1][2] = Fat(map)
            BY <1>7 DEF WriteFat
        <3> QED
            BY <3>1, <3>2
    <2>2. At(amount) \in [Cluster -> Content] /\ linked \in [Cluster -> Content]
        BY <1>1, <1>8
    <2>3. \A c \in Cluster \ taken : At(amount)[c] = disk[c]
        BY <1>1, <1>10
    <2>4. \A j \in 1 .. amount : At(amount)[locations[j]] = content[j]
        <3> TAKE j \in 1 .. amount
        <3>1. locations[j] \in Cluster /\ writes[j][1] = locations[j] /\ writes[j][2] = content[j]
            BY <1>6, <1>7, Constants
        <3>2. ASSUME NEW i \in 1 .. amount, writes[i][1] = locations[j] PROVE i <= j
            <4>1. locations[i] = locations[j]
                BY <1>7, <3>2
            <4>2. i = j
                BY <1>1, <4>1, LocationsDiffer DEF amount
            <4> QED
                BY <4>2
        <3>3. amount \in Nat
            BY <1>1
        <3> QED
            BY <3>1, <3>2, <3>3, LastWrite
    <2> HIDE DEF At
    <2>5. linked[FAT_CLUSTER_NUMBER] = Fat(map)
        BY <1>9, <2>1, <2>2
    <2>6. \A c \in Cluster \ {FAT_CLUSTER_NUMBER} : linked[c] = At(amount)[c]
        BY <2>1, <2>2
    <2>7. \A j \in 1 .. amount : locations[j] \in Cluster \ {FAT_CLUSTER_NUMBER}
        BY <1>6, Constants
    <2> QED
        BY <2>2, <2>3, <2>4, <2>5, <2>6, <2>7
<1>13. done = WithSlot(linked, parent, hole, entry)
    <2>1. Written(disk, writes, amount + 1 + 1) =
              [Written(disk, writes, amount + 1) EXCEPT
                  ![writes[amount + 1 + 1][1]] = writes[amount + 1 + 1][2]]
        BY <1>1, <1>3, OneMoreWrite
    <2>2. amount + 1 + 1 = amount + 2
        BY <1>1
    <2>3. writes[amount + 2][1] = parent /\ writes[amount + 2][2] = Table(newTable)
        BY <1>7 DEF WriteTable
    <2>4. linked[parent] = disk[parent]
        <3>1. parent \in used
            BY <1>3 DEF Used
        <3> HIDE DEF linked
        <3> QED
            BY <1>3, <1>6, <1>12, <3>1
    <2>5. TableAt(parent) = AsTable(linked[parent])
        BY <2>4 DEF TableAt
    <2> QED
        BY <2>1, <2>2, <2>3, <2>5 DEF WithSlot
<1> HIDE DEF At, linked, done, taken
<1>14. MapOn(linked) = map
    BY <1>12 DEF MapOn, Fat
<1>15. \A c \in Cluster \ taken : map[c] = cluster_map[c]
    BY <1>1, LinkedChain DEF map, taken, amount
<1>16. Good(texts, linked, dirs) /\ Used(linked, map, dirs) = used
    <2>1. linked[BOOT_SECTOR] = Signature
        BY <1>3, <1>9, <1>12, Constants
    <2>2. FAT_CLUSTER_NUMBER \notin used
        BY <1>3, UsedIsTaken, Constants
    <2>3. \A c \in used : linked[c] = disk[c] /\ map[c] = cluster_map[c]
        BY <1>6, <1>12, <1>15, <2>2 DEF Used
    <2> QED
        BY <1>2, <1>3, <1>12, <1>14, <2>1, <2>3, UnusedMayChange
<1>17. /\ WellLinked(map, locations[1], amount)
       /\ Chain(map, locations[1]) = taken
       /\ \A n \in 0 .. (amount - 1) : Hop(map, locations[1])[n] = locations[n + 1]
    BY <1>1, LinkedChain DEF map, taken, amount
<1>18. IsFile(texts, linked, map, dirs, entry)
    <2>1. taken \cap dirs = {}
        BY <1>3, <1>6 DEF Used
    <2>2. \A j \in 1 .. ClustersFor(size) : linked[Hop(map, locations[1])[j - 1]] = content[j]
        <3> TAKE j \in 1 .. ClustersFor(size)
        <3>1. j - 1 \in 0 .. (amount - 1) /\ j - 1 + 1 = j /\ j \in 1 .. amount
            BY <1>1
        <3>2. Hop(map, locations[1])[j - 1] = locations[j]
            BY <1>17, <3>1
        <3> QED
            BY <1>12, <3>1, <3>2
    <2> QED
        BY <1>5, <1>17, <2>1, <2>2 DEF IsFile, amount
<1>19. /\ Good(texts, done, dirs) /\ MapOn(done) = map
       /\ Used(done, map, dirs) = used \cup taken
    <2>1. parent \in used
        BY <1>3 DEF Used
    <2>2. linked[parent] = disk[parent]
        BY <1>3, <1>6, <1>12, <2>1
    <2>3. ~Slot(linked, parent, hole).live
        BY <2>2 DEF Slot
    <2>4. Chain(MapOn(linked), entry.cluster) \cap Used(linked, MapOn(linked), dirs) = {}
        BY <1>6, <1>14, <1>16, <1>17
    <2>5. /\ linked \in [Cluster -> Content] /\ Good(texts, linked, dirs)
          /\ parent \in dirs /\ hole \in ChildIndex
          /\ entry \in SafeEntry /\ entry.live /\ ~entry.folder /\ entry.name \in Names
          /\ IsFile(texts, linked, MapOn(linked), dirs, entry)
        BY <1>12, <1>14, <1>16, <1>18
    <2>6. entry.cluster = locations[1]
        OBVIOUS
    <2> HIDE DEF FileToWrite, GoodBefore
    <2>7. /\ Good(texts, done, dirs) /\ MapOn(done) = MapOn(linked)
          /\ Used(done, MapOn(linked), dirs) =
                Used(linked, MapOn(linked), dirs) \cup Chain(MapOn(linked), entry.cluster)
        BY ONLY <1>13, <2>3, <2>4, <2>5, FileAdded
    <2> QED
        BY <1>14, <1>16, <1>17, <2>6, <2>7
<1>20. \A k \in 0 .. amount + 2 : Good(texts, At(k), dirs)
    <2> TAKE k \in 0 .. amount + 2
    <2>1. k \in 0 .. amount \/ k = amount + 1 \/ k = amount + 2
        BY <1>1
    <2> QED
        BY <1>11, <1>16, <1>19, <2>1 DEF linked, done
<1>21. ASSUME Full(disk, dirs) PROVE Full(done, dirs)
    <2> SUFFICES ASSUME NEW c \in DataCluster, map[c] # EMPTY PROVE c \in used \cup taken
        BY <1>19 DEF Full
    <2>1. CASE c \in taken
        BY <2>1
    <2>2. CASE c \notin taken
        <3>1. cluster_map[c] # EMPTY
            BY <1>15, <2>2, Constants
        <3> QED
            BY <1>21, <3>1 DEF Full
    <2> QED
        BY <2>1, <2>2
<1>22. writes # <<>>
    BY <1>1, <1>7
<1>23. /\ done \in [Cluster -> Content] /\ parent \in dirs /\ hole \in ChildIndex
       /\ Slot(done, parent, hole) = entry
       /\ \A c \in used : c # parent => done[c] = disk[c]
       /\ \A j \in Index : j # hole => Slot(done, parent, j) = Slot(disk, parent, j)
    <2>1. /\ done \in [Cluster -> Content]
          /\ \A c \in Cluster \ {parent} : done[c] = linked[c]
          /\ Slot(done, parent, hole) = entry
          /\ \A j \in Index \ {hole} : Slot(done, parent, j) = Slot(linked, parent, j)
        <3>1. Tree(linked, dirs)
            BY <1>16 DEF Good
        <3> QED
            BY <1>12, <1>13, <3>1, OneSlotChanges
    <2>2. \A c \in used : linked[c] = disk[c]
        <3>1. FAT_CLUSTER_NUMBER \notin used
            BY <1>3, UsedIsTaken, Constants
        <3> QED
            BY <1>6, <1>12, <3>1 DEF Used
    <2>3. parent \in used /\ used \subseteq Cluster
        BY <1>3 DEF Used
    <2>4. \A j : Slot(linked, parent, j) = Slot(disk, parent, j)
        BY <2>2, <2>3 DEF Slot
    <2> QED
        BY <2>1, <2>2, <2>3, <2>4, Constants
<1>24. ASSUME texts = WholeTexts PROVE OneMoreEntry(disk, dirs, done, dirs, parent, hole)
    <2>1. OneSlotDiffers(disk, dirs, done, parent, hole)
        BY <1>3, <1>23, <1>24, Constants DEF OneSlotDiffers
    <2>2. KeptBut(disk, dirs, done, parent, hole)
        BY <2>1, OthersKept
    <2>3. GoodDisks(disk, dirs, done, dirs)
        BY <1>3, <1>19, <1>23, <1>24 DEF GoodDisks
    <2>4. ~FolderAt(done, parent, hole)
        BY <1>23 DEF FolderAt
    <2> QED
        BY <1>23, <2>2, <2>3, <2>4 DEF OneMoreEntry
<1>25. texts = WholeTexts => StoreStep(disk, done) /\ StoreStep(done, disk)
    BY <1>24, EntryCreated, EntryRemoved
<1>26. ASSUME texts = WholeTexts, NEW k \in 0 .. amount + 2 PROVE StoreStep(done, At(k))
    <2>1. CASE k = amount + 2
        BY <2>1 DEF StoreStep, done
    <2>2. CASE k # amount + 2
        <3>1. GoodDisks(disk, dirs, At(k), dirs)
            BY <1>3, <1>8, <1>20, <1>26 DEF GoodDisks
        <3>2. \A c \in used : At(k)[c] = disk[c]
            <4>1. k \in 0 .. amount \/ k = amount + 1
                BY <1>1, <2>2
            <4>2. FAT_CLUSTER_NUMBER \notin used /\ used \subseteq Cluster
                BY <1>3, UsedIsTaken, Constants DEF Used
            <4> QED
                BY <1>6, <1>10, <1>12, <4>1, <4>2 DEF linked, At
        <3>3. StoreAt(At(k)) = StoreAt(disk)
            BY <3>1, <3>2, SameStoreIfUsedSame
        <3> QED
            BY <1>25, <1>26, <3>3 DEF StoreStep
    <2> QED
        BY <2>1, <2>2
<1>27. Promised(texts, writes, map, "write")
    <2>1. NothingLost => Full(done, dirs)
        BY <1>21
    <2>2. done = Written(disk, writes, Len(writes))
        BY <1>7 DEF At, done
    <2>3. \A k \in 0 .. Len(writes) :
              /\ Good(texts, Written(disk, writes, k), dirs)
              /\ texts = WholeTexts => StoreStep(done, Written(disk, writes, k))
        BY <1>7, <1>20, <1>26 DEF At
    <2> QED
        BY ONLY <1>19, <1>22, <1>25, <2>1, <2>2, <2>3 DEF Promised
<1>28. done = Written(disk, writes, Len(writes))
    BY <1>7 DEF At, done
<1>29. OnlyChanges(disk, dirs, done, {<<parent, hole>>})
    <2> SUFFICES ASSUME NEW d \in dirs, NEW j \in Index, <<d, j>> # <<parent, hole>>
                 PROVE  Slot(done, d, j) = Slot(disk, d, j)
        BY DEF OnlyChanges
    <2>1. CASE d = parent
        BY <1>23, <2>1
    <2>2. CASE d # parent
        <3>1. d \in used
            BY <1>3 DEF Used
        <3> QED
            BY <1>23, <2>2, <3>1 DEF Slot
    <2> QED
        BY <2>1, <2>2
<1> QED
    BY <1>19, <1>23, <1>27, <1>28, <1>29 DEF writes, map

\* What two writes leave.
LEMMA TwoWrites ==
    ASSUME NEW contents \in [Cluster -> Content], NEW writes
    PROVE  LET one == [contents EXCEPT ![writes[1][1]] = writes[1][2]]
               two == [one EXCEPT ![writes[2][1]] = writes[2][2]]
           IN  /\ Written(contents, writes, 0) = contents
               /\ Written(contents, writes, 1) = one
               /\ Written(contents, writes, 2) = two
<1> DEFINE one == [contents EXCEPT ![writes[1][1]] = writes[1][2]]
           two == [one EXCEPT ![writes[2][1]] = writes[2][2]]
<1>2. /\ Written(contents, writes, 0) = [c \in Cluster |-> contents[c]]
      /\ \A k \in Nat : Written(contents, writes, k + 1) =
            [Written(contents, writes, k) EXCEPT ![writes[k + 1][1]] = writes[k + 1][2]]
    <2>1. DOMAIN contents = Cluster /\ 0 \in Nat
        OBVIOUS
    <2>2. Written(contents, writes, 0) = [c \in Cluster |-> contents[c]]
        BY <2>1, OneMoreWrite
    <2>3. ASSUME NEW k \in Nat
          PROVE  Written(contents, writes, k + 1) =
                    [Written(contents, writes, k) EXCEPT ![writes[k + 1][1]] = writes[k + 1][2]]
        BY <2>1, OneMoreWrite
    <2> QED
        BY <2>2, <2>3
<1>3. Written(contents, writes, 0) = contents
    BY <1>2
<1>4. PICK k \in Nat : k = 0 /\ k + 1 = 1
    OBVIOUS
<1>5. PICK n \in Nat : n = 1 /\ n + 1 = 2
    OBVIOUS
<1>6. Written(contents, writes, k + 1) =
          [Written(contents, writes, k) EXCEPT ![writes[k + 1][1]] = writes[k + 1][2]]
    BY <1>2
<1>7. Written(contents, writes, n + 1) =
          [Written(contents, writes, n) EXCEPT ![writes[n + 1][1]] = writes[n + 1][2]]
    BY <1>2
<1>8. Written(contents, writes, 1) = one
    BY <1>3, <1>4, <1>6
<1>9. Written(contents, writes, 2) = two
    BY <1>5, <1>7, <1>8
<1> QED
    BY <1>3, <1>8, <1>9

\* What four writes leave, the third to a cluster of its own and the last the
\* first again.
LEMMA FourWrites ==
    ASSUME NEW contents \in [Cluster -> Content], NEW writes,
           \A i \in 1 .. 4 : writes[i][1] \in Cluster,
           writes[1][1] # writes[2][1], writes[1][1] # writes[3][1],
           writes[2][1] # writes[3][1], writes[4] = writes[1]
    PROVE  LET last == Written(contents, writes, 4)
           IN  /\ last = [d \in Cluster |-> last[d]]
               /\ last[writes[1][1]] = writes[1][2]
               /\ last[writes[2][1]] = writes[2][2]
               /\ last[writes[3][1]] = writes[3][2]
               /\ \A d \in Cluster \ {writes[1][1], writes[2][1], writes[3][1]} :
                    last[d] = contents[d]
<1> DEFINE last == Written(contents, writes, 4)
<1>1. \A i \in 1 .. 4 : i = 1 \/ i = 2 \/ i = 3 \/ i = 4
    OBVIOUS
<1>2. /\ 1 \in 1 .. 4 /\ 2 \in 1 .. 4 /\ 3 \in 1 .. 4 /\ 4 \in 1 .. 4 /\ 4 \in Nat
      /\ \A i \in 1 .. 4 : i <= 4
    OBVIOUS
<1>3. last[writes[1][1]] = writes[1][2]
    <2>1. last[writes[4][1]] = writes[4][2]
        BY <1>2, LastWrite
    <2> QED
        BY <2>1
<1>4. last[writes[2][1]] = writes[2][2]
    <2>1. \A i \in 1 .. 4 : writes[i][1] = writes[2][1] => i <= 2
        BY <1>1
    <2> QED
        BY <1>2, <2>1, LastWrite
<1>5. last[writes[3][1]] = writes[3][2]
    <2>1. \A i \in 1 .. 4 : writes[i][1] = writes[3][1] => i <= 3
        BY <1>1
    <2> QED
        BY <1>2, <2>1, LastWrite
<1>6. \A d \in Cluster \ {writes[1][1], writes[2][1], writes[3][1]} : last[d] = contents[d]
    <2> TAKE d \in Cluster \ {writes[1][1], writes[2][1], writes[3][1]}
    <2>1. \A i \in 1 .. 4 : writes[i][1] # d
        BY <1>1
    <2> QED
        BY <1>2, <2>1, LastWrite
<1>7. last = [d \in Cluster |-> last[d]]
    BY DEF Written
<1> HIDE DEF last
<1> QED
    BY <1>3, <1>4, <1>5, <1>6, <1>7 DEF last

\* What write() is about to write of a folder.
FolderToWrite(texts, dirs, parent, hole, entry, newTable, map, location, child) ==
    /\ GoodBefore(texts, dirs)
    /\ parent \in dirs /\ hole \in ChildIndex /\ ~Slot(disk, parent, hole).live
    /\ location \in DataCluster /\ cluster_map[location] = EMPTY
    /\ entry \in SafeEntry /\ entry.live /\ entry.folder /\ entry.cluster = location
    /\ entry.name \in Names
    /\ child \in TableType /\ child[0].folder /\ child[0].cluster = parent
    /\ child[1].name = ParentName /\ \A j \in ChildIndex : ~child[j].live
    /\ newTable = [TableAt(parent) EXCEPT ![hole] = entry]
    /\ map = [cluster_map EXCEPT ![location] = EOF]

FolderWrites(parent, newTable, map, location, child) ==
    <<WriteTable(parent, newTable), WriteFat(map), WriteTable(location, child),
      WriteTable(parent, newTable)>>

\* A directory with this table.
HasTable(contents, d, table) == \A j \in Index : Slot(contents, d, j) = table[j]

\* When a folder has been made the disk is the one before with one more directory.
LEMMA FolderWritesAreGood ==
    ASSUME NEW texts, NEW dirs, NEW parent, NEW hole, NEW entry, NEW newTable, NEW map,
           NEW location, NEW child,
           FolderToWrite(texts, dirs, parent, hole, entry, newTable, map, location, child)
    PROVE  LET writes == FolderWrites(parent, newTable, map, location, child)
               new == Written(disk, writes, Len(writes))
           IN  /\ Promised(texts, writes, map, "mkdir")
               /\ Good(texts, new, dirs \cup {location}) /\ location \notin dirs
               /\ Slot(new, parent, hole) = entry
               /\ OnlyChanges(disk, dirs, new, {<<parent, hole>>})
               /\ HasTable(new, location, child)
<1> USE DEF FolderToWrite, GoodBefore, FolderWrites
<1> DEFINE writes == FolderWrites(parent, newTable, map, location, child)
           last == Written(disk, writes, Len(writes))
           base == [[disk EXCEPT ![FAT_CLUSTER_NUMBER] = Fat(map)]
                             EXCEPT ![location] = Table(child)]
           used == Used(disk, cluster_map, dirs)
           more == dirs \cup {location}
<1>1. /\ disk \in [Cluster -> Content] /\ dirs \subseteq DataCluster \cup {ROOT_CLUSTER_NUMBER}
      /\ dirs \subseteq Cluster /\ parent \in Cluster /\ parent # FAT_CLUSTER_NUMBER
      /\ disk[BOOT_SECTOR] = Signature /\ cluster_map \in MapType
      /\ location \in Cluster /\ location # FAT_CLUSTER_NUMBER /\ location # BOOT_SECTOR
      /\ FAT_CLUSTER_NUMBER \in Cluster
    BY Constants DEF IInv, Good, Tree, DataCluster, FAT_CLUSTER_NUMBER, BOOT_SECTOR,
                     ROOT_CLUSTER_NUMBER
<1>2. /\ location \notin used /\ FAT_CLUSTER_NUMBER \notin used /\ parent \in used
    <2>1. location \notin used /\ FAT_CLUSTER_NUMBER \notin used
        BY <1>1, UsedIsTaken, Constants
    <2> QED
        BY <1>1, <2>1 DEF Used
<1>3. map \in MapType /\ map[location] = EOF
      /\ \A c \in Cluster \ {location} : map[c] = cluster_map[c]
    BY <1>1 DEF MapType
<1>4. /\ base \in [Cluster -> Content]
      /\ base[FAT_CLUSTER_NUMBER] = Fat(map) /\ base[location] = Table(child)
      /\ \A c \in Cluster \ {FAT_CLUSTER_NUMBER, location} : base[c] = disk[c]
    <2>1. Fat(map) \in Content /\ Table(child) \in Content
        BY <1>3, ContentKinds
    <2> QED
        BY <1>1, <2>1
<1>5. last = WithSlot(base, parent, hole, entry)
    <2>1. parent # location
        BY <1>2
    <2>2. last = [base EXCEPT ![parent] = Table(newTable)]
        <3> DEFINE x == Table(newTable)
                   y == Fat(map)
                   z == Table(child)
                   four == Written(disk, writes, 4)
                   want == [base EXCEPT ![parent] = x]
        <3>1. /\ Len(writes) = 4
              /\ writes[1] = <<parent, x>> /\ writes[2] = <<FAT_CLUSTER_NUMBER, y>>
              /\ writes[3] = <<location, z>> /\ writes[4] = writes[1]
            BY DEF WriteTable, WriteFat
        <3> HIDE DEF x, y, z, writes
        <3>2. /\ parent # FAT_CLUSTER_NUMBER /\ parent # location
              /\ FAT_CLUSTER_NUMBER # location
            BY <1>1, <2>1
        <3>3. /\ four = [d \in Cluster |-> four[d]]
              /\ four[parent] = x /\ four[FAT_CLUSTER_NUMBER] = y /\ four[location] = z
              /\ \A d \in Cluster \ {parent, FAT_CLUSTER_NUMBER, location} : four[d] = disk[d]
            <4>1. /\ writes[1][1] = parent /\ writes[1][2] = x
                  /\ writes[2][1] = FAT_CLUSTER_NUMBER /\ writes[2][2] = y
                  /\ writes[3][1] = location /\ writes[3][2] = z
                BY <3>1
            <4>2. \A i \in 1 .. 4 : writes[i][1] \in Cluster
                <5>1. \A i \in 1 .. 4 : i = 1 \/ i = 2 \/ i = 3 \/ i = 4
                    OBVIOUS
                <5> QED
                    BY <1>1, <3>1, <4>1, <5>1
            <4> QED
                BY <1>1, <3>1, <3>2, <4>1, <4>2, FourWrites
        <3> HIDE DEF four, base
        <3>4. /\ want = [d \in Cluster |-> want[d]] /\ want[parent] = x
              /\ want[FAT_CLUSTER_NUMBER] = y /\ want[location] = z
              /\ \A d \in Cluster \ {parent, FAT_CLUSTER_NUMBER, location} : want[d] = disk[d]
            BY <1>1, <1>4, <3>2 DEF y, z
        <3> HIDE DEF want
        <3>5. [d \in Cluster |-> want[d]] = [d \in Cluster |-> four[d]]
            <4>1. \A d \in Cluster : want[d] = four[d]
                BY <3>3, <3>4
            <4> QED
                BY <4>1
        <3>6. want = four
            BY <3>3, <3>4, <3>5, Zenon
        <3> QED
            BY <3>1, <3>6 DEF four, want, x
    <2>3. base[parent] = disk[parent]
        <3> HIDE DEF base
        <3> QED
            BY <1>1, <1>4, <2>1
    <2> HIDE DEF base, last
    <2> QED
        BY <2>2, <2>3 DEF WithSlot, TableAt
<1> HIDE DEF base, last
<1>6. MapOn(base) = map
    BY <1>4 DEF MapOn, Fat
<1>7. Good(texts, base, dirs) /\ Used(base, map, dirs) = used
    <2>1. base[BOOT_SECTOR] = Signature
        BY <1>1, <1>4, Constants
    <2>2. \A c \in used : base[c] = disk[c] /\ map[c] = cluster_map[c]
        BY <1>2, <1>3, <1>4 DEF Used
    <2> QED
        <3>1. Good(texts, disk, dirs) /\ cluster_map = MapOn(disk)
            OBVIOUS
        <3> HIDE DEF FolderToWrite, GoodBefore, base
        <3> QED
            BY ONLY <1>1, <1>3, <1>4, <1>6, <2>1, <2>2, <3>1, UnusedMayChange
<1>8. /\ base[location].kind = "table"
      /\ \A j : Slot(base, location, j) = child[j]
    BY <1>4 DEF Slot, AsTable, Table
<1>9. Slot(base, parent, hole) = Slot(disk, parent, hole)
    BY <1>1, <1>2, <1>4 DEF Slot
<1>10. /\ MapOn(last) = map /\ Good(texts, last, more)
       /\ Used(last, map, more) = used \cup {location}
    <2>1. FolderFits(texts, base, dirs, parent, hole, entry)
        <3>1. IsNewFolder(base, location, parent)
            BY <1>8 DEF IsNewFolder
        <3>2. base \in [Cluster -> Content] /\ Good(texts, base, dirs)
            BY <1>4, <1>7
        <3>3. /\ location \notin Used(base, MapOn(base), dirs)
              /\ MapOn(base)[location] = EOF /\ ~Slot(base, parent, hole).live
            BY <1>2, <1>3, <1>6, <1>7, <1>9
        <3> QED
            BY <3>1, <3>2, <3>3 DEF FolderFits
    <2>2. OneMoreDirectory(texts, base, dirs, WithSlot(base, parent, hole, entry), entry.cluster)
        BY ONLY <2>1, FolderAdded
    <2>3. entry.cluster = location
        OBVIOUS
    <2> HIDE DEF FolderToWrite, GoodBefore
    <2> QED
        BY ONLY <1>5, <1>6, <1>7, <2>2, <2>3 DEF OneMoreDirectory
<1>17. /\ last \in [Cluster -> Content]
       /\ \A c \in Cluster \ {parent} : last[c] = base[c]
       /\ Slot(last, parent, hole) = entry
       /\ \A j \in Index \ {hole} : Slot(last, parent, j) = Slot(base, parent, j)
       /\ \A b \in Cluster \ {parent} : \A j : Slot(last, b, j) = Slot(base, b, j)
    <2>1. Tree(base, dirs) /\ parent \in dirs /\ hole \in ChildIndex /\ entry \in SafeEntry
        BY <1>7 DEF Good
    <2> HIDE DEF FolderToWrite, GoodBefore
    <2> QED
        BY ONLY <1>4, <1>5, <2>1, OneSlotChanges
<1>18. /\ \A c \in used : base[c] = disk[c]
       /\ \A d \in dirs : \A j : Slot(base, d, j) = Slot(disk, d, j)
    <2>1. \A c \in used : base[c] = disk[c]
        BY <1>2, <1>4 DEF Used
    <2>2. dirs \subseteq used
        BY <1>1 DEF Used
    <2> QED
        BY <2>1, <2>2 DEF Slot
<1>19. location \notin dirs /\ \A j \in Index : Slot(last, location, j) = child[j]
    <2>1. location \notin dirs
        BY <1>1, <1>2 DEF Used
    <2> QED
        BY <1>1, <1>2, <1>8, <1>17, <2>1
<1>20. OnlyChanges(disk, dirs, last, {<<parent, hole>>})
    <2> SUFFICES ASSUME NEW d \in dirs, NEW j \in Index, <<d, j>> # <<parent, hole>>
                 PROVE  Slot(last, d, j) = Slot(disk, d, j)
        BY DEF OnlyChanges
    <2> QED
        BY <1>1, <1>17, <1>18
<1>15. ASSUME texts = WholeTexts PROVE OneMoreEntry(disk, dirs, last, more, parent, hole)
    <2>4. OneSlotDiffers(disk, dirs, last, parent, hole)
        <3>1. used \subseteq Cluster
            BY DEF Used
        <3> QED
            BY <1>1, <1>15, <1>17, <1>18, <3>1, Constants DEF OneSlotDiffers
    <2>5. KeptBut(disk, dirs, last, parent, hole)
        BY <2>4, OthersKept
    <2>6. GoodDisks(disk, dirs, last, more)
        BY <1>1, <1>10, <1>15, <1>17 DEF GoodDisks
    <2>8. \A j \in ChildIndex : ~Slot(last, location, j).live
        BY <1>19, Constants
    <2> HIDE DEF used, base
    <2> QED
        BY <1>17, <1>19, <2>5, <2>6, <2>8 DEF OneMoreEntry
<1>16. texts = WholeTexts => StoreStep(disk, last)
    BY <1>15, EntryCreated
<1>11. ASSUME Full(disk, dirs) PROVE Full(last, more)
    <2> SUFFICES ASSUME NEW c \in DataCluster, map[c] # EMPTY
                 PROVE  c \in used \cup {location}
        BY <1>10 DEF Full
    <2> QED
        BY <1>3, <1>11, Constants DEF Full
<1>12. writes # <<>>
    <2>1. Len(writes) = 4
        OBVIOUS
    <2> QED
        BY <2>1
<1> HIDE DEF writes, more
<1>13. NothingLost => Full(last, more)
    BY <1>11
<1>14. Promised(texts, writes, map, "mkdir")
    BY ONLY <1>10, <1>12, <1>13, <1>16 DEF last, Promised
<1> QED
    BY <1>10, <1>14, <1>17, <1>19, <1>20 DEF writes, last, more, HasTable

\* A good disk on which rm goes ahead: what it deletes is an entry somebody made,
\* never one of the table's own two, and a folder has nothing in it.  The own
\* entry 0 of a folder below the root has the folder's name, but leads to a
\* parent that has an entry in it.
LEMMA DeleteTakesAChild ==
    ASSUME Names \cap {RootName, ParentName} = {}, NEW texts, NEW dirs,
           disk \in [Cluster -> Content], Good(texts, disk, dirs),
           NEW parent \in dirs, NEW name \in Names, NEW ext,
           DeleteCode(parent, name, ext) = 0
    PROVE  LET index == FirstIndex(Deletable(TableAt(parent), name, ext))
           IN  /\ index \in ChildIndex /\ Slot(disk, parent, index).live
               /\ Slot(disk, parent, index).name = name
               /\ FolderAt(disk, parent, index) =>
                    \A j \in ChildIndex : ~Slot(disk, Slot(disk, parent, index).cluster, j).live
<1> DEFINE found == Deletable(TableAt(parent), name, ext)
           index == FirstIndex(found)
           entry == Slot(disk, parent, index)
<1>1. found # {} /\ found \in SUBSET Nat
    BY Constants DEF DeleteCode, Deletable
<1>2. index \in found
    <2> HIDE DEF found
    <2> QED
        BY <1>1, FirstIsMember
<1>3. index \in Index /\ entry.live /\ entry.name = name
    BY <1>2 DEF Deletable, Slot, TableAt
<1>4. entry.folder => \A j \in ChildIndex : ~Slot(disk, entry.cluster, j).live
    <2>1. entry.folder => IsEmptyFolder(TableAt(entry.cluster))
        BY <1>1 DEF DeleteCode, Slot, TableAt
    <2> QED
        BY <2>1 DEF IsEmptyFolder, Slot, TableAt
<1> HIDE DEF index
<1>5. index # 1
    <2>1. Slot(disk, parent, 1).name = ParentName
        BY DEF Good, Tree
    <2> QED
        BY <1>3, <2>1
<1>6. index # 0
    <2> SUFFICES ASSUME index = 0 PROVE FALSE
        OBVIOUS
    <2>1. CASE parent = ROOT_CLUSTER_NUMBER
        <3>1. Slot(disk, parent, 0).name = RootName
            BY <2>1 DEF Good, Tree
        <3> QED
            BY <1>3, <3>1
    <2>2. CASE parent # ROOT_CLUSTER_NUMBER
        <3>1. /\ Slot(disk, parent, 0).folder
              /\ \E b \in dirs, j \in ChildIndex :
                    /\ FolderAt(disk, b, j) /\ Slot(disk, b, j).cluster = parent
                    /\ Slot(disk, parent, 0).cluster = b
            BY <2>2 DEF Good, Tree
        <3>2. PICK b \in dirs, j \in ChildIndex :
                  FolderAt(disk, b, j) /\ Slot(disk, parent, 0).cluster = b
            BY <3>1
        <3> QED
            BY <1>4, <3>1, <3>2 DEF FolderAt
    <2> QED
        BY <2>1, <2>2
<1>7. index \in ChildIndex
    BY <1>3, <1>5, <1>6, FAT32Assumption DEF FAT32Assumption, Index, ChildIndex
<1> QED
    BY <1>3, <1>4, <1>7 DEF FolderAt, index

\* The clusters a file's deletion frees are clusters of its chain, and all of them
\* if the file does not end where a cluster does.
LEMMA FreedAreItsOwn ==
    ASSUME NEW texts, IInv, NEW entry \in SafeEntry, NEW dirs, NEW contents,
           IsFile(texts, contents, cluster_map, dirs, entry), ~entry.folder
    PROVE  /\ FreedClusters(entry) \subseteq Chain(cluster_map, entry.cluster)
           /\ entry.filesize % CLUSTER_SIZE # 0 =>
                 FreedClusters(entry) = Chain(cluster_map, entry.cluster)
<1> DEFINE start == entry.cluster
           amount == ClusterAmount(entry.filesize)
           count == ClustersFor(entry.filesize)
           hop == Hop(cluster_map, start)
<1>1. start \in Link /\ cluster_map \in MapType
    BY DEF SafeEntry, Entry, Link, IInv
<1>2. entry.filesize \in FileSizes /\ WellLinked(cluster_map, start, amount)
    BY DEF IsFile
<1>3. /\ amount \in Nat \ {0} /\ count \in 1 .. amount
      /\ entry.filesize % CLUSTER_SIZE # 0 => count = amount
    BY <1>2, BlocksFit
<1>4. Chain(cluster_map, start) = {hop[n] : n \in 0 .. (amount - 1)}
    BY <1>1, <1>2, PastTheEnd
<1>5. FreedClusters(entry) = {hop[n] : n \in 0 .. (count - 1)}
    BY DEF FreedClusters
<1> HIDE DEF hop, amount, count
<1>6. \A n \in 0 .. (count - 1) : n \in 0 .. (amount - 1)
    BY <1>3
<1> QED
    BY <1>3, <1>4, <1>5, <1>6

\* What delete() is about to take away.
EntryToDelete(texts, dirs, parent, index, newTable, map) ==
    /\ GoodBefore(texts, dirs)
    /\ parent \in dirs /\ index \in ChildIndex /\ Slot(disk, parent, index).live
    /\ FolderAt(disk, parent, index) =>
          \A j \in ChildIndex : ~Slot(disk, Slot(disk, parent, index).cluster, j).live
    /\ newTable = [TableAt(parent) EXCEPT ![index].live = FALSE]
    /\ map \in MapType
    /\ \A c \in Cluster : map[c] =
          IF c \in FreedClusters(Slot(disk, parent, index)) THEN EMPTY ELSE cluster_map[c]

\* When a deletion is over the disk is the one before without one entry.
LEMMA DeleteWritesAreGood ==
    ASSUME NEW texts, NEW dirs, NEW parent, NEW index, NEW newTable, NEW map,
           EntryToDelete(texts, dirs, parent, index, newTable, map)
    PROVE  LET entry == Slot(disk, parent, index)
               writes == DeleteWrites(map, parent, newTable)
               new == Written(disk, writes, Len(writes))
           IN  /\ Promised(texts, writes, map, "delete")
               /\ Good(texts, new, IF entry.folder THEN dirs \ {entry.cluster} ELSE dirs)
               /\ Slot(new, parent, index) = [entry EXCEPT !.live = FALSE]
               /\ OnlyChanges(disk, dirs, new, {<<parent, index>>})
<1> USE DEF EntryToDelete, GoodBefore
<1> DEFINE entry == Slot(disk, parent, index)
           dead == [entry EXCEPT !.live = FALSE]
           writes == DeleteWrites(map, parent, newTable)
           last == Written(disk, writes, Len(writes))
           killed == WithSlot(disk, parent, index, dead)
           freed == FreedClusters(entry)
           used == Used(disk, cluster_map, dirs)
           less == IF entry.folder THEN dirs \ {entry.cluster} ELSE dirs
<1>1. /\ disk \in [Cluster -> Content] /\ dirs \subseteq DataCluster \cup {ROOT_CLUSTER_NUMBER}
      /\ dirs \subseteq Cluster /\ parent \in Cluster /\ parent # FAT_CLUSTER_NUMBER
      /\ disk[BOOT_SECTOR] = Signature /\ cluster_map \in MapType
      /\ FAT_CLUSTER_NUMBER \in Cluster /\ FAT_CLUSTER_NUMBER # BOOT_SECTOR
      /\ BOOT_SECTOR \in Cluster
    BY Constants DEF IInv, Good, Tree, DataCluster, FAT_CLUSTER_NUMBER, BOOT_SECTOR,
                     ROOT_CLUSTER_NUMBER
<1>2. entry \in SafeEntry /\ dead \in SafeEntry /\ ~dead.live
    <2>1. entry \in SafeEntry
        BY <1>1, SlotIsEntry, Constants
    <2> HIDE DEF entry
    <2> QED
        BY <2>1 DEF SafeEntry, Entry
<1>3. /\ killed \in [Cluster -> Content] /\ MapOn(killed) = cluster_map
      /\ Good(texts, killed, less)
      /\ Used(killed, cluster_map, less) \subseteq used \ freed
      /\ NothingLost => used \ freed \subseteq Used(killed, cluster_map, less)
    <2>1. CASE entry.folder
        <3>1. FolderAt(disk, parent, index) /\ freed = {entry.cluster}
            BY <2>1 DEF FolderAt, FreedClusters
        <3>2. /\ killed \in [Cluster -> Content] /\ MapOn(killed) = MapOn(disk)
              /\ Good(texts, killed, dirs \ {entry.cluster})
              /\ Used(killed, MapOn(disk), dirs \ {entry.cluster}) =
                     Used(disk, MapOn(disk), dirs) \ {entry.cluster}
            <4>1. FolderEmpty(texts, disk, dirs, parent, index, dead)
                BY <1>1, <1>2, <3>1 DEF FolderEmpty
            <4> DEFINE gone == Slot(disk, parent, index).cluster
                       disk2 == WithSlot(disk, parent, index, dead)
            <4>2. /\ disk2 \in [Cluster -> Content] /\ MapOn(disk2) = MapOn(disk)
                  /\ Good(texts, disk2, dirs \ {gone})
                  /\ Used(disk2, MapOn(disk), dirs \ {gone}) =
                        Used(disk, MapOn(disk), dirs) \ {gone}
                <5> HIDE DEF dead, entry, EntryToDelete, GoodBefore
                <5> QED
                    BY ONLY <4>1, <1>1, <3>1, FolderKilled
            <4> QED
                BY <4>2
        <3>3. less = dirs \ {entry.cluster}
            BY <2>1
        <3> HIDE DEF less, killed, used, entry, freed
        <3> QED
            BY <3>1, <3>2, <3>3 DEF used
    <2>2. CASE ~entry.folder
        <3>1. FileAt(disk, parent, index) /\ ~FolderAt(disk, parent, index)
            BY <2>2 DEF FolderAt, FileAt
        <3>2. /\ killed \in [Cluster -> Content] /\ MapOn(killed) = MapOn(disk)
              /\ Good(texts, killed, dirs)
              /\ Used(killed, MapOn(disk), dirs) =
                     Used(disk, MapOn(disk), dirs) \ Chain(MapOn(disk), entry.cluster)
            <4> HIDE DEF dead, entry
            <4> QED
                BY <1>1, <1>2, <3>1, FileKilled DEF entry
        <3>3. less = dirs
            BY <2>2
        <3>4. IsFile(texts, disk, cluster_map, dirs, entry)
            BY <1>1, <3>1, FilesAre
        <3>5. /\ freed \subseteq Chain(cluster_map, entry.cluster)
              /\ NothingLost => freed = Chain(cluster_map, entry.cluster)
            <4>1. NothingLost => entry.filesize % CLUSTER_SIZE # 0
                BY <3>4 DEF NothingLost, IsFile
            <4> HIDE DEF entry
            <4> QED
                BY <1>2, <2>2, <3>4, <4>1, FreedAreItsOwn
        <3> HIDE DEF less, killed, used, entry, freed
        <3> QED
            BY <3>2, <3>3, <3>5 DEF used
    <2> QED
        BY <2>1, <2>2
<1>4. last = [killed EXCEPT ![FAT_CLUSTER_NUMBER] = Fat(map)]
    <2> DEFINE table == [AsTable(disk[parent]) EXCEPT ![index] = dead]
    <2>1. /\ Len(writes) = 2
          /\ writes[1][1] = FAT_CLUSTER_NUMBER /\ writes[1][2] = Fat(map)
          /\ writes[2][1] = parent /\ writes[2][2] = Table(newTable)
        BY DEF DeleteWrites, WriteFat, WriteTable
    <2> HIDE DEF writes
    <2>2. Written(disk, writes, 2) =
              [[disk EXCEPT ![writes[1][1]] = writes[1][2]] EXCEPT ![writes[2][1]] = writes[2][2]]
        BY <1>1, TwoWrites
    <2>3. newTable = table
        BY DEF TableAt, Slot
    <2> HIDE DEF table
    <2>4. last = [[disk EXCEPT ![FAT_CLUSTER_NUMBER] = Fat(map)] EXCEPT ![parent] = Table(table)]
        BY <2>1, <2>2, <2>3
    <2>5. killed = [disk EXCEPT ![parent] = Table(table)]
        BY DEF WithSlot, table
    <2> HIDE DEF last, killed
    <2> DEFINE want == [killed EXCEPT ![FAT_CLUSTER_NUMBER] = Fat(map)]
    <2>6. \A c \in Cluster : last[c] = want[c]
        BY <1>1, <1>3, <2>4, <2>5
    <2>7. last = [c \in Cluster |-> last[c]] /\ want = [c \in Cluster |-> want[c]]
        BY <1>1, <1>3, <2>4, <2>5
    <2> HIDE DEF want
    <2>8. [c \in Cluster |-> last[c]] = [c \in Cluster |-> want[c]]
        BY <2>6
    <2>9. last = want
        BY <2>7, <2>8, Zenon
    <2> QED
        BY <2>9 DEF want
<1> HIDE DEF last, killed, less, used, freed, entry
<1>5. Fat(map) \in Content
    BY ContentKinds
<1>6. /\ last \in [Cluster -> Content] /\ last[FAT_CLUSTER_NUMBER] = Fat(map)
      /\ \A c \in Cluster \ {FAT_CLUSTER_NUMBER} : last[c] = killed[c]
    BY <1>1, <1>3, <1>4, <1>5
<1>7. MapOn(last) = map
    BY <1>6 DEF MapOn, Fat
<1>8. Good(texts, last, less) /\ Used(last, map, less) = Used(killed, cluster_map, less)
    <2>1. last[BOOT_SECTOR] = Signature
        BY <1>1, <1>3, <1>6 DEF Good
    <2>2. FAT_CLUSTER_NUMBER \notin used
        BY <1>1, UsedIsTaken, Constants DEF used
    <2>3. \A c \in Used(killed, cluster_map, less) :
              last[c] = killed[c] /\ map[c] = cluster_map[c]
        <3> TAKE c \in Used(killed, cluster_map, less)
        <3>1. c \in used /\ c \notin freed /\ c \in Cluster
            BY <1>3 DEF used, Used
        <3> QED
            BY <1>6, <2>2, <3>1 DEF freed, entry
    <2> QED
        BY <1>3, <1>6, <1>7, <2>1, <2>3, UnusedMayChange
<1>9. ASSUME Full(disk, dirs), NothingLost PROVE Full(last, less)
    <2> SUFFICES ASSUME NEW c \in DataCluster, map[c] # EMPTY
                 PROVE  c \in Used(killed, cluster_map, less)
        BY <1>7, <1>8 DEF Full
    <2>1. c \in Cluster
        BY Constants
    <2>2. c \notin freed /\ cluster_map[c] # EMPTY
        BY <2>1 DEF freed, entry
    <2>3. c \in used
        BY <1>9, <2>2 DEF Full, used
    <2> QED
        BY <1>3, <1>9, <2>2, <2>3
<1>12. /\ \A c \in Cluster \ {parent} : killed[c] = disk[c]
       /\ Slot(killed, parent, index) = dead
       /\ \A j \in Index \ {index} : Slot(killed, parent, j) = Slot(disk, parent, j)
    <2>1. Tree(disk, dirs) /\ parent \in dirs /\ index \in ChildIndex
        BY DEF Good
    <2> HIDE DEF dead, EntryToDelete, GoodBefore
    <2> QED
        BY <1>1, <1>2, <2>1, OneSlotChanges DEF killed
<1>13. parent \in less
    <2>1. entry.folder => entry.cluster # parent
        <3>1. entry.folder => /\ FolderAt(disk, parent, index)
                              /\ ~Slot(disk, entry.cluster, index).live
            BY DEF FolderAt, entry
        <3> QED
            BY <3>1 DEF entry
    <2> QED
        BY <2>1 DEF less
<1>16. /\ Slot(last, parent, index) = dead
       /\ OnlyChanges(disk, dirs, last, {<<parent, index>>})
    <2>1. \A d \in dirs : \A j : Slot(last, d, j) = Slot(killed, d, j)
        BY <1>1, <1>6, Constants DEF Slot, Good, Tree, DataCluster, FAT_CLUSTER_NUMBER,
                                      ROOT_CLUSTER_NUMBER
    <2>2. \A d \in dirs \ {parent} : \A j : Slot(killed, d, j) = Slot(disk, d, j)
        BY <1>1, <1>12 DEF Slot
    <2> HIDE DEF dead
    <2> QED
        BY <1>12, <2>1, <2>2 DEF OnlyChanges
<1>14. ASSUME texts = WholeTexts PROVE OneMoreEntry(last, less, disk, dirs, parent, index)
    <2>1. \A j : Slot(last, parent, j) = Slot(killed, parent, j)
        BY <1>1, <1>6 DEF Slot
    <2>2. OneSlotDiffers(last, less, disk, parent, index)
        <3>1. \A c \in Used(last, map, less) : c # parent => disk[c] = last[c]
            <4> TAKE c \in Used(last, map, less)
            <4>1. c \in Cluster /\ c # FAT_CLUSTER_NUMBER
                BY <1>1, <1>6, <1>7, <1>8, UsedIsTaken, Constants DEF Used
            <4> QED
                BY <1>6, <1>12, <4>1
        <3>2. \A j \in ChildIndex : j # index => Slot(disk, parent, j) = Slot(last, parent, j)
            BY <1>12, <2>1, Constants
        <3> QED
            BY <1>6, <1>7, <1>8, <1>13, <1>14, <3>1, <3>2 DEF OneSlotDiffers
    <2>3. KeptBut(last, less, disk, parent, index)
        BY <2>2, OthersKept
    <2>4. GoodDisks(last, less, disk, dirs)
        BY <1>1, <1>6, <1>8, <1>14 DEF GoodDisks
    <2>5. ~Slot(last, parent, index).live /\ Slot(disk, parent, index).live
        BY <1>2, <1>12, <2>1
    <2>6. less \subseteq dirs /\ index \in ChildIndex
        BY DEF less
    <2>7. \A b \in dirs \ less, j \in ChildIndex : ~Slot(disk, b, j).live
        <3>1. \A b \in dirs \ less : entry.folder /\ b = entry.cluster
            BY DEF less
        <3>2. entry.folder => FolderAt(disk, parent, index)
            BY DEF FolderAt, entry
        <3> QED
            BY <3>1, <3>2 DEF entry
    <2>8. FolderAt(disk, parent, index) => Slot(disk, parent, index).cluster \in dirs \ less
        <3>1. FolderAt(disk, parent, index) => entry.folder /\ entry.cluster \in dirs
            BY DEF FolderAt, entry, Good, Tree
        <3> QED
            BY <3>1 DEF less, entry
    <2> QED
        BY <1>13, <2>3, <2>4, <2>5, <2>6, <2>7, <2>8 DEF OneMoreEntry
<1>15. texts = WholeTexts => StoreStep(disk, last)
    BY <1>14, EntryRemoved
<1>10. writes # <<>>
    BY DEF DeleteWrites
<1>11. NothingLost => Full(last, less)
    BY <1>9
<1>17. Promised(texts, writes, map, "delete")
    BY ONLY <1>7, <1>8, <1>10, <1>11, <1>15 DEF last, Promised
<1> QED
    BY ONLY <1>8, <1>16, <1>17 DEF last, less, entry

\* What move() is about to move.
EntryToMove(texts, dirs, from, to, source, hole, entry, newFrom, newTo) ==
    /\ GoodBefore(texts, dirs)
    /\ from \in dirs /\ to \in dirs /\ from # to
    /\ source \in ChildIndex /\ hole \in ChildIndex
    /\ ~FolderAt(disk, from, source) /\ ~Slot(disk, to, hole).live
    /\ entry \in SafeEntry /\ entry.name \in Names
    /\ entry.live = Slot(disk, from, source).live
    /\ entry.folder = Slot(disk, from, source).folder
    /\ entry.cluster = Slot(disk, from, source).cluster
    /\ entry.filesize = Slot(disk, from, source).filesize
    /\ newFrom = [TableAt(from) EXCEPT ![source].live = FALSE]
    /\ newTo = [TableAt(to) EXCEPT ![hole] = entry]

\* While an entry moves the disk is the one before, then that without the entry,
\* then that with it in its new place; a dead entry makes no difference to it.
LEMMA MoveWritesAreGood ==
    ASSUME NEW texts, NEW dirs, NEW from, NEW to, NEW source, NEW hole, NEW entry, NEW newFrom,
           NEW newTo, EntryToMove(texts, dirs, from, to, source, hole, entry, newFrom, newTo)
    PROVE  LET writes == MoveWrites(from, newFrom, to, newTo)
               new == Written(disk, writes, Len(writes))
           IN  /\ Promised(texts, writes, cluster_map, "move")
               /\ Good(texts, new, dirs) /\ Slot(new, to, hole) = entry
               /\ Slot(new, from, source) = [Slot(disk, from, source) EXCEPT !.live = FALSE]
               /\ OnlyChanges(disk, dirs, new, {<<from, source>>, <<to, hole>>})
<1> USE DEF EntryToMove, GoodBefore
<1> DEFINE moved == Slot(disk, from, source)
           dead == [moved EXCEPT !.live = FALSE]
           writes == MoveWrites(from, newFrom, to, newTo)
           killed == WithSlot(disk, from, source, dead)
           done == WithSlot(killed, to, hole, entry)
           used == Used(disk, cluster_map, dirs)
           chain == Chain(cluster_map, entry.cluster)
<1>0. to \in dirs /\ hole \in ChildIndex /\ entry \in SafeEntry /\ entry.name \in Names
    OBVIOUS
<1>1. disk \in [Cluster -> Content] /\ dirs \subseteq Cluster /\ cluster_map \in MapType
      /\ source \in Index /\ hole \in Index
    BY Constants DEF IInv, Good, Tree, ChildIndex
<1>2. moved \in SafeEntry /\ dead \in SafeEntry /\ ~dead.live
    <2>1. moved \in SafeEntry
        BY <1>1, SlotIsEntry
    <2> HIDE DEF moved
    <2> QED
        BY <2>1 DEF SafeEntry, Entry
<1> HIDE DEF dead
<1>3. /\ killed \in [Cluster -> Content] /\ Good(texts, killed, dirs) /\ MapOn(killed) = MapOn(disk)
      /\ Used(killed, MapOn(disk), dirs) =
            IF FileAt(disk, from, source)
            THEN Used(disk, MapOn(disk), dirs) \ Chain(MapOn(disk), moved.cluster)
            ELSE Used(disk, MapOn(disk), dirs)
    <2>1. /\ Good(texts, disk, dirs) /\ from \in dirs /\ source \in ChildIndex
          /\ ~FolderAt(disk, from, source)
        OBVIOUS
    <2> HIDE DEF EntryToMove, GoodBefore
    <2> QED
        BY ONLY <1>1, <1>2, <2>1, FileKilled
<1>4. \A c \in Cluster \ {from} : killed[c] = disk[c]
    BY <1>1, <1>2, OneSlotChanges DEF Good
<1>5. killed[to] = disk[to] /\ Slot(killed, to, hole) = Slot(disk, to, hole)
    BY <1>1, <1>4 DEF Slot
<1>6. /\ Good(texts, done, dirs) /\ MapOn(done) = MapOn(killed)
      /\ Used(done, MapOn(killed), dirs) = used
    <2>1. CASE FileAt(disk, from, source)
        <3>1. entry.live /\ ~entry.folder
            BY <2>1 DEF FileAt
        <3>2. /\ IsFile(texts, disk, cluster_map, dirs, moved)
              /\ Chain(cluster_map, moved.cluster) \subseteq used
            BY <1>1, <2>1, FilesAre
        <3>3. Chain(cluster_map, moved.cluster) \cap dirs = {}
            BY <3>2 DEF IsFile
        <3>4. \A c \in Cluster \ dirs : killed[c] = disk[c]
            BY <1>4
        <3>5. IsFile(texts, killed, cluster_map, dirs, moved)
            <4> HIDE DEF moved, killed
            <4> QED
                BY <1>1, <1>2, <3>2, <3>3, <3>4, FileStays
        <3>6. IsFile(texts, killed, MapOn(killed), dirs, entry)
            BY <1>3, <3>5 DEF IsFile
        <3>7. Chain(MapOn(killed), entry.cluster) \cap Used(killed, MapOn(killed), dirs) = {}
            BY <1>3, <2>1
        <3>8. Used(killed, MapOn(killed), dirs) \cup Chain(MapOn(killed), entry.cluster) = used
            BY <1>3, <2>1, <3>2
        <3>9. /\ Good(texts, done, dirs) /\ MapOn(done) = MapOn(killed)
              /\ Used(done, MapOn(killed), dirs) =
                    Used(killed, MapOn(killed), dirs) \cup Chain(MapOn(killed), entry.cluster)
            <4>1. ~Slot(killed, to, hole).live
                BY <1>5
            <4> HIDE DEF killed, EntryToMove, GoodBefore
            <4> QED
                BY ONLY <1>0, <1>3, <3>1, <3>6, <3>7, <4>1, FileAdded
        <3> QED
            BY <3>8, <3>9
    <2>2. CASE ~FileAt(disk, from, source)
        <3>1. ~entry.live
            BY <2>2 DEF FileAt, FolderAt
        <3>2. ~FileAt(killed, to, hole) /\ ~FolderAt(killed, to, hole)
            BY <1>5 DEF FileAt, FolderAt
        <3>3. /\ Good(texts, done, dirs) /\ MapOn(done) = MapOn(killed)
              /\ Used(done, MapOn(killed), dirs) = Used(killed, MapOn(killed), dirs)
            <4> HIDE DEF killed, EntryToMove, GoodBefore
            <4> QED
                BY ONLY <1>0, <1>3, <3>1, <3>2, FileKilled
        <3> QED
            BY <1>3, <2>2, <3>3
    <2> QED
        BY <2>1, <2>2
<1>7. /\ Len(writes) = 2 /\ writes # <<>>
      /\ writes[1][1] = from /\ writes[1][2] = Table(newFrom)
      /\ writes[2][1] = to /\ writes[2][2] = Table(newTo)
    BY DEF MoveWrites, WriteTable
<1>8. /\ Table(newFrom) = Table([AsTable(disk[from]) EXCEPT ![source] = dead])
      /\ Table(newTo) = Table([AsTable(killed[to]) EXCEPT ![hole] = entry])
    BY <1>5 DEF TableAt, Slot, dead
<1> HIDE DEF writes
<1>9. /\ Written(disk, writes, 0) = disk
      /\ Written(disk, writes, 1) = [disk EXCEPT ![from] = Table(newFrom)]
      /\ Written(disk, writes, 2) =
            [[disk EXCEPT ![from] = Table(newFrom)] EXCEPT ![to] = Table(newTo)]
    BY <1>1, <1>7, TwoWrites
<1>10. Written(disk, writes, 1) = killed /\ Written(disk, writes, 2) = done
    BY <1>8, <1>9 DEF WithSlot
<1> HIDE DEF killed, done
<1>11. /\ \A c \in Cluster \ {from} : killed[c] = disk[c]
       /\ Slot(killed, from, source) = dead
       /\ \A j \in Index \ {source} : Slot(killed, from, j) = Slot(disk, from, j)
    <2>1. Tree(disk, dirs) /\ from \in dirs /\ source \in ChildIndex
        BY DEF Good
    <2> HIDE DEF EntryToMove, GoodBefore
    <2> QED
        BY ONLY <1>1, <1>2, <2>1, OneSlotChanges DEF killed
<1>12. /\ done \in [Cluster -> Content]
       /\ \A c \in Cluster \ {to} : done[c] = killed[c]
       /\ Slot(done, to, hole) = entry
       /\ \A j \in Index \ {hole} : Slot(done, to, j) = Slot(killed, to, j)
    <2>1. Tree(killed, dirs)
        BY <1>3 DEF Good
    <2> HIDE DEF EntryToMove, GoodBefore
    <2> QED
        BY ONLY <1>0, <1>3, <2>1, OneSlotChanges DEF done
<1>24. /\ Slot(done, from, source) = dead
       /\ OnlyChanges(disk, dirs, done, {<<from, source>>, <<to, hole>>})
    <2>1. from \in Cluster \ {to} /\ dirs \subseteq Cluster
        BY <1>1
    <2>2. \A d \in dirs \ {from} : \A j : Slot(killed, d, j) = Slot(disk, d, j)
        BY <1>11, <2>1 DEF Slot
    <2>3. \A d \in dirs \ {to} : \A j : Slot(done, d, j) = Slot(killed, d, j)
        BY <1>12, <2>1 DEF Slot
    <2>4. Slot(done, from, source) = dead
        BY <1>11, <2>1, <2>3
    <2>5. ASSUME NEW d \in dirs, NEW j \in Index,
                 <<d, j>> \notin {<<from, source>>, <<to, hole>>}
          PROVE  Slot(done, d, j) = Slot(disk, d, j)
        <3>1. Slot(done, d, j) = Slot(killed, d, j)
            BY <1>12, <2>3, <2>5
        <3>2. Slot(killed, d, j) = Slot(disk, d, j)
            BY <1>11, <2>2, <2>5
        <3> QED
            BY <3>1, <3>2
    <2> QED
        BY <2>4, <2>5 DEF OnlyChanges
<1>13. ASSUME texts = WholeTexts
       PROVE  /\ GoodDisks(killed, dirs, disk, dirs) /\ GoodDisks(killed, dirs, done, dirs)
              /\ from \in dirs /\ to \in dirs /\ source \in ChildIndex /\ hole \in ChildIndex
    BY <1>1, <1>3, <1>6, <1>12, <1>13 DEF GoodDisks
<1>14. ASSUME texts = WholeTexts PROVE OneSlotDiffers(killed, dirs, disk, from, source)
    <2>1. \A c \in Used(killed, MapOn(killed), dirs) : c # from => disk[c] = killed[c]
        BY <1>11 DEF Used
    <2>2. \A j \in ChildIndex : j # source => Slot(disk, from, j) = Slot(killed, from, j)
        BY <1>11, Constants
    <2> QED
        BY <1>13, <1>14, <2>1, <2>2 DEF OneSlotDiffers, GoodDisks
<1>15. ASSUME texts = WholeTexts PROVE OneSlotDiffers(killed, dirs, done, to, hole)
    <2>1. \A c \in Used(killed, MapOn(killed), dirs) : c # to => done[c] = killed[c]
        BY <1>12 DEF Used
    <2>2. \A j \in ChildIndex : j # hole => Slot(done, to, j) = Slot(killed, to, j)
        BY <1>12, Constants
    <2> QED
        BY <1>13, <1>15, <2>1, <2>2 DEF OneSlotDiffers, GoodDisks
<1>16. ~Slot(killed, from, source).live /\ ~Slot(killed, to, hole).live
    BY <1>2, <1>5, <1>11
<1>17. ASSUME texts = WholeTexts
       PROVE  /\ StoreStep(disk, done) /\ StoreStep(done, disk)
              /\ StoreStep(done, killed) /\ StoreStep(done, done)
    <2>1. CASE FileAt(disk, from, source)
        <3>1. /\ moved.live /\ ~moved.folder
              /\ FileAt(done, to, hole) /\ ~FolderAt(done, to, hole)
              /\ ~FolderAt(disk, from, source)
            BY <1>12, <2>1 DEF FileAt, FolderAt
        <3>2. KeptBut(killed, dirs, disk, from, source) /\ KeptBut(killed, dirs, done, to, hole)
            BY <1>14, <1>15, <1>17, OthersKept
        <3>3. OneMoreEntry(killed, dirs, disk, dirs, from, source)
            BY <1>13, <1>16, <1>17, <3>1, <3>2 DEF OneMoreEntry
        <3>4. OneMoreEntry(killed, dirs, done, dirs, to, hole)
            BY <1>12, <1>13, <1>16, <1>17, <3>1, <3>2 DEF OneMoreEntry, FileAt
        <3>5. /\ Slot(done, to, hole).cluster = moved.cluster
              /\ Slot(done, to, hole).filesize = moved.filesize
            BY <1>12
        <3>6. done[moved.cluster] = disk[moved.cluster]
            <4>1. IsFile(texts, disk, cluster_map, dirs, moved) /\ moved.cluster \in Link
                BY <1>1, <2>1, FilesAre
            <4>2. moved.cluster \in Chain(cluster_map, moved.cluster)
                BY <1>1, <4>1, FileStarts
            <4>3. moved.cluster \notin dirs /\ moved.cluster \in Cluster
                BY <4>1, <4>2, Constants DEF IsFile, Chain
            <4> QED
                BY <1>11, <1>12, <4>3
        <3>7. StoreStep(disk, done) /\ StoreStep(done, disk)
            <4> HIDE DEF EntryToMove, GoodBefore
            <4>1. from # to
                BY DEF EntryToMove
            <4>2. StoreStep(disk, done)
                BY ONLY <2>1, <3>1, <3>3, <3>4, <3>5, <3>6, <4>1, EntryMoved DEF moved
            <4>3. StoreStep(done, disk)
                BY ONLY <2>1, <3>1, <3>3, <3>4, <3>5, <3>6, <4>1, EntryMoved DEF moved
            <4> QED
                BY <4>2, <4>3
        <3>8. StoreStep(done, killed)
            BY <3>4, EntryRemoved
        <3>9. StoreStep(done, done)
            BY DEF StoreStep
        <3> QED
            BY <3>7, <3>8, <3>9
    <2>2. CASE ~FileAt(disk, from, source)
        <3>1. ~Slot(disk, from, source).live /\ ~Slot(done, to, hole).live
            BY <1>12, <2>2 DEF FileAt, FolderAt
        <3>2. StoreAt(disk) = StoreAt(killed)
            BY <1>13, <1>14, <1>16, <1>17, <3>1, SameStoreButOne
        <3>3. StoreAt(done) = StoreAt(killed)
            BY <1>13, <1>15, <1>16, <1>17, <3>1, SameStoreButOne
        <3> QED
            BY <3>2, <3>3 DEF StoreStep
    <2> QED
        BY <2>1, <2>2
<1>18. \A k \in 0 .. Len(writes) :
           /\ Good(texts, Written(disk, writes, k), dirs)
           /\ texts = WholeTexts => StoreStep(done, Written(disk, writes, k))
    <2> TAKE k \in 0 .. Len(writes)
    <2>1. k = 0 \/ k = 1 \/ k = 2
        BY <1>7
    <2> QED
        BY <1>3, <1>6, <1>9, <1>10, <1>17, <2>1
<1>19. Full(disk, dirs) => Full(done, dirs)
    BY <1>3, <1>6 DEF Full
<1>20. MapOn(done) = cluster_map
    BY <1>3, <1>6
<1>21. NothingLost => Full(done, dirs)
    BY <1>19
<1>22. done = Written(disk, writes, Len(writes)) /\ writes # <<>> /\ Good(texts, done, dirs)
    BY <1>6, <1>7, <1>10
<1>23. Promised(texts, writes, cluster_map, "move")
    BY ONLY <1>18, <1>20, <1>21, <1>22, <1>17 DEF Promised
<1> QED
    BY <1>12, <1>22, <1>23, <1>24 DEF writes, dead

-----------------------------------------------------------------------------
(* The calls *)

\* A call keeps the invariant if the disk will be good when its writes are over,
\* and until then where it must be, and takes the store one operation further.
LEMMA CallKeepsSound ==
    ASSUME NEW texts, SoundFor(texts), Idle, IInv', UNCHANGED disk, call' # "none",
           Promised(texts, pending', cluster_map', call')
    PROVE  SoundFor(texts)' /\ (texts = WholeTexts => StoreStep(Settled, Settled'))
<1>1. Settled' = Written(disk, pending', Len(pending')) /\ Settled = disk
    BY IdleIsGood DEF Settled
<1>2. (cluster_map = MapOn(Settled))'
    BY <1>1 DEF Promised
<1>3. (\E dirs : Good(texts, Settled, dirs) /\ (NothingLost => Full(Settled, dirs)))'
    BY <1>1 DEF Promised
<1>4. (call \in {"none", "write", "move"} =>
          \A k \in 0 .. Len(pending) :
              /\ \E dirs : Good(texts, Written(disk, pending, k), dirs)
              /\ texts = WholeTexts => StoreStep(Settled, Written(disk, pending, k)))'
    BY <1>1 DEF Promised
<1>5. (Idle <=> call = "none")'
    BY DEF Idle, Promised
<1>6. texts = WholeTexts => StoreStep(Settled, Settled')
    BY <1>1 DEF Promised
<1> QED
    BY <1>2, <1>3, <1>4, <1>5, <1>6 DEF SoundFor

\* A buffer has a whole text.
LEMMA BufferIsText ==
    ASSUME NEW tag \in Tags, NEW size \in FileSizes
    PROVE  /\ Buffer(tag, size) \in [1 .. ClusterAmount(size) -> Content]
           /\ \E text \in WholeTexts :
                 \A j \in 1 .. ClustersFor(size) : Buffer(tag, size)[j] = text[j]
<1>1. ClusterAmount(size) \in Nat \ {0} /\ ClustersFor(size) \in 1 .. ClusterAmount(size)
    BY BlocksFit
<1>2. [j \in Nat \ {0} |-> Data(tag, j)] \in WholeTexts
    BY DEF WholeTexts
<1>3. ASSUME NEW j \in 1 .. ClustersFor(size)
      PROVE  Buffer(tag, size)[j] = [i \in Nat \ {0} |-> Data(tag, i)][j]
    BY <1>1 DEF Buffer
<1> QED
    BY <1>1, <1>2, <1>3, ContentKinds DEF Buffer

LEMMA WriteFileIsSound ==
    ASSUME SensibleClients, SoundFor(WholeTexts), WriteFile
    PROVE  SoundFor(WholeTexts)' /\ StoreStep(Settled, Settled')
<1>1. PICK parent \in Directories, name \in Names, ext \in Extensions,
           size \in FileSizes, tag \in Tags :
          write_file(parent, name, ext, size, Buffer(tag, size))
    BY DEF WriteFile
<1> DEFINE amount == ClusterAmount(size)
           hole == FirstIndex(Holes(TableAt(parent)))
           Entry1(locations) ==
               [name |-> name, ext |-> ext, folder |-> FALSE, live |-> TRUE,
                cluster |-> locations[1], filesize |-> size]
           NewTable(locations) == [TableAt(parent) EXCEPT ![hole] = Entry1(locations)]
<1>2. PICK locations \in Locations(amount) :
          /\ cluster_map' = LinkChain(locations)
          /\ pending' = FileWrites(parent, NewTable(locations), locations,
                                   Buffer(tag, size), LinkChain(locations))
          /\ UNCHANGED disk
    BY <1>1 DEF write_file
<1> DEFINE entry == Entry1(locations)
           newTable == NewTable(locations)
<1>3. IInv /\ IInv' /\ Idle /\ call' = "write"
    BY WriteFileKeeps DEF SoundFor, WriteFile
<1>4. GoodBefore(WholeTexts, Directories) /\ parent \in Cluster
    BY <1>3, IdleIsGood DEF GoodBefore
<1>5. amount \in Nat \ {0}
    BY AmountIsPositive
<1>6. hole \in ChildIndex /\ ~Slot(disk, parent, hole).live /\ amount <= CLUSTER_MAP_SIZE
    <2>1. WriteCode(parent, name, ext, FALSE, amount) = 0
        BY <1>1, Zenon DEF write_file
    <2> QED
        BY <1>3, <1>4, <1>5, <2>1, WriteHasRoom
<1>7. entry \in SafeEntry /\ entry.live /\ ~entry.folder /\ entry.cluster = locations[1]
      /\ entry.filesize = size /\ entry.name \in Names
    <2>1. locations[1] \in Cluster /\ locations[1] # FAT_CLUSTER_NUMBER
        BY <1>3, <1>5, LinkedMap, Constants
    <2> QED
        BY <2>1 DEF SafeEntry, Entry
<1> HIDE DEF hole
<1>8. newTable = [TableAt(parent) EXCEPT ![hole] = entry]
    OBVIOUS
<1> HIDE DEF entry, newTable
<1>9. FileToWrite(WholeTexts, Directories, parent, hole, entry, newTable, size,
                 Buffer(tag, size), locations)
    BY <1>4, <1>6, <1>7, <1>8, BufferIsText DEF FileToWrite
<1>10. Promised(WholeTexts, FileWrites(parent, newTable, locations, Buffer(tag, size),
                                       LinkChain(locations)),
                LinkChain(locations), "write")
    BY ONLY <1>9, FileWritesAreGood
<1>11. Promised(WholeTexts, pending', cluster_map', call')
    BY <1>2, <1>3, <1>10 DEF newTable
<1> QED
    BY <1>2, <1>3, <1>11, CallKeepsSound

LEMMA DeleteIsSound ==
    ASSUME SensibleClients, SoundFor(WholeTexts), Delete
    PROVE  SoundFor(WholeTexts)' /\ StoreStep(Settled, Settled')
<1>1. PICK parent \in Directories, name \in Names, ext \in Extensions :
          delete(parent, name, ext)
    BY DEF Delete
<1> DEFINE index == FirstIndex(Deletable(TableAt(parent), name, ext))
           map == [c \in Cluster |->
                      IF c \in FreedClusters(TableAt(parent)[index])
                      THEN EMPTY ELSE cluster_map[c]]
           newTable == [TableAt(parent) EXCEPT ![index].live = FALSE]
<1>2. /\ DeleteCode(parent, name, ext) = 0
      /\ cluster_map' = map /\ pending' = DeleteWrites(map, parent, newTable)
      /\ UNCHANGED disk
    BY <1>1 DEF delete
<1>3. IInv /\ IInv' /\ Idle /\ call' = "delete"
    BY DeleteKeeps DEF SoundFor, Delete
<1>4. GoodBefore(WholeTexts, Directories) /\ disk \in [Cluster -> Content] /\ Good(WholeTexts, disk, Directories)
    BY <1>3, IdleIsGood DEF GoodBefore
<1>5. /\ index \in ChildIndex /\ Slot(disk, parent, index).live
      /\ FolderAt(disk, parent, index) =>
            \A j \in ChildIndex : ~Slot(disk, Slot(disk, parent, index).cluster, j).live
    <2>1. DeleteCode(parent, name, ext) = 0
        BY <1>2
    <2> QED
        BY <1>4, <2>1, DeleteTakesAChild DEF SensibleClients
<1>6. /\ map \in MapType
      /\ \A c \in Cluster : map[c] =
            IF c \in FreedClusters(Slot(disk, parent, index)) THEN EMPTY ELSE cluster_map[c]
    <2>1. map \in MapType
        BY <1>2, <1>3 DEF IInv
    <2>2. TableAt(parent)[index] = Slot(disk, parent, index)
        BY DEF TableAt, Slot
    <2> QED
        BY <2>1, <2>2
<1> HIDE DEF index
<1>7. newTable = [TableAt(parent) EXCEPT ![index].live = FALSE]
    OBVIOUS
<1> HIDE DEF map, newTable
<1>8. EntryToDelete(WholeTexts, Directories, parent, index, newTable, map)
    BY <1>4, <1>5, <1>6, <1>7 DEF EntryToDelete
<1>9. Promised(WholeTexts, DeleteWrites(map, parent, newTable), map, "delete")
    BY ONLY <1>8, DeleteWritesAreGood
<1> QED
    BY <1>2, <1>3, <1>9, CallKeepsSound

LEMMA MoveIsSound ==
    ASSUME SensibleClients, SoundFor(WholeTexts), Move
    PROVE  SoundFor(WholeTexts)' /\ StoreStep(Settled, Settled')
<1>1. PICK from \in Directories, to \in Directories, name \in Names,
           newName \in Names, ext \in Extensions \cup {NoExt} :
          /\ from # to \/ "rename" \in OPERATIONS
          /\ \A i \in Movable(TableAt(from), name, ext) :
                TableAt(from)[i].live /\ TableAt(from)[i].folder =>
                    "move_folder" \in OPERATIONS
          /\ move(from, name, ext, to, newName, ext)
    BY DEF Move
<1> DEFINE sources == Movable(TableAt(from), name, ext)
           holes == Holes(TableAt(to))
           source == FirstIndex(sources)
           hole == FirstIndex(holes)
           entry == [TableAt(from)[source] EXCEPT !.name = newName, !.ext = ext]
           newFrom == [TableAt(from) EXCEPT ![source].live = FALSE]
           newTo == [TableAt(to) EXCEPT ![hole] = entry]
<1>2. /\ pending' = MoveWrites(from, newFrom, to, newTo)
      /\ UNCHANGED <<cluster_map, disk>>
      /\ MoveCode(from, name, ext, to) = 0
    BY <1>1 DEF move
<1>3. IInv /\ IInv' /\ Idle /\ call' = "move"
    BY MoveKeeps DEF SoundFor, Move
<1>4. /\ GoodBefore(WholeTexts, Directories) /\ disk \in [Cluster -> Content]
      /\ from \in Cluster /\ to \in Cluster
    BY <1>3, IdleIsGood DEF GoodBefore
<1>5. source \in sources /\ source \in ChildIndex /\ hole \in holes /\ hole \in ChildIndex
    <2>1. sources # {} /\ holes # {}
        BY <1>2 DEF MoveCode
    <2>2. /\ sources \in SUBSET Nat /\ sources \subseteq ChildIndex
          /\ holes \in SUBSET Nat /\ holes \subseteq ChildIndex
        BY Constants DEF Movable, Holes
    <2> HIDE DEF sources, holes
    <2>3. source \in sources /\ hole \in holes
        BY <2>1, <2>2, FirstIsMember
    <2> QED
        BY <2>2, <2>3
<1>6. ~FolderAt(disk, from, source) /\ ~Slot(disk, to, hole).live /\ from # to
    <2>1. "rename" \notin OPERATIONS /\ "move_folder" \notin OPERATIONS
        BY DEF SensibleClients
    <2>2. ~(TableAt(from)[source].live /\ TableAt(from)[source].folder)
        BY <1>1, <1>5, <2>1
    <2>3. ~TableAt(to)[hole].live
        BY <1>5 DEF Holes
    <2> QED
        BY <1>1, <2>1, <2>2, <2>3 DEF FolderAt, Slot, TableAt
<1>7. /\ entry \in SafeEntry /\ entry.name \in Names
      /\ entry.live = Slot(disk, from, source).live
      /\ entry.folder = Slot(disk, from, source).folder
      /\ entry.cluster = Slot(disk, from, source).cluster
      /\ entry.filesize = Slot(disk, from, source).filesize
    <2>1. TableAt(from)[source] = Slot(disk, from, source)
        BY DEF TableAt, Slot
    <2>2. Slot(disk, from, source) \in SafeEntry
        BY <1>4, <1>5, SlotIsEntry, Constants
    <2> HIDE DEF source
    <2> QED
        BY <2>1, <2>2 DEF SafeEntry, Entry
<1> HIDE DEF source, hole, entry
<1>8. /\ newFrom = [TableAt(from) EXCEPT ![source].live = FALSE]
      /\ newTo = [TableAt(to) EXCEPT ![hole] = entry]
    OBVIOUS
<1> HIDE DEF newFrom, newTo
<1>9. EntryToMove(WholeTexts, Directories, from, to, source, hole, entry, newFrom, newTo)
    BY <1>4, <1>5, <1>6, <1>7, <1>8 DEF EntryToMove
<1>10. Promised(WholeTexts, MoveWrites(from, newFrom, to, newTo), cluster_map, "move")
    BY ONLY <1>9, MoveWritesAreGood
<1> QED
    BY <1>2, <1>3, <1>10, CallKeepsSound

\* What a new folder's table holds.
LEMMA NewTableHolds ==
    ASSUME NEW name, NEW parent, NEW residue
    PROVE  LET table == init_directory_table(name, parent, residue)
           IN  /\ table[0].name = name /\ table[0].folder /\ table[0].cluster = parent
               /\ table[1].name = ParentName /\ table[1].cluster = parent
               /\ \A j \in ChildIndex : table[j] = residue
<1> DEFINE table == init_directory_table(name, parent, residue)
           Own(n) == [BlankEntry EXCEPT !.name = n, !.folder = TRUE, !.live = TRUE,
                                       !.cluster = parent]
<1>1. 0 \in Index /\ 1 \in Index /\ \A j \in ChildIndex : j \in Index /\ j \notin {0, 1}
    BY Constants DEF ChildIndex
<1>2. table[0] = Own(name) /\ table[1] = Own(ParentName)
    BY <1>1 DEF init_directory_table
<1>3. \A j \in ChildIndex : table[j] = residue
    BY <1>1 DEF init_directory_table
<1>4. \A n : Own(n).folder /\ Own(n).cluster = parent /\ Own(n).name = n
    BY DEF BlankEntry
<1> HIDE DEF Own, table
<1> QED
    BY <1>2, <1>3, <1>4 DEF table

LEMMA MakeFolderIsSound ==
    ASSUME SensibleClients, SoundFor(WholeTexts), MakeFolder
    PROVE  SoundFor(WholeTexts)' /\ StoreStep(Settled, Settled')
<1>1. PICK parent \in Directories, name \in Names, residue \in Residue :
          write_folder(parent, name, NoExt, residue)
    BY DEF MakeFolder
<1> DEFINE hole == FirstIndex(Holes(TableAt(parent)))
           Map(location) == [cluster_map EXCEPT ![location] = EOF]
           Entry1(location) ==
               [TableAt(parent)[hole] EXCEPT !.name = name, !.folder = TRUE,
                   !.live = TRUE, !.cluster = location, !.filesize = 0]
           NewTable(location) == [TableAt(parent) EXCEPT ![hole] = Entry1(location)]
           child == init_directory_table(name, parent, residue)
<1>2. PICK locations \in Locations(1) :
          /\ cluster_map' = Map(locations[1])
          /\ pending' = FolderWrites(parent, NewTable(locations[1]), Map(locations[1]),
                                     locations[1], child)
          /\ UNCHANGED disk
    BY <1>1 DEF write_folder, FolderWrites
<1> DEFINE location == locations[1]
           entry == Entry1(location)
           map == Map(location)
           newTable == NewTable(location)
<1>3. IInv /\ IInv' /\ Idle /\ call' = "mkdir"
    BY MakeFolderKeeps DEF SoundFor, MakeFolder
<1>4. GoodBefore(WholeTexts, Directories) /\ disk \in [Cluster -> Content] /\ parent \in Cluster
    BY <1>3, IdleIsGood DEF GoodBefore
<1>5. hole \in ChildIndex /\ ~Slot(disk, parent, hole).live
    <2>1. WriteCode(parent, name, NoExt, TRUE, 1) = 0
        BY <1>1, Zenon DEF write_folder
    <2> QED
        BY <1>3, <1>4, <2>1, WriteHasRoom
<1>6. location \in DataCluster /\ cluster_map[location] = EMPTY
    BY DEF Locations, FreeCluster
<1>7. /\ entry \in SafeEntry /\ entry.live /\ entry.folder /\ entry.cluster = location
      /\ entry.name \in Names
    <2>1. TableAt(parent)[hole] \in SafeEntry
        <3>1. TableAt(parent)[hole] = Slot(disk, parent, hole)
            BY DEF TableAt, Slot
        <3> QED
            BY <1>4, <1>5, <3>1, SlotIsEntry, Constants
    <2>2. location \in Cluster /\ location # FAT_CLUSTER_NUMBER
        BY <1>6, Constants
    <2> HIDE DEF hole, location
    <2> QED
        BY <2>1, <2>2 DEF SafeEntry, Entry
<1>8. /\ child \in TableType /\ child[0].folder /\ child[0].cluster = parent
      /\ child[1].name = ParentName /\ \A j \in ChildIndex : ~child[j].live
    <2>1. child \in TableType
        BY <1>3, DirectoryIsTable, NewTableIsTable DEF EntryName
    <2>3. residue.live = FALSE
        <3>1. CASE residue = BlankEntry
            BY <3>1 DEF BlankEntry
        <3>2. CASE residue # BlankEntry
            <4>1. PICK n \in Names : residue = [BlankEntry EXCEPT !.name = n, !.folder = TRUE]
                BY <3>2 DEF Residue
            <4> QED
                BY <4>1 DEF BlankEntry
        <3> QED
            BY <3>1, <3>2
    <2>4. /\ child[0].folder /\ child[0].cluster = parent /\ child[1].name = ParentName
          /\ \A j \in ChildIndex : child[j] = residue
        BY NewTableHolds
    <2> QED
        BY <2>1, <2>3, <2>4
<1> HIDE DEF hole, location, child
<1>9. newTable = [TableAt(parent) EXCEPT ![hole] = entry]
      /\ map = [cluster_map EXCEPT ![location] = EOF]
    OBVIOUS
<1> HIDE DEF newTable, map, entry
<1>10. FolderToWrite(WholeTexts, Directories, parent, hole, entry, newTable, map, location, child)
    BY <1>4, <1>5, <1>6, <1>7, <1>8, <1>9 DEF FolderToWrite
<1>11. Promised(WholeTexts, FolderWrites(parent, newTable, map, location, child), map, "mkdir")
    BY ONLY <1>10, FolderWritesAreGood
<1>12. Promised(WholeTexts, pending', cluster_map', call')
    BY <1>2, <1>3, <1>11 DEF newTable, map, location
<1> QED
    BY <1>2, <1>3, <1>12, CallKeepsSound

-----------------------------------------------------------------------------
(* The disk *)

\* A cluster that reaches the disk leaves a call's promises what they were.
LEMMA ClusterWrittenIsSound ==
    ASSUME NEW texts, SoundFor(texts), write_clusters
    PROVE  SoundFor(texts)' /\ Settled' = Settled
<1> DEFINE rest == Tail(pending)
           new == [disk EXCEPT ![Head(pending)[1]] = Head(pending)[2]]
<1>1. /\ IInv /\ IInv' /\ pending # <<>> /\ disk' = new /\ pending' = rest
      /\ cluster_map' = cluster_map
      /\ call' = IF rest = <<>> THEN "none" ELSE call
    BY ClusterWrittenKeeps DEF SoundFor, write_clusters, Idle
<1>2. /\ disk \in [Cluster -> Content] /\ pending \in Seq(Cluster \X Content)
    BY <1>1 DEF IInv, Issued
<1>3. /\ Len(rest) \in Nat /\ Len(pending) = Len(rest) + 1
      /\ \A k \in 0 .. Len(rest) : k + 1 \in 0 .. Len(pending)
      /\ rest = <<>> <=> Len(rest) = 0
    <2>1. rest \in Seq(Cluster \X Content) /\ Len(rest) = Len(pending) - 1
          /\ Len(pending) \in Nat \ {0}
        BY <1>1, <1>2, HeadTailProperties, EmptySeq
    <2>2. rest = <<>> <=> Len(rest) = 0
        BY <2>1, EmptySeq
    <2> HIDE DEF rest
    <2> QED
        BY <2>1, <2>2
<1>4. \A k \in 0 .. Len(rest) : Written(new, rest, k) = Written(disk, pending, k + 1)
    BY <1>1, <1>2, OneWriteLess
<1> HIDE DEF rest, new
<1>5. Settled' = Settled
    <2>1. Settled' = Written(new, rest, Len(rest))
        BY <1>1 DEF Settled
    <2>2. Settled = Written(disk, pending, Len(rest) + 1)
        BY <1>3 DEF Settled
    <2>3. Len(rest) \in 0 .. Len(rest)
        BY <1>3
    <2> QED
        BY <1>4, <2>1, <2>2, <2>3
<1>6. call # "none"
    BY <1>1 DEF SoundFor, Idle
<1>7. (cluster_map = MapOn(Settled))'
    BY <1>1, <1>5 DEF SoundFor
<1>8. (\E dirs : Good(texts, Settled, dirs) /\ (NothingLost => Full(Settled, dirs)))'
    BY <1>5 DEF SoundFor
<1>9. (call \in {"none", "write", "move"} =>
          \A k \in 0 .. Len(pending) :
              /\ \E dirs : Good(texts, Written(disk, pending, k), dirs)
              /\ texts = WholeTexts => StoreStep(Settled, Written(disk, pending, k)))'
    <2> SUFFICES ASSUME call' \in {"none", "write", "move"}, NEW k \in 0 .. Len(rest)
                 PROVE  /\ \E dirs : Good(texts, Written(new, rest, k), dirs)
                        /\ texts = WholeTexts => StoreStep(Settled, Written(new, rest, k))
        BY <1>1, <1>5
    <2>1. CASE call \in {"write", "move"}
        BY <1>3, <1>4, <2>1 DEF SoundFor
    <2>2. CASE call \notin {"write", "move"}
        <3>1. rest = <<>>
            BY <1>1, <1>6, <2>2
        <3>2. k = Len(rest)
            BY <1>3, <3>1
        <3>3. Written(new, rest, k) = Settled
            BY <1>1, <1>5, <3>2 DEF Settled
        <3>4. StoreStep(Settled, Settled)
            BY DEF StoreStep
        <3> QED
            BY <1>5, <1>8, <3>3, <3>4
    <2> QED
        BY <2>1, <2>2
<1>10. (Idle <=> call = "none")'
    BY <1>1, <1>6 DEF Idle
<1> QED
    BY <1>1, <1>5, <1>7, <1>8, <1>9, <1>10 DEF SoundFor

\* The machine stops in the middle of writing a file or moving an entry, and
\* starts again on a good disk, with a store at most one operation away.
LEMMA RestartIsSound ==
    ASSUME SensibleClients, SoundFor(WholeTexts), Restart
    PROVE  SoundFor(WholeTexts)' /\ StoreStep(Settled, Settled')
<1>1. IInv /\ IInv' /\ call \in {"write", "move"} /\ UNCHANGED disk
    BY RestartKeeps DEF SoundFor, Restart, SensibleClients
<1>2. disk \in [Cluster -> Content] /\ pending \in Seq(Cluster \X Content)
    BY <1>1 DEF IInv, Issued
<1>3. StoreStep(Settled, disk) /\ \E dirs : Good(WholeTexts, disk, dirs)
    <2>1. 0 \in 0 .. Len(pending)
        BY <1>2
    <2>2. Written(disk, pending, 0) = disk
        BY <1>2, DiskStays
    <2> QED
        BY <1>1, <2>1, <2>2 DEF SoundFor
<1>4. cluster_map' = MapOn(disk) /\ pending' = <<>> /\ call' = "none"
    <2>1. disk[BOOT_SECTOR] = Signature
        BY <1>3 DEF Good
    <2> QED
        BY <2>1 DEF Restart, OnDisk
<1>5. Settled' = disk
    <2>1. Settled' = Written(disk, <<>>, 0)
        <3>1. Settled' = Written(disk', pending', Len(pending'))
            BY DEF Settled
        <3>2. Len(pending') = 0
            BY <1>4
        <3> QED
            BY <1>1, <1>4, <3>1, <3>2
    <2>2. <<>> \in Seq(Cluster \X Content)
        OBVIOUS
    <2> QED
        BY <1>2, <2>1, <2>2, DiskStays
<1>6. (cluster_map = MapOn(Settled))'
    BY <1>4, <1>5
<1>7. (\E some : Good(WholeTexts, Settled, some) /\ (NothingLost => Full(Settled, some)))'
    <2>1. ~NothingLost
        BY DEF NothingLost, Restart
    <2> QED
        BY <1>3, <1>5, <2>1
<1>8. (call \in {"none", "write", "move"} =>
          \A k \in 0 .. Len(pending) :
              /\ \E some : Good(WholeTexts, Written(disk, pending, k), some)
              /\ WholeTexts = WholeTexts => StoreStep(Settled, Written(disk, pending, k)))'
    <2> SUFFICES ASSUME NEW k \in 0 .. Len(pending')
                 PROVE  /\ \E some : Good(WholeTexts, Written(disk', pending', k), some)
                        /\ StoreStep(Settled', Written(disk', pending', k))
        OBVIOUS
    <2>1. k = Len(pending')
        BY <1>4
    <2>2. Written(disk', pending', k) = disk /\ Settled' = disk
        BY <1>5, <2>1 DEF Settled
    <2>3. StoreStep(disk, disk)
        BY DEF StoreStep
    <2> QED
        BY <1>3, <2>2, <2>3
<1>9. (Idle <=> call = "none")'
    BY <1>4 DEF Idle
<1>10. StoreStep(Settled, Settled')
    BY <1>3, <1>5
<1> QED
    BY <1>1, <1>6, <1>7, <1>8, <1>9, <1>10 DEF SoundFor

\* A disk with nothing but a root directory in which there is nothing.
Formatted(contents) ==
    /\ contents \in [Cluster -> Content]
    /\ \A texts : Good(texts, contents, {ROOT_CLUSTER_NUMBER})
    /\ HasTable(contents, ROOT_CLUSTER_NUMBER,
                init_directory_table(RootName, ROOT_CLUSTER_NUMBER, BlankEntry))

\* Formatting promises one.
LEMMA InitIsSound ==
    ASSUME NEW texts, Init
    PROVE  SoundFor(texts) /\ Formatted(Settled) /\ StoreAt(Settled) = [p \in {} |-> p]
<1> DEFINE root == init_directory_table(RootName, ROOT_CLUSTER_NUMBER, BlankEntry)
           dirs == {ROOT_CLUSTER_NUMBER}
           last == Settled
<1>1. IInv /\ disk \in [Cluster -> Content] /\ pending = FormatWrites /\ call = "format"
      /\ cluster_map = FormattedMap
    BY InitKeeps DEF IInv, Init
<1>2. /\ Len(FormatWrites) = 3 /\ FormatWrites # <<>>
      /\ FormatWrites[1] = <<BOOT_SECTOR, Signature>>
      /\ FormatWrites[2] = <<ROOT_CLUSTER_NUMBER, Table(root)>>
      /\ FormatWrites[3] = <<FAT_CLUSTER_NUMBER, Fat(FormattedMap)>>
    BY DEF FormatWrites, WriteTable, WriteFat
<1> HIDE DEF root
<1>3. /\ last[BOOT_SECTOR] = Signature /\ last[ROOT_CLUSTER_NUMBER] = Table(root)
      /\ last[FAT_CLUSTER_NUMBER] = Fat(FormattedMap)
    <2> DEFINE writes == FormatWrites
    <2>1. last = Written(disk, writes, 3)
        BY <1>1, <1>2 DEF Settled
    <2>2. /\ \A i \in 1 .. 3 : i = 1 \/ i = 2 \/ i = 3
          /\ 1 \in 1 .. 3 /\ 2 \in 1 .. 3 /\ 3 \in 1 .. 3 /\ 3 \in Nat
          /\ 1 <= 1 /\ 2 <= 2 /\ 3 <= 3
        OBVIOUS
    <2>3. /\ BOOT_SECTOR \in Cluster /\ ROOT_CLUSTER_NUMBER \in Cluster
          /\ FAT_CLUSTER_NUMBER \in Cluster /\ BOOT_SECTOR # ROOT_CLUSTER_NUMBER
          /\ BOOT_SECTOR # FAT_CLUSTER_NUMBER /\ ROOT_CLUSTER_NUMBER # FAT_CLUSTER_NUMBER
        BY Constants DEF BOOT_SECTOR, ROOT_CLUSTER_NUMBER, FAT_CLUSTER_NUMBER
    <2>4. /\ writes[1][1] = BOOT_SECTOR /\ writes[1][2] = Signature
          /\ writes[2][1] = ROOT_CLUSTER_NUMBER /\ writes[2][2] = Table(root)
          /\ writes[3][1] = FAT_CLUSTER_NUMBER /\ writes[3][2] = Fat(FormattedMap)
        BY <1>2
    <2> HIDE DEF writes, last
    <2>5. /\ \A i \in 1 .. 3 : writes[i][1] = BOOT_SECTOR => i <= 1
          /\ \A i \in 1 .. 3 : writes[i][1] = ROOT_CLUSTER_NUMBER => i <= 2
          /\ \A i \in 1 .. 3 : writes[i][1] = FAT_CLUSTER_NUMBER => i <= 3
        BY <2>2, <2>3, <2>4
    <2>6. last[BOOT_SECTOR] = Signature
        BY <2>1, <2>2, <2>3, <2>4, <2>5, LastWrite
    <2>7. last[ROOT_CLUSTER_NUMBER] = Table(root)
        BY <2>1, <2>2, <2>3, <2>4, <2>5, LastWrite
    <2>8. last[FAT_CLUSTER_NUMBER] = Fat(FormattedMap)
        BY <2>1, <2>2, <2>3, <2>4, <2>5, LastWrite
    <2> QED
        BY <2>6, <2>7, <2>8
<1>4. MapOn(last) = FormattedMap /\ FormattedMap \in MapType
    BY <1>3, FormattingPromises DEF MapOn, Fat
<1>5. /\ last[ROOT_CLUSTER_NUMBER].kind = "table"
      /\ \A j : Slot(last, ROOT_CLUSTER_NUMBER, j) = root[j]
    BY <1>3 DEF Slot, AsTable, Table
<1>6. /\ root[0].name = RootName /\ root[1].name = ParentName
      /\ \A j \in ChildIndex : ~root[j].live
    <2>1. /\ root[0].name = RootName /\ root[1].name = ParentName
          /\ \A j \in ChildIndex : root[j] = BlankEntry
        BY NewTableHolds DEF root
    <2>2. ~BlankEntry.live
        BY DEF BlankEntry
    <2> QED
        BY <2>1, <2>2
<1> HIDE DEF last
<1>7. \A d \in dirs, j \in ChildIndex :
          d = ROOT_CLUSTER_NUMBER /\ ~FolderAt(last, d, j) /\ ~FileAt(last, d, j)
    BY <1>5, <1>6 DEF FolderAt, FileAt
<1>8. Tree(last, dirs)
    BY <1>5, <1>6, <1>7 DEF Tree
<1>9. \A some : Chains(some, last, FormattedMap, dirs)
    <2>1. FormattedMap[ROOT_CLUSTER_NUMBER] = EOF
        BY Constants DEF FormattedMap, ROOT_CLUSTER_NUMBER
    <2> QED
        BY <1>7, <2>1 DEF Chains
<1>10. \A some : Good(some, last, dirs)
    <2>1. Labelled(last, dirs)
        BY <1>5, <1>6 DEF Labelled
    <2> QED
        BY <1>3, <1>4, <1>8, <1>9, <2>1 DEF Good
<1>11. Full(last, dirs)
    <2>1. \A c \in DataCluster : FormattedMap[c] = EMPTY
        BY Constants DEF FormattedMap, DataCluster, FAT_CLUSTER_NUMBER, ROOT_CLUSTER_NUMBER
    <2> QED
        BY <1>4, <2>1 DEF Full
<1>12. last \in [Cluster -> Content]
    <2>1. pending \in Seq(Cluster \X Content)
        BY <1>1 DEF IInv, Issued
    <2>2. Len(pending) \in 0 .. Len(pending)
        BY <2>1
    <2> QED
        BY <1>1, <2>1, <2>2, DiskStays DEF last, Settled
<1>13. StoreAt(last) = [p \in {} |-> p]
    <2> DEFINE store == StoreAt(last)
    <2>1. /\ store = [p \in DOMAIN store |-> store[p]]
          /\ DOMAIN store = {p \in dirs \X ChildIndex : Slot(last, p[1], p[2]).live}
        BY <1>10, <1>12, StoreIs
    <2>2. \A p \in dirs \X ChildIndex : ~Slot(last, p[1], p[2]).live
        BY <1>5, <1>6
    <2> HIDE DEF store
    <2>3. DOMAIN store = {}
        BY <2>1, <2>2
    <2> QED
        BY <2>1, <2>3 DEF store
<1>14. Formatted(last)
    BY <1>5, <1>10, <1>12 DEF Formatted, HasTable, root
<1> QED
    BY <1>1, <1>2, <1>4, <1>10, <1>11, <1>13, <1>14 DEF SoundFor, Idle, last

\* A step of the driver is at most one operation of the store.
LEMMA StepIsSound ==
    ASSUME SensibleClients, SoundFor(WholeTexts), [Next]_vars
    PROVE  SoundFor(WholeTexts)' /\ StoreStep(Settled, Settled')
<1>1. CASE WriteFile
    BY <1>1, WriteFileIsSound
<1>2. CASE MakeFolder
    BY <1>2, MakeFolderIsSound
<1>3. CASE Delete
    BY <1>3, DeleteIsSound
<1>4. CASE Move
    BY <1>4, MoveIsSound
<1>5. CASE write_clusters
    <2>1. SoundFor(WholeTexts)' /\ Settled' = Settled
        BY <1>5, ClusterWrittenIsSound
    <2> QED
        BY <2>1 DEF StoreStep
<1>6. CASE Restart
    BY <1>6, RestartIsSound
<1>7. CASE UNCHANGED vars
    <2>1. IInv'
        BY <1>7, StepKeeps DEF SoundFor
    <2>2. Settled' = Settled
        BY <1>7 DEF vars, Settled
    <2>3. SoundFor(WholeTexts)'
        BY <1>7, <2>1, <2>2 DEF vars, SoundFor, Idle
    <2> QED
        BY <2>2, <2>3 DEF StoreStep
<1> QED
    BY <1>1, <1>2, <1>3, <1>4, <1>5, <1>6, <1>7 DEF Next

-----------------------------------------------------------------------------

\* The invariant holds in every state the driver, the disk and sensible clients
\* can reach.
THEOREM SoundInductive ==
    ASSUME SensibleClients
    PROVE  Spec => []SoundInv
<1>1. Init => SoundInv
    BY InitIsSound DEF SoundInv
<1>2. SoundInv /\ [Next]_vars => SoundInv'
    BY StepIsSound DEF SoundInv
<1> QED
    BY <1>1, <1>2, PTL DEF Spec

\* In every state that has to be sound the disk is good as it is.
LEMMA DiskIsGood ==
    ASSUME NEW texts, SoundFor(texts), call \in {"none", "write", "move"}
    PROVE  disk \in [Cluster -> Content] /\ \E dirs : Good(texts, disk, dirs)
<1>1. disk \in [Cluster -> Content] /\ pending \in Seq(Cluster \X Content)
    BY DEF SoundFor, IInv, Issued
<1>2. 0 \in 0 .. Len(pending) /\ Written(disk, pending, 0) = disk
    BY <1>1, DiskStays
<1> QED
    BY <1>1, <1>2 DEF SoundFor

\* Whatever sensible clients call, and whenever the machine stops in the middle of
\* writing a file or moving an entry, at every moment at which it may stop there
\* each entry the user can reach starts a chain that ends, in clusters no other
\* entry has.
THEOREM DiskStaysSound ==
    ASSUME SensibleClients
    PROVE  Spec => []DiskIsSound
<1>1. SoundInv => DiskIsSound
    <2> SUFFICES ASSUME SoundInv, call \in {"none", "write", "move"} PROVE Sound
        BY DEF DiskIsSound
    <2>1. PICK dirs : disk \in [Cluster -> Content] /\ Good(WholeTexts, disk, dirs)
        BY DiskIsGood DEF SoundInv
    <2> QED
        BY <2>1, GoodIsSound
<1> QED
    BY <1>1, SoundInductive, PTL

\* Between calls, those that make and remove folders and files included, following
\* the allocation table from any reachable entry reaches an end without meeting
\* another entry's clusters.
THEOREM NoCrossLinks ==
    ASSUME SensibleClients
    PROVE  Spec => []NoCrossLink
<1>1. SoundInv => NoCrossLink
    <2> SUFFICES ASSUME SoundInv, Idle PROVE Sound
        BY DEF NoCrossLink
    <2>1. disk \in [Cluster -> Content] /\ Good(WholeTexts, disk, Directories)
        BY IdleIsGood DEF SoundInv
    <2> QED
        BY <2>1, GoodIsSound
<1> QED
    BY <1>1, SoundInductive, PTL

\* Every file that can be reached holds the blocks of one single write, in order
\* and complete: no other call and no power failure in a write or a move puts
\* anything else in their place.
THEOREM FilesStayIntact ==
    ASSUME SensibleClients
    PROVE  Spec => []FileIntact
<1>1. SoundInv => FileIntact
    <2> SUFFICES ASSUME SoundInv PROVE FileIntact
        OBVIOUS
    <2>1. CASE call \in {"none", "write", "move"}
        <3>1. PICK dirs : disk \in [Cluster -> Content] /\ Good(WholeTexts, disk, dirs)
            BY <2>1, DiskIsGood DEF SoundInv
        <3> QED
            BY <3>1, GoodIsIntact
    <2>2. CASE call \notin {"none", "write", "move"}
        BY <2>2 DEF FileIntact
    <2> QED
        BY <2>1, <2>2
<1> QED
    BY <1>1, SoundInductive, PTL

\* Where no call is interrupted and no file's size is a multiple of a cluster's,
\* no cluster is ever lost: between calls each that is not free belongs to an
\* entry the user can reach.
THEOREM NothingLeaks ==
    ASSUME SensibleClients, NothingLost
    PROVE  Spec => []NoLeak
<1>1. SoundInv => NoLeak
    <2> SUFFICES ASSUME SoundInv, Idle PROVE NoLeak
        BY DEF NoLeak
    <2>1. /\ disk \in [Cluster -> Content] /\ cluster_map = MapOn(disk)
          /\ Good(WholeTexts, disk, Directories) /\ Full(disk, Directories)
        BY IdleIsGood DEF SoundInv
    <2> QED
        BY <2>1, FullLosesNothing
<1> QED
    BY <1>1, SoundInductive, PTL

\* The driver implements the store, with a file for each chain of blocks: a call
\* that goes ahead creates, removes or moves one entry and leaves every other with
\* the label and the text it had, a cluster that reaches the disk is no step of
\* the store, and a machine that stops in a write or a move takes at most that one
\* operation back.
THEOREM ImplementsFileStore ==
    ASSUME SensibleClients
    PROVE  Spec => StoreSpec
<1>1. Entries = StoreAt(Settled)
    BY DEF Entries, EntriesOn, StoreAt
<1>2. (Entries = StoreAt(Settled))'
    BY DEF Entries, EntriesOn, StoreAt
<1>3. Init => Store!Init
    BY <1>1, InitIsSound DEF Store!Init
<1>4. SoundInv /\ [Next]_vars => [Store!Next]_Entries
    <2> SUFFICES ASSUME SoundInv, [Next]_vars
                 PROVE  Entries' = Entries \/ Store!Next
        OBVIOUS
    <2>1. StoreStep(Settled, Settled')
        BY StepIsSound DEF SoundInv
    <2>2. \/ Entries' = Entries
          \/ Store!Create(Entries, Entries')
          \/ Store!Remove(Entries, Entries')
          \/ Store!Move(Entries, Entries')
        BY <1>1, <1>2, <2>1 DEF StoreStep
    <2> QED
        BY <2>2 DEF Store!Next
<1> QED
    BY <1>3, <1>4, SoundInductive, PTL DEF Spec, StoreSpec, Store!Spec

=============================================================================
