------------------------------ MODULE MCFAT32 -------------------------------
(***************************************************************************)
(* Instances of FAT32 for TLC.  What clients write is interchangeable, and *)
(* so are the names they use: no operator of FAT32 orders or picks them.   *)
(***************************************************************************)
EXTENDS FAT32

Symmetry == Permutations(Names) \cup Permutations(Tags)

(* States that differ only in what no later step reads count as one.  The  *)
(* driver keeps the first cluster and the size of a dead entry, but looks  *)
(* at neither before write() or move() gives the entry new ones, and a     *)
(* cluster free in memory and on disk is written whole before an entry     *)
(* leads to it, unless one still does.                                     *)
Forget(entry) ==
    IF entry.live THEN entry ELSE [entry EXCEPT !.cluster = 0, !.filesize = 0]

Seen(content) ==
    IF content.kind = "table"
    THEN Table([i \in Index |-> Forget(content.table[i])])
    ELSE content

Kept ==
    {c \in Cluster : cluster_map[c] # EMPTY \/ OnDisk[c] # EMPTY}
    \cup Directories \cup UNION {ChainAt(OnDisk, p) : p \in Places}

View ==
    <<cluster_map,
      [c \in Kept |-> Seen(disk[c])],
      [j \in DOMAIN pending |-> <<pending[j][1], Seen(pending[j][2])>>],
      call>>

=============================================================================
