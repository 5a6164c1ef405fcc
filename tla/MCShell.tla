------------------------------ MODULE MCShell -------------------------------
(***************************************************************************)
(* Instances of Shell for TLC.  Names of a kind, contents and shells are   *)
(* interchangeable.                                                        *)
(***************************************************************************)
EXTENDS Shell

Symmetry ==
    Permutations(FolderNames) \cup Permutations(FileNames \ {Program})
    \cup Permutations(Tags) \cup Permutations(Shells)

(* States that differ only in what no later step reads count as one.  Of a *)
(* dead entry the shells' calls read the name and extension of a file, for *)
(* move(), the extension, for the folder that takes the slot, and a        *)
(* folder's name and cluster, for read_directory(), when a live folder of  *)
(* that name comes after it; a new one never does, as it takes the first   *)
(* empty slot.  A free cluster is written whole before an entry leads to   *)
(* it.                                                                     *)
Hides(table, i) ==
    \E j \in ChildIndex : j > i /\ table[j].live /\ table[j].name = table[i].name

Forget(table, i) ==
    CASE table[i].live \/ (table[i].folder /\ Hides(table, i)) -> table[i]
      [] ~table[i].live /\ ~table[i].folder ->
            [table[i] EXCEPT !.cluster = 0, !.filesize = 0]
      [] OTHER -> [BlankEntry EXCEPT !.ext = table[i].ext]

Seen(content) ==
    IF content.kind = "table"
    THEN Table([i \in Index |-> Forget(content.table, i)])
    ELSE content

Kept ==
    {c \in Cluster : cluster_map[c] # EMPTY \/ OnDisk[c] # EMPTY}
    \cup UNION {{Forget(TableAt(d), i).cluster : i \in Index} : d \in Directories}
    \cup UNION {Range([k \in DOMAIN dir_stack[s] |-> dir_stack[s][k].cluster]) : s \in Shells}
    \cup {cmd[s].dir : s \in {t \in Shells : cmd[t] # Prompt}}

\* Of a command that has its places, the places it still uses and what it
\* will write.
Remembered(c) ==
    CASE c.at = "write" -> <<c.at, Last(c.found), c.size, c.content>>
      [] c.at \in {"delete", "move"} -> <<c.at, c.found>>
      [] c.at = "read" -> <<c.at, c.op, c.found, c.size>>
      [] OTHER -> c

View ==
    <<cluster_map,
      [c \in Kept |-> Seen(disk[c])],
      [j \in DOMAIN pending |-> <<pending[j][1], Seen(pending[j][2])>>],
      call, dir_stack, [s \in Shells |-> Remembered(cmd[s])], installed>>

=============================================================================
