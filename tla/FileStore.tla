----------------------------- MODULE FileStore ------------------------------
(***************************************************************************)
(* What the file system promises its clients: directories whose slots hold *)
(* files and folders.  A call puts one entry into an empty slot, takes one *)
(* out or moves one, and nothing else changes: every other file keeps its  *)
(* place and its text.  There are no clusters, chains or tables here.      *)
(*                                                                         *)
(* The operations are relations between a store and the next one.          *)
(***************************************************************************)
CONSTANTS Dir,    \* identities a directory can have
          Root,   \* the directory that is always there
          Slot,   \* the places in a directory
          Label,  \* what an entry can be called
          Text    \* what a file can hold

VARIABLE files  \* the entry in each slot that has one

Place == Dir \X Slot

File == [label : Label, folder : {FALSE}, holds : Text]
Folder == [label : Label, folder : {TRUE}, holds : Dir]

Exists(store, dir) ==
    dir = Root \/ \E p \in DOMAIN store : store[p].folder /\ store[p].holds = dir

IsEmpty(store, dir) == \A p \in DOMAIN store : p[1] # dir

Same(store, next, places) == \A p \in places : next[p] = store[p]

Create(store, next) ==
    \E p \in DOMAIN next \ DOMAIN store :
        /\ p \in Place /\ Exists(store, p[1])
        /\ DOMAIN next = DOMAIN store \cup {p}
        /\ Same(store, next, DOMAIN store)
        /\ \/ next[p] \in File
           \/ /\ next[p] \in Folder
              /\ ~Exists(store, next[p].holds)
              /\ IsEmpty(store, next[p].holds)

Remove(store, next) ==
    \E p \in DOMAIN store \ DOMAIN next :
        /\ store[p].folder => IsEmpty(store, store[p].holds)
        /\ DOMAIN next = DOMAIN store \ {p}
        /\ Same(store, next, DOMAIN next)

Move(store, next) ==
    \E p \in DOMAIN store \ DOMAIN next, q \in DOMAIN next \ DOMAIN store :
        /\ q \in Place /\ Exists(store, q[1])
        /\ DOMAIN next = (DOMAIN store \ {p}) \cup {q}
        /\ Same(store, next, DOMAIN store \ {p})
        /\ next[q] \in [label : Label, folder : {store[p].folder},
                        holds : {store[p].holds}]

Init == files = [p \in {} |-> p]

Next ==
    \E store \in {files}, next \in {files'} :
        Create(store, next) \/ Remove(store, next) \/ Move(store, next)

Spec == Init /\ [][Next]_files

=============================================================================
