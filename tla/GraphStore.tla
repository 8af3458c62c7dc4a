----------------------------- MODULE GraphStore -----------------------------
(***************************************************************************)
(* Saving static graphs as directories, graph/storage.py, and the saves    *)
(* that graph/offload.py makes by itself when a graph is too large.        *)
(* Several processes save into one directory: a save writes the files of   *)
(* a store into a temporary directory and renames it, it may fail at every *)
(* file, and its process may die at any moment and start again.            *)
(***************************************************************************)
EXTENDS Naturals, FiniteSets

CONSTANTS
  Processes,   \* each makes one save at a time
  Graphs,      \* what they save: a topology, and versions of the fields
  Paths,       \* the destinations a user names
  Pids,        \* the process ids the system gives out
  Topology,    \* the files of a topology
  Fields,      \* the fields a store may have, each with a file
  Given,       \* the fields given to a save: the cases to consider
  None,
  PidsReturn,  \* may a process get the id of one that is gone?
  MaxOffloads, \* bound: graphs a process offloads
  Active,      \* bound: the processes that offload, and that may die
  MaxStarts,   \* bound: times a process is started again
  SaveStarts   \* bound: the start of a process after which a user saves no more

VARIABLES
  disk,     \* the files of every directory, None where there is none
  save,     \* the save a process is in
  pid,      \* its id
  usedPids, \* the ids given out so far
  counter,  \* offload._counter
  starts,   \* times it was started again
  opened,   \* the store it has open, with the files that had then
  refused   \* history: an offload found its name taken

vars == <<disk, save, pid, usedPids, counter, starts, opened, refused>>
process == <<pid, usedPids, counter, starts>>

-----------------------------------------------------------------------------
\* A file holds its part of a graph, or only a piece: a write that was cut.
Whole(x) == [holds |-> x, whole |-> TRUE]
Piece    == [holds |-> None, whole |-> FALSE]

\* Some of the fields, each of some graph.
Fieldings == UNION {[F -> Graphs] : F \in SUBSET Fields}
NoFields  == [f \in {} |-> None]

\* A store with the topology of t and the fields m; the manifest says of which
\* topology it is, which fields there are and of what shape.
Store(t, m) ==
  [f \in Topology \cup DOMAIN m \cup {"manifest"} |->
     Whole(IF f = "manifest" THEN <<t, m>> ELSE IF f \in Topology THEN t ELSE m[f])]

Everything == Topology \cup Fields \cup {"manifest"}
Stores     == {Store(t, m) : t \in Graphs, m \in Fieldings}

\* Destinations of offloads have the id of the process and a counter.
Offloads     == Pids \X (0 .. MaxOffloads - 1)
Destinations == Paths \cup Offloads
Temporaries  == Processes \X {"temporary"} \X (0 .. MaxStarts)

\* A user names neither an offload nor a temporary directory.
ASSUME StoreAssumption ==
  /\ None \notin Stores \cup Destinations
  /\ Topology \cap Fields = {} /\ "manifest" \notin Topology \cup Fields
  /\ Given \subseteq Fieldings
  /\ MaxOffloads \in Nat /\ MaxStarts \in Nat /\ SaveStarts \in Nat /\ PidsReturn \in BOOLEAN
  /\ Paths \cap (Offloads \cup Temporaries) = {}

\* Variant: the files are written where they are to stay.
DirectoryVariant(p) == save[p].to

\* Where a save writes: mkdtemp finds a name nobody has.
Directory(p) == <<p, "temporary", starts[p]>>

\* The constructor of PagedCSRStore: a manifest that parses, and files of the
\* sizes it gives.
Opens(dir) ==
  /\ dir # None /\ "manifest" \in DOMAIN dir /\ dir["manifest"].whole
  /\ \A f \in Topology \cup DOMAIN dir["manifest"].holds[2] : f \in DOMAIN dir /\ dir[f].whole

Idle == [pc |-> "idle"]
Dead == [pc |-> "dead"]

TypeOK ==
  /\ \A d \in Destinations \cup Temporaries : disk[d] # None => DOMAIN disk[d] \subseteq Everything
  /\ \A p \in Processes :
       /\ save[p] \in {Idle, Dead} \/
            /\ save[p].pc \in {"make", "copy", "write", "rename", "clean", "open"}
            /\ save[p].to \in Destinations /\ save[p].from \in Destinations \cup {None}
            /\ save[p].left \subseteq Everything
            /\ save[p].graph \in Graphs \cup {None} /\ save[p].given \in Fieldings
       /\ opened[p] # None => opened[p].at \in Destinations /\ opened[p].store \in Stores
  /\ pid \in [Processes -> Pids] /\ usedPids \subseteq Pids /\ refused \in BOOLEAN
  /\ counter \in [Processes -> 0 .. MaxOffloads] /\ starts \in [Processes -> 0 .. MaxStarts]

Init ==
  /\ disk = [d \in Destinations \cup Temporaries |-> None]
  /\ save = [p \in Processes |-> Idle]
  /\ pid \in [Processes -> Pids] /\ \A p, q \in Processes : p # q => pid[p] # pid[q]
  /\ usedPids = {pid[p] : p \in Processes}
  /\ counter = [p \in Processes |-> 0] /\ starts = [p \in Processes |-> 0]
  /\ opened = [p \in Processes |-> None]
  /\ refused = FALSE

-----------------------------------------------------------------------------
\* PagedCSRStore.create refuses a destination that exists.
Begin(p, d, from, graph, given) ==
  save' = [save EXCEPT ![p] =
             IF disk[d] # None THEN Idle
             ELSE [pc |-> "make", to |-> d, from |-> from, left |-> {},
                   graph |-> graph, given |-> given]]

Save(p, d, g, given) ==
  /\ save[p] = Idle /\ starts[p] <= SaveStarts /\ d \in Paths
  /\ Begin(p, d, None, g, given)
  /\ UNCHANGED <<disk, process, opened, refused>>

\* The graph is an open store: its files are copied, then the given fields are
\* written over them.
SaveStore(p, d, given) ==
  /\ save[p] = Idle /\ starts[p] <= SaveStarts /\ d \in Paths /\ opened[p] # None
  /\ Begin(p, d, opened[p].at, None, given)
  /\ UNCHANGED <<disk, process, opened, refused>>

Name(p) == <<pid[p], counter[p]>>

\* maybe_offload: the topology alone.
Offload(p, g) ==
  /\ p \in Active /\ save[p] = Idle /\ counter[p] < MaxOffloads
  /\ Begin(p, Name(p), None, g, NoFields)
  /\ counter' = [counter EXCEPT ![p] = @ + 1]
  /\ refused' = (refused \/ disk[Name(p)] # None)
  /\ UNCHANGED <<disk, pid, usedPids, starts, opened>>

MakeDirectory(p) ==
  /\ save[p].pc = "make"
  /\ disk' = [disk EXCEPT ![Directory(p)] = [f \in {} |-> None]]
  /\ save' = [save EXCEPT
       ![p].pc = IF save[p].from = None THEN "write" ELSE "copy",
       ![p].left = IF save[p].from = None
                   THEN Topology \cup DOMAIN save[p].given \cup {"manifest"}
                   ELSE DOMAIN disk[save[p].from]]
  /\ UNCHANGED <<process, opened, refused>>

Put(p, f, content) ==
  disk' = [disk EXCEPT ![Directory(p)] =
             [h \in DOMAIN @ \cup {f} |-> IF h = f THEN content ELSE @[h]]]

\* The indices, the fields, and the manifest last; a directory is listed in any
\* order, and this one stands for all, as nobody sees a temporary directory.
Before(f) == CASE f \in Topology -> {} [] f \in Fields -> Topology
               [] OTHER -> Topology \cup Fields

\* shutil.copytree, one file after the other.
CopyFile(p) ==
  /\ save[p].pc = "copy"
  /\ \E f \in save[p].left :
       LET source == disk[save[p].from]
           left   == save[p].left \ {f}
           given  == DOMAIN save[p].given
       IN  /\ source # None /\ save[p].left \cap Before(f) = {}
           /\ Put(p, f, source[f])
           /\ save' = [save EXCEPT
                ![p].left = IF left # {} THEN left
                            ELSE IF given # {} THEN given \cup {"manifest"} ELSE {},
                ![p].pc = IF left # {} THEN "copy" ELSE IF given # {} THEN "write" ELSE "rename"]
  /\ UNCHANGED <<process, opened, refused>>

\* Variant: the manifest names the fields that were given.
MergedVariant(old, given) == given

\* The given fields take the place of those with the same name.
Merged(old, given) ==
  [f \in DOMAIN old \cup DOMAIN given |-> IF f \in DOMAIN given THEN given[f] ELSE old[f]]

\* The manifest of a new store, or the one that was copied, brought up to date.
Manifest(p) ==
  LET copied == disk[Directory(p)]["manifest"].holds
  IN  IF save[p].from = None THEN <<save[p].graph, save[p].given>>
      ELSE <<copied[1], Merged(copied[2], save[p].given)>>

WriteFile(p) ==
  /\ save[p].pc = "write"
  /\ \E f \in save[p].left :
       /\ save[p].left \cap Before(f) = {}
       /\ Put(p, f, Whole(IF f = "manifest" THEN Manifest(p)
                          ELSE IF f \in Topology THEN save[p].graph ELSE save[p].given[f]))
       /\ save' = [save EXCEPT ![p].left = @ \ {f},
                               ![p].pc = IF f = "manifest" THEN "rename" ELSE @]
  /\ UNCHANGED <<process, opened, refused>>

\* A read, a write or the evaluation of a field raises; a piece of the file is there.
FileFails(p) ==
  /\ save[p].pc \in {"copy", "write"}
  /\ \E f \in save[p].left : save[p].left \cap Before(f) = {} /\ Put(p, f, Piece)
  /\ save' = [save EXCEPT ![p].pc = "clean"]
  /\ UNCHANGED <<process, opened, refused>>

\* Variant: the directory takes the place of what is there.
MayRenameVariant(d) == TRUE

\* os.replace refuses a directory that is not empty.
MayRename(d) == disk[d] = None

Rename(p) ==
  /\ save[p].pc = "rename"
  /\ IF MayRename(save[p].to)
     THEN /\ disk' = [disk EXCEPT ![save[p].to] = disk[Directory(p)], ![Directory(p)] = None]
          /\ save' = [save EXCEPT ![p].pc = "open"]
     ELSE /\ save' = [save EXCEPT ![p].pc = "clean"]
          /\ UNCHANGED disk
  /\ UNCHANGED <<process, opened, refused>>

\* shutil.rmtree of the temporary directory.
Emptied(p) == [disk EXCEPT ![Directory(p)] = None]

Clean(p) ==
  /\ save[p].pc = "clean"
  /\ disk' = Emptied(p)
  /\ save' = [save EXCEPT ![p] = Idle]
  /\ UNCHANGED <<process, opened, refused>>

OpenSaved(p) ==
  /\ save[p].pc = "open"
  /\ Opens(disk[save[p].to])
  /\ save' = [save EXCEPT ![p] = Idle]
  /\ opened' = [opened EXCEPT ![p] = [at |-> save[p].to, store |-> disk[save[p].to]]]
  /\ UNCHANGED <<disk, process, refused>>

\* Graph.open by any process, at any time.
Load(p, d) ==
  /\ save[p] = Idle /\ Opens(disk[d])
  /\ opened' = [opened EXCEPT ![p] = [at |-> d, store |-> disk[d]]]
  /\ UNCHANGED <<disk, save, process, refused>>

\* The process dies, or ends.
Crash(p) ==
  /\ p \in Active /\ save[p] # Dead /\ starts[p] < MaxStarts
  /\ save' = [save EXCEPT ![p] = Dead]
  /\ opened' = [opened EXCEPT ![p] = None]
  /\ UNCHANGED <<disk, process, refused>>

Restart(p) ==
  /\ save[p] = Dead
  /\ \E i \in Pids \ {pid[q] : q \in {r \in Processes : r # p /\ save[r] # Dead}} :
       /\ PidsReturn \/ i \notin usedPids
       /\ pid' = [pid EXCEPT ![p] = i] /\ usedPids' = usedPids \cup {i}
  /\ save' = [save EXCEPT ![p] = Idle]
  /\ counter' = [counter EXCEPT ![p] = 0] /\ starts' = [starts EXCEPT ![p] = @ + 1]
  /\ UNCHANGED <<disk, opened, refused>>

Next ==
  \E p \in Processes :
    \/ \E d \in Paths, given \in Given :
         (\E g \in Graphs : Save(p, d, g, given)) \/ SaveStore(p, d, given)
    \/ \E g \in Graphs : Offload(p, g)
    \/ MakeDirectory(p) \/ CopyFile(p) \/ WriteFile(p) \/ FileFails(p)
    \/ Rename(p) \/ Clean(p) \/ OpenSaved(p)
    \/ \E d \in Destinations : Load(p, d)
    \/ Crash(p) \/ Restart(p)

Spec == Init /\ [][Next]_vars

-----------------------------------------------------------------------------
\* Whoever dies, fails or saves at the same time: what is at a destination is a
\* whole store, with one topology, the fields its manifest names and no others.
StoresWhole == \A d \in Destinations : disk[d] # None => disk[d] \in Stores

\* A save that is about to return has left at its destination what it was asked
\* for, although others save there too: the topology and the fields that were
\* given or, from a store, that store with the given fields in place of those of
\* the same name, and with all its other fields.
SavesExact ==
  \A p \in Processes :
    save[p].pc = "open" =>
      LET given == save[p].given
      IN  \/ save[p].from = None /\ disk[save[p].to] = Store(save[p].graph, given)
          \/ /\ save[p].from # None
             /\ \E t \in Graphs, m \in Fieldings :
                  /\ disk[save[p].from] = Store(t, m)
                  /\ disk[save[p].to] =
                       Store(t, [f \in DOMAIN m \cup DOMAIN given |->
                                   IF f \in DOMAIN given THEN given[f] ELSE m[f]])

\* A store that a process has open is what it was when it was opened: nobody
\* replaces or changes it, so files may be mapped and copied at leisure.
OpenedStays ==
  \A p \in Processes : opened[p] # None => disk[opened[p].at] = opened[p].store

\* A save that returned or raised has left no temporary directory.
NothingLeft ==
  \A p \in Processes : save[p] = Idle => disk[<<p, "temporary", starts[p]>>] = None

\* The state is well typed; saves that fail, die or meet leave nothing but whole
\* stores behind.
StoresOK == TypeOK /\ StoresWhole /\ NothingLeft

\* The name of an offload is never taken.
OffloadsFree == ~ refused
=============================================================================
