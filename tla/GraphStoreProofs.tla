------------------------- MODULE GraphStoreProofs -------------------------
(***************************************************************************)
(* Stores are whole, for any number of processes, graphs and files, in     *)
(* whichever order saves fail, die and meet.                               *)
(***************************************************************************)
EXTENDS GraphStore, TLAPS

-----------------------------------------------------------------------------
(* The inductive invariant.                                                *)

Contents    == {Whole(x) : x \in Graphs \cup (Graphs \X Fieldings)} \cup {Piece}
Directories == UNION {[S -> Contents] : S \in SUBSET Everything}
Saving ==
  [pc : {"make", "copy", "write", "rename", "clean", "open"}, to : Destinations,
   from : Destinations \cup {None}, left : SUBSET Everything,
   graph : Graphs \cup {None}, given : Fieldings]

Typed ==
  /\ disk \in [Destinations \cup Temporaries -> Directories \cup {None}]
  /\ save \in [Processes -> {Idle, Dead} \cup Saving]
  /\ opened \in [Processes -> [at : Destinations, store : Stores] \cup {None}]
  /\ pid \in [Processes -> Pids] /\ usedPids \subseteq Pids /\ refused \in BOOLEAN
  /\ counter \in [Processes -> 0 .. MaxOffloads] /\ starts \in [Processes -> 0 .. MaxStarts]

\* A save has a graph, or a store to copy.
GoalOK(p) ==
  save[p] \in Saving =>
    IF save[p].from = None THEN save[p].graph \in Graphs ELSE disk[save[p].from] # None

\* What a save works towards: its topology is that of the graph or of the store
\* it copies, and the given fields go over those the store has.
Asked(p) ==
  IF save[p].from = None THEN Store(save[p].graph, save[p].given)
  ELSE Store(disk[save[p].from]["manifest"].holds[1],
             Merged(disk[save[p].from]["manifest"].holds[2], save[p].given))

\* How far it is: the files that are not left are there.  The manifest of a copy
\* is what it was until it is written.
CopyOK(p) ==
  LET source == disk[save[p].from]
      there  == disk[Directory(p)]
  IN  /\ save[p].from # None /\ save[p].left \subseteq DOMAIN source
      /\ there \in [DOMAIN source \ save[p].left -> Contents]
      /\ \A f \in DOMAIN source \ save[p].left : there[f] = source[f]

WriteOK(p) ==
  LET there == disk[Directory(p)]
  IN  /\ "manifest" \in save[p].left /\ save[p].left \subseteq DOMAIN Asked(p)
      /\ \E S \in SUBSET DOMAIN Asked(p) :
           there \in [S -> Contents] /\ DOMAIN Asked(p) \ save[p].left \subseteq S
      /\ \A f \in DOMAIN Asked(p) \ save[p].left : there[f] = Asked(p)[f]
      /\ save[p].from # None =>
           /\ save[p].left \subseteq DOMAIN save[p].given \cup {"manifest"}
           /\ "manifest" \in DOMAIN there
           /\ there["manifest"] = disk[save[p].from]["manifest"]

FilesOK(p) ==
  /\ save[p].pc = "copy" => CopyOK(p)
  /\ save[p].pc = "write" => WriteOK(p)
  /\ save[p].pc = "rename" => disk[Directory(p)] = Asked(p)
  /\ save[p].pc = "open" => disk[save[p].to] = Asked(p)

\* The directories a process has not made, or has given away, are not there.
TemporaryOK(p) ==
  /\ save[p].pc \in {"idle", "make", "open"} => disk[Directory(p)] = None
  /\ \A k \in 0 .. MaxStarts : k > starts[p] => disk[<<p, "temporary", k>>] = None
  /\ save[p] = Dead => starts[p] < MaxStarts

OpenedOK(p) ==
  opened[p] # None => /\ disk[opened[p].at] # None
                      /\ disk[opened[p].at] = opened[p].store

IInv ==
  /\ Typed
  /\ StoresWhole
  /\ \A p \in Processes : GoalOK(p) /\ FilesOK(p) /\ TemporaryOK(p) /\ OpenedOK(p)

-----------------------------------------------------------------------------
(* Directories.                                                            *)

\* No two processes, and no two starts of one, share a temporary directory,
\* and it is no destination.
LEMMA TemporaryNames ==
  ASSUME NEW p \in Processes, NEW q \in Processes,
         NEW j \in 0 .. MaxStarts, NEW k \in 0 .. MaxStarts
  PROVE  /\ <<p, "temporary", j>> \in Temporaries \ Destinations
         /\ <<p, "temporary", j>> = <<q, "temporary", k>> => p = q /\ j = k
  <1>1. <<p, "temporary", j>> \in Temporaries
    BY DEF Temporaries
  <1>2. <<p, "temporary", j>> \notin Offloads
    BY DEF Offloads
  <1> QED BY <1>1, <1>2, StoreAssumption DEF Destinations

\* The files of a store.
LEMMA StoreNames ==
  ASSUME NEW t \in Graphs, NEW m \in Fieldings
  PROVE  /\ DOMAIN Store(t, m) = Topology \cup DOMAIN m \cup {"manifest"}
         /\ DOMAIN m \subseteq Fields /\ DOMAIN Store(t, m) \subseteq Everything
  BY DEF Fieldings, Store, Everything

LEMMA StoreIsThere ==
  ASSUME NEW t \in Graphs, NEW m \in Fieldings
  PROVE  Store(t, m) \in Stores /\ Store(t, m) # None
  BY StoreAssumption DEF Stores

LEMMA StoreManifest ==
  ASSUME NEW t \in Graphs, NEW m \in Fieldings
  PROVE  /\ Store(t, m)["manifest"] = Whole(<<t, m>>)
         /\ Store(t, m)["manifest"].holds[1] = t /\ Store(t, m)["manifest"].holds[2] = m
  <1>1. Store(t, m)["manifest"] = Whole(<<t, m>>)
    BY DEF Store
  <1> QED BY <1>1 DEF Whole

LEMMA StoreContents ==
  ASSUME NEW t \in Graphs, NEW m \in Fieldings
  PROVE  /\ \A f \in Topology : Store(t, m)[f] = Whole(t)
         /\ \A f \in DOMAIN m : Store(t, m)[f] = Whole(m[f])
  <1>1. DOMAIN m \subseteq Fields
    BY StoreNames
  <1> QED BY <1>1, StoreAssumption DEF Store

\* A store is a directory.
LEMMA StoreShape ==
  ASSUME NEW t \in Graphs, NEW m \in Fieldings
  PROVE  /\ Store(t, m) \in Stores /\ Store(t, m) \in Directories
         /\ Store(t, m) \in [DOMAIN Store(t, m) -> Contents]
  <1>1. m \in [DOMAIN m -> Graphs]
    BY DEF Fieldings
  <1>2. /\ DOMAIN Store(t, m) = Topology \cup DOMAIN m \cup {"manifest"}
        /\ DOMAIN Store(t, m) \subseteq Everything
        /\ Store(t, m)["manifest"] = Whole(<<t, m>>)
        /\ \A f \in Topology : Store(t, m)[f] = Whole(t)
        /\ \A f \in DOMAIN m : Store(t, m)[f] = Whole(m[f])
    BY StoreNames, StoreManifest, StoreContents
  <1>3. \A f \in DOMAIN Store(t, m) : Store(t, m)[f] \in Contents
    BY <1>1, <1>2 DEF Contents
  <1>4. Store(t, m) = [f \in DOMAIN Store(t, m) |-> Store(t, m)[f]]
    BY DEF Store
  <1>5. Store(t, m) \in [DOMAIN Store(t, m) -> Contents]
    BY <1>3, <1>4
  <1>6. Store(t, m) \in Directories
    BY <1>2, <1>5 DEF Directories
  <1> QED BY <1>5, <1>6 DEF Stores

LEMMA MergedNames ==
  ASSUME NEW old \in Fieldings, NEW given \in Fieldings
  PROVE  /\ Merged(old, given) \in Fieldings
         /\ DOMAIN Merged(old, given) = DOMAIN old \cup DOMAIN given
  <1>1. PICK F \in SUBSET Fields, G \in SUBSET Fields : old \in [F -> Graphs] /\ given \in [G -> Graphs]
    BY DEF Fieldings
  <1>2. Merged(old, given) \in [F \cup G -> Graphs] /\ F \cup G \in SUBSET Fields
    BY <1>1 DEF Merged
  <1> QED BY <1>2 DEF Merged, Fieldings

LEMMA MergedValues ==
  ASSUME NEW old \in Fieldings, NEW given \in Fieldings
  PROVE  /\ \A f \in DOMAIN given : Merged(old, given)[f] = given[f]
         /\ \A f \in DOMAIN old \ DOMAIN given : Merged(old, given)[f] = old[f]
  BY DEF Merged

\* What a save is asked for is a store: of its graph and the given fields, or
\* made from the store it copies.
LEMMA AskedStore ==
  ASSUME Typed, StoresWhole, NEW p \in Processes, GoalOK(p), save[p] \in Saving
  PROVE  \E t \in Graphs, m \in Fieldings :
           /\ Asked(p) = Store(t, m)
           /\ save[p].from = None => t = save[p].graph /\ m = save[p].given
           /\ save[p].from # None =>
                \E old \in Fieldings : /\ disk[save[p].from] = Store(t, old)
                                       /\ m = Merged(old, save[p].given)
  <1>1. save[p].given \in Fieldings /\ save[p].from \in Destinations \cup {None}
    BY DEF Saving
  <1>2. CASE save[p].from = None
    BY <1>1, <1>2 DEF Asked, GoalOK
  <1>3. CASE save[p].from # None
    <2>1. PICK t \in Graphs, old \in Fieldings : disk[save[p].from] = Store(t, old)
      BY <1>1, <1>3 DEF GoalOK, StoresWhole, Stores
    <2>2. Store(t, old)["manifest"].holds[1] = t /\ Store(t, old)["manifest"].holds[2] = old
      BY StoreManifest
    <2>3. Asked(p) = Store(t, Merged(old, save[p].given))
      BY <1>3, <2>1, <2>2 DEF Asked
    <2>4. Merged(old, save[p].given) \in Fieldings
      BY <1>1, MergedNames
    <2> QED BY <1>3, <2>1, <2>3, <2>4
  <1> QED BY <1>2, <1>3

\* It stays the same while the store that is copied does.
LEMMA AskedStays ==
  ASSUME NEW p \in Processes, GoalOK(p), save[p] \in Saving,
         save'[p].from = save[p].from, save'[p].graph = save[p].graph,
         save'[p].given = save[p].given,
         \A d \in Destinations : disk[d] # None => disk'[d] = disk[d]
  PROVE  /\ Asked(p)' = Asked(p)
         /\ save[p].from # None => disk'[save[p].from] = disk[save[p].from]
  <1>1. save[p].from \in Destinations \cup {None}
    BY DEF Saving
  <1>2. save[p].from # None => disk'[save[p].from] = disk[save[p].from]
    BY <1>1 DEF GoalOK
  <1> QED BY <1>2 DEF Asked

\* What becomes of a process that does not act, while no destination that is
\* there changes.
LEMMA Bystander ==
  ASSUME IInv, NEW q \in Processes,
         save'[q] = save[q], starts'[q] = starts[q],
         \A d \in Destinations : disk[d] # None => disk'[d] = disk[d],
         \A k \in 0 .. MaxStarts :
           disk'[<<q, "temporary", k>>] = disk[<<q, "temporary", k>>]
  PROVE  GoalOK(q)' /\ FilesOK(q)' /\ TemporaryOK(q)'
  <1>1. GoalOK(q) /\ FilesOK(q) /\ TemporaryOK(q) /\ Typed
    BY DEF IInv
  <1>2. Directory(q)' = Directory(q) /\ disk'[Directory(q)] = disk[Directory(q)]
    BY <1>1 DEF Directory, Typed
  <1>3. save[q].pc \notin {"idle", "dead"} => save[q] \in Saving
    BY <1>1 DEF Typed, Idle, Dead
  <1>4. save[q] \in Saving =>
          /\ Asked(q)' = Asked(q)
          /\ save[q].from # None => disk'[save[q].from] = disk[save[q].from]
    BY <1>1, AskedStays
  <1>5. GoalOK(q)'
    BY <1>1, <1>4 DEF GoalOK
  <1>6. FilesOK(q)'
    <2>1. save[q].pc = "open" => disk'[save[q].to] = disk[save[q].to]
      <3> SUFFICES ASSUME save[q].pc = "open" PROVE disk'[save[q].to] = disk[save[q].to]
        OBVIOUS
      <3>1. PICK t \in Graphs, m \in Fieldings : Asked(q) = Store(t, m)
        BY <1>1, <1>3, AskedStore DEF IInv
      <3>2. disk[save[q].to] # None /\ save[q].to \in Destinations
        BY <1>1, <1>3, <3>1, StoreIsThere DEF FilesOK, Saving
      <3> QED BY <3>2
    <2>2. CopyOK(q) /\ save[q] \in Saving => CopyOK(q)'
      BY <1>2, <1>4 DEF CopyOK
    <2>3. WriteOK(q) /\ save[q] \in Saving => WriteOK(q)'
      BY <1>2, <1>4 DEF WriteOK
    <2> QED BY <1>1, <1>2, <1>3, <1>4, <2>1, <2>2, <2>3 DEF FilesOK
  <1>7. TemporaryOK(q)'
    BY <1>1, <1>2 DEF TemporaryOK
  <1> QED BY <1>5, <1>6, <1>7

\* Open stores stay what they are while no destination changes that is there.
LEMMA OpenedStep ==
  ASSUME IInv, NEW q \in Processes, opened'[q] \in {opened[q], None},
         \A d \in Destinations : disk[d] # None => disk'[d] = disk[d]
  PROVE  OpenedOK(q)'
  BY DEF IInv, OpenedOK, Typed

\* A step that changes no destination leaves the stores whole.
LEMMA WholeStep ==
  ASSUME IInv, \A d \in Destinations : disk'[d] = disk[d]
  PROVE  StoresWhole'
  BY DEF IInv, StoresWhole

\* A step of p that touches its own temporary directory at most: the rest of
\* the invariant follows from what it says about p.
LEMMA OwnStep ==
  ASSUME IInv, NEW p \in Processes,
         \A d \in (Destinations \cup Temporaries) \ {Directory(p)} : disk'[d] = disk[d],
         \A q \in Processes \ {p} : save'[q] = save[q] /\ opened'[q] = opened[q],
         starts' = starts, opened'[p] = opened[p],
         Typed', GoalOK(p)', FilesOK(p)', TemporaryOK(p)'
  PROVE  IInv'
  <1>1. Typed
    BY DEF IInv
  <1>2. \A d \in Destinations : disk'[d] = disk[d]
    BY <1>1, TemporaryNames DEF Typed, Directory
  <1>3. \A q \in Processes \ {p}, k \in 0 .. MaxStarts :
          disk'[<<q, "temporary", k>>] = disk[<<q, "temporary", k>>]
    BY <1>1, TemporaryNames DEF Typed, Directory
  <1>4. StoresWhole'
    BY <1>2, WholeStep
  <1>5. ASSUME NEW q \in Processes
        PROVE  (GoalOK(q) /\ FilesOK(q) /\ TemporaryOK(q) /\ OpenedOK(q))'
    <2>1. OpenedOK(q)'
      BY <1>2, OpenedStep
    <2>2. CASE q = p
      BY <2>1, <2>2
    <2>3. CASE q # p
      BY <1>2, <1>3, <2>1, <2>3, Bystander
    <2> QED BY <2>2, <2>3
  <1> QED BY <1>4, <1>5 DEF IInv

-----------------------------------------------------------------------------
(* The steps of a process.                                                 *)

\* A save begins with a graph, or with a store that is there.
LEMMA BeginStep ==
  ASSUME IInv, NEW p \in Processes, NEW d \in Destinations,
         NEW from \in Destinations \cup {None}, NEW graph \in Graphs \cup {None},
         NEW given \in Fieldings,
         save[p] = Idle, Begin(p, d, from, graph, given),
         IF from = None THEN graph \in Graphs ELSE disk[from] # None,
         UNCHANGED <<disk, pid, usedPids, starts, opened>>,
         counter' \in [Processes -> 0 .. MaxOffloads], refused' \in BOOLEAN
  PROVE  IInv'
  <1>1. Typed /\ TemporaryOK(p) /\ FilesOK(p)
    BY DEF IInv
  <1> DEFINE new == [pc |-> "make", to |-> d, from |-> from, left |-> {},
                     graph |-> graph, given |-> given]
  <1>2. new \in Saving
    BY DEF Saving
  <1>3. save' = [save EXCEPT ![p] = IF disk[d] # None THEN Idle ELSE new]
    BY DEF Begin
  <1>4. save'[p] \in {Idle, new} /\ \A q \in Processes \ {p} : save'[q] = save[q]
    BY <1>1, <1>3 DEF Typed
  <1>5. Typed'
    BY <1>1, <1>2, <1>3 DEF Typed
  <1>6. GoalOK(p)'
    BY <1>4 DEF GoalOK, Saving, Idle
  <1>7. FilesOK(p)' /\ TemporaryOK(p)'
    BY <1>1, <1>4 DEF FilesOK, TemporaryOK, Directory, Idle, Dead
  <1> HIDE DEF new
  <1> QED BY <1>4, <1>5, <1>6, <1>7, OwnStep

LEMMA SaveStep ==
  ASSUME IInv, NEW p \in Processes, NEW d \in Paths, NEW g \in Graphs, NEW given \in Given,
         Save(p, d, g, given)
  PROVE  IInv'
  <1>1. Typed /\ d \in Destinations /\ given \in Fieldings
    BY StoreAssumption DEF IInv, Destinations
  <1> QED BY <1>1, BeginStep DEF Save, process, Typed

LEMMA OffloadStep ==
  ASSUME IInv, NEW p \in Processes, NEW g \in Graphs, Offload(p, g)
  PROVE  IInv'
  <1>1. Typed
    BY DEF IInv
  <1>2. Name(p) \in Destinations
    BY <1>1, StoreAssumption DEF Name, Offload, Typed, Destinations, Offloads
  <1>3. counter' \in [Processes -> 0 .. MaxOffloads] /\ refused' \in BOOLEAN
    BY <1>1, StoreAssumption DEF Offload, Typed
  <1>4. NoFields \in Fieldings
    <2>1. NoFields \in [{} -> Graphs]
      BY DEF NoFields
    <2> QED BY <2>1 DEF Fieldings
  <1> QED BY <1>1, <1>2, <1>3, <1>4, BeginStep DEF Offload

\* The store that is copied is there, as it is open.
LEMMA SaveStoreStep ==
  ASSUME IInv, NEW p \in Processes, NEW d \in Paths, NEW given \in Given,
         SaveStore(p, d, given)
  PROVE  IInv'
  <1>1. /\ Typed /\ opened[p] # None /\ d \in Destinations /\ given \in Fieldings
        /\ opened[p].at \in Destinations /\ disk[opened[p].at] # None
    BY StoreAssumption DEF IInv, SaveStore, OpenedOK, Typed, Destinations
  <1>2. opened[p].at # None
    <2> SUFFICES ASSUME opened[p].at = None PROVE FALSE
      OBVIOUS
    <2> QED BY <1>1, StoreAssumption
  <1>3. /\ UNCHANGED <<disk, pid, usedPids, starts, opened>> /\ save[p] = Idle
        /\ counter' \in [Processes -> 0 .. MaxOffloads] /\ refused' \in BOOLEAN
        /\ Begin(p, d, opened[p].at, None, given)
    BY <1>1 DEF SaveStore, process, Typed
  <1> QED BY <1>1, <1>2, <1>3, BeginStep

\* A save in progress has the fields of one, and remains one when it goes on.
LEMMA Goes ==
  ASSUME Typed, NEW p \in Processes, save[p].pc \notin {"idle", "dead"},
         NEW pc \in {"make", "copy", "write", "rename", "clean", "open"},
         NEW left \in SUBSET Everything,
         save' = [save EXCEPT ![p].pc = pc, ![p].left = left]
  PROVE  /\ save[p] \in Saving /\ save'[p] \in Saving
         /\ save' \in [Processes -> {Idle, Dead} \cup Saving]
         /\ save'[p].pc = pc /\ save'[p].left = left
         /\ save'[p].to = save[p].to /\ save'[p].from = save[p].from
         /\ save'[p].graph = save[p].graph /\ save'[p].given = save[p].given
         /\ \A q \in Processes \ {p} : save'[q] = save[q]
  <1>1. save[p] \in Saving
    BY DEF Typed, Idle, Dead
  <1>2. save'[p] = [save[p] EXCEPT !.pc = pc, !.left = left]
    BY DEF Typed
  <1> DEFINE s == save[p]
             e == [s EXCEPT !.pc = pc, !.left = left]
  <1>3. /\ e \in Saving /\ e.pc = pc /\ e.left = left
        /\ e.to = s.to /\ e.from = s.from /\ e.graph = s.graph /\ e.given = s.given
    <2>1. s \in Saving
      BY <1>1
    <2> HIDE DEF s
    <2>2. e \in Saving
      BY <2>1 DEF Saving
    <2>3. /\ e.pc = pc /\ e.left = left
          /\ e.to = s.to /\ e.from = s.from /\ e.graph = s.graph /\ e.given = s.given
      BY <2>1 DEF Saving
    <2> QED BY <2>2, <2>3
  <1>4. save'[p] = e
    BY <1>2
  <1>5. \A q \in Processes \ {p} : save'[q] = save[q]
    BY DEF Typed
  <1>6. save' \in [Processes -> {Idle, Dead} \cup Saving]
    <2>1. save' = [save EXCEPT ![p] = e]
      OBVIOUS
    <2> HIDE DEF e
    <2> QED BY <1>3, <2>1 DEF Typed
  <1> HIDE DEF e
  <1> QED BY <1>1, <1>3, <1>4, <1>5, <1>6

LEMMA Turns ==
  ASSUME Typed, NEW p \in Processes, save[p].pc \notin {"idle", "dead"},
         NEW pc \in {"make", "copy", "write", "rename", "clean", "open"},
         save' = [save EXCEPT ![p].pc = pc]
  PROVE  /\ save[p] \in Saving /\ save'[p] \in Saving
         /\ save' \in [Processes -> {Idle, Dead} \cup Saving]
         /\ save'[p].pc = pc
         /\ save'[p].to = save[p].to /\ save'[p].from = save[p].from
         /\ save'[p].graph = save[p].graph /\ save'[p].given = save[p].given
         /\ \A q \in Processes \ {p} : save'[q] = save[q]
  <1> DEFINE s == save[p]
             e == [s EXCEPT !.pc = pc]
  <1>1. s \in Saving
    BY DEF Typed, Idle, Dead
  <1>2. /\ e \in Saving /\ e.pc = pc
        /\ e.to = s.to /\ e.from = s.from /\ e.graph = s.graph /\ e.given = s.given
    <2> HIDE DEF s
    <2>1. e \in Saving
      BY <1>1 DEF Saving
    <2>2. e.pc = pc /\ e.to = s.to /\ e.from = s.from /\ e.graph = s.graph /\ e.given = s.given
      BY <1>1 DEF Saving
    <2> QED BY <2>1, <2>2
  <1>3. save' = [save EXCEPT ![p] = e]
    OBVIOUS
  <1> HIDE DEF e
  <1>4. save'[p] = e /\ \A q \in Processes \ {p} : save'[q] = save[q]
    BY <1>3 DEF Typed
  <1>5. save' \in [Processes -> {Idle, Dead} \cup Saving]
    BY <1>2, <1>3 DEF Typed
  <1> QED BY <1>1, <1>2, <1>4, <1>5

\* Its goal does not change, nor the store it copies.
LEMMA GoalStep ==
  ASSUME IInv, NEW p \in Processes, save[p] \in Saving, save'[p] \in Saving,
         save'[p].from = save[p].from, save'[p].graph = save[p].graph,
         \A d \in Destinations : disk[d] # None => disk'[d] = disk[d]
  PROVE  GoalOK(p)'
  <1>1. save[p].from \in Destinations \cup {None} /\ GoalOK(p)
    BY DEF IInv, Saving
  <1> QED BY <1>1 DEF GoalOK

LEMMA MakeDirectoryStep ==
  ASSUME IInv, NEW p \in Processes, MakeDirectory(p)
  PROVE  IInv'
  <1> DEFINE pc == IF save[p].from = None THEN "write" ELSE "copy"
             left == IF save[p].from = None
                     THEN Topology \cup DOMAIN save[p].given \cup {"manifest"}
                     ELSE DOMAIN disk[save[p].from]
             empty == [f \in {} |-> None]
  <1>1. Typed /\ GoalOK(p) /\ TemporaryOK(p)
    BY DEF IInv
  <1>2. save' = [save EXCEPT ![p].pc = pc, ![p].left = left]
    BY DEF MakeDirectory
  <1>a. save[p] \in Saving
    <2>1. save[p].pc = "make"
      BY DEF MakeDirectory
    <2> HIDE DEF pc, left
    <2> QED BY <1>1, <2>1 DEF Typed, Idle, Dead
  <1>b. PICK t \in Graphs, m \in Fieldings :
          /\ Asked(p) = Store(t, m)
          /\ save[p].from = None => t = save[p].graph /\ m = save[p].given
    BY <1>1, <1>a, AskedStore DEF IInv
  <1>c. save[p].from # None => disk[save[p].from] \in Stores
    BY <1>1, <1>a DEF GoalOK, Saving, IInv, StoresWhole
  <1>d. left \in SUBSET Everything
    <2>1. CASE save[p].from = None
      BY <1>b, <2>1, StoreNames
    <2>2. CASE save[p].from # None
      <3>1. PICK s \in Graphs, old \in Fieldings : disk[save[p].from] = Store(s, old)
        BY <1>c, <2>2 DEF Stores
      <3> QED BY <2>2, <3>1, StoreNames
    <2> QED BY <2>1, <2>2
  <1>3. /\ save[p] \in Saving /\ save'[p] \in Saving
        /\ save' \in [Processes -> {Idle, Dead} \cup Saving]
        /\ save'[p].pc = pc /\ save'[p].left = left
        /\ save'[p].from = save[p].from /\ save'[p].graph = save[p].graph
        /\ save'[p].given = save[p].given
        /\ \A q \in Processes \ {p} : save'[q] = save[q]
    <2>1. save[p].pc \notin {"idle", "dead"} /\ pc \in {"write", "copy"}
      BY DEF MakeDirectory
    <2> HIDE DEF left, pc
    <2> QED BY <1>1, <1>2, <1>d, <2>1, Goes
  <1>4. /\ Directory(p) \in Temporaries \ Destinations
        /\ disk' = [disk EXCEPT ![Directory(p)] = empty]
    BY <1>1, TemporaryNames DEF Directory, Typed, MakeDirectory
  <1>5. empty \in [{} -> Contents] /\ empty \in Directories
    BY DEF Directories
  <1> HIDE DEF empty
  <1>6. Typed'
    BY <1>1, <1>3, <1>4, <1>5 DEF Typed, MakeDirectory, process
  <1>7. GoalOK(p)'
    BY <1>1, <1>3, <1>4, GoalStep DEF Typed
  <1>8. Directory(p)' = Directory(p) /\ disk'[Directory(p)] = empty
    BY <1>1, <1>4 DEF Typed, Directory, MakeDirectory, process
  <1>9. FilesOK(p)'
    <2>1. /\ Asked(p)' = Asked(p)
          /\ save[p].from # None => disk'[save[p].from] = disk[save[p].from]
      BY <1>1, <1>3, <1>4, AskedStays DEF Typed
    <2>2. CASE save[p].from = None
      <3>1. save'[p].pc = "write" /\ save'[p].left = DOMAIN Asked(p)
        BY <1>3, <1>b, <2>2, StoreNames
      <3>2. "manifest" \in DOMAIN Asked(p)
        BY <1>b, StoreNames
      <3>3. WriteOK(p)'
        <4>1. {} \in SUBSET DOMAIN Asked(p)
          OBVIOUS
        <4>2. save'[p].from = None
          BY <1>3, <2>2
        <4> HIDE DEF left, pc
        <4> QED BY <1>5, <1>8, <2>1, <3>1, <3>2, <4>1, <4>2 DEF WriteOK
      <3> QED BY <3>1, <3>3 DEF FilesOK
    <2>3. CASE save[p].from # None
      <3>1. save'[p].pc = "copy" /\ save'[p].left = DOMAIN disk[save[p].from]
        BY <1>3, <2>3
      <3>2. CopyOK(p)'
        BY <1>3, <1>5, <1>8, <2>1, <2>3, <3>1 DEF CopyOK
      <3> QED BY <3>1, <3>2 DEF FilesOK
    <2> QED BY <2>2, <2>3
  <1>10. TemporaryOK(p)'
    <2>1. save'[p].pc \notin {"idle", "make", "open"} /\ save'[p] # Dead
      BY <1>3 DEF Dead
    <2>2. \A k \in 0 .. MaxStarts : k > starts[p] =>
            disk'[<<p, "temporary", k>>] = disk[<<p, "temporary", k>>]
      BY <1>1, <1>4, TemporaryNames DEF Typed, Directory
    <2> QED BY <1>1, <2>1, <2>2 DEF TemporaryOK, MakeDirectory, process
  <1> HIDE DEF left, pc
  <1> QED BY <1>3, <1>4, <1>6, <1>7, <1>9, <1>10, OwnStep DEF MakeDirectory, process

\* While a save writes there is nothing to say of directories to come.
LEMMA TemporaryStep ==
  ASSUME IInv, NEW p \in Processes,
         save'[p].pc \in {"copy", "write", "rename", "clean"}, starts' = starts,
         \A d \in (Destinations \cup Temporaries) \ {Directory(p)} : disk'[d] = disk[d]
  PROVE  TemporaryOK(p)'
  <1>1. Typed /\ TemporaryOK(p)
    BY DEF IInv
  <1>2. save'[p] # Dead
    BY DEF Dead
  <1>3. \A k \in 0 .. MaxStarts : k > starts[p] =>
          disk'[<<p, "temporary", k>>] = disk[<<p, "temporary", k>>]
    BY <1>1, TemporaryNames DEF Typed, Directory
  <1> QED BY <1>1, <1>2, <1>3 DEF TemporaryOK

\* Where a save writes.
LEMMA OwnDirectory ==
  ASSUME Typed, NEW p \in Processes, starts' = starts
  PROVE  Directory(p) \in Temporaries \ Destinations /\ Directory(p)' = Directory(p)
  BY TemporaryNames DEF Directory, Typed

LEMMA CopyFileStep ==
  ASSUME IInv, NEW p \in Processes, CopyFile(p)
  PROVE  IInv'
  <1> DEFINE source == disk[save[p].from]
             given  == DOMAIN save[p].given
  <1>1. /\ Typed /\ GoalOK(p) /\ CopyOK(p)
        /\ save[p] \in Saving /\ save[p].pc = "copy"
        /\ UNCHANGED <<pid, usedPids, counter, starts, opened, refused>>
    BY DEF IInv, Typed, FilesOK, CopyFile, process, Idle, Dead
  <1>2. PICK f \in save[p].left :
          LET left == save[p].left \ {f}
          IN  /\ source # None
              /\ Put(p, f, source[f])
              /\ save' = [save EXCEPT
                   ![p].left = IF left # {} THEN left
                               ELSE IF given # {} THEN given \cup {"manifest"} ELSE {},
                   ![p].pc = IF left # {} THEN "copy"
                             ELSE IF given # {} THEN "write" ELSE "rename"]
    BY DEF CopyFile
  <1> DEFINE left == save[p].left \ {f}
             then == IF left # {} THEN left
                     ELSE IF given # {} THEN given \cup {"manifest"} ELSE {}
             pc   == IF left # {} THEN "copy" ELSE IF given # {} THEN "write" ELSE "rename"
  <1>3. /\ save[p].from \in Destinations /\ save[p].from # None
        /\ save[p].left \subseteq DOMAIN source /\ f \in DOMAIN source
        /\ save[p].given \in Fieldings
    BY <1>1 DEF CopyOK, Saving
  <1>4. PICK t \in Graphs, m \in Fieldings :
          /\ Asked(p) = Store(t, m)
          /\ \E old \in Fieldings : source = Store(t, old) /\ m = Merged(old, save[p].given)
    BY <1>1, <1>3, AskedStore DEF IInv
  <1>5. PICK old \in Fieldings : source = Store(t, old) /\ m = Merged(old, save[p].given)
    BY <1>4
  <1>6. /\ DOMAIN source = Topology \cup DOMAIN old \cup {"manifest"}
        /\ DOMAIN source \subseteq Everything
        /\ source = [h \in DOMAIN source |-> source[h]]
        /\ \A h \in DOMAIN source : source[h] \in Contents
        /\ given \subseteq Fields
    <2>1. given \subseteq Fields
      BY <1>3 DEF Fieldings
    <2>2. source \in [DOMAIN source -> Contents]
      BY <1>5, StoreShape
    <2>3. DOMAIN source = Topology \cup DOMAIN old \cup {"manifest"} /\ DOMAIN source \subseteq Everything
      BY <1>5, StoreNames
    <2> HIDE DEF source, given
    <2> QED BY <2>1, <2>2, <2>3
  <1> DEFINE here == disk[Directory(p)]
             new == [h \in DOMAIN here \cup {f} |-> IF h = f THEN source[f] ELSE here[h]]
  <1>7. /\ disk' \in [Destinations \cup Temporaries -> Directories \cup {None}]
        /\ \A d \in (Destinations \cup Temporaries) \ {Directory(p)} : disk'[d] = disk[d]
        /\ Directory(p)' = Directory(p) /\ Directory(p) \notin Destinations
        /\ disk'[Directory(p)] = new
        /\ new \in [DOMAIN source \ left -> Contents]
        /\ \A h \in DOMAIN source \ left : new[h] = source[h]
    <2>1. /\ DOMAIN here = DOMAIN source \ save[p].left
          /\ \A h \in DOMAIN source \ save[p].left : here[h] \in Contents /\ here[h] = source[h]
      BY <1>1 DEF CopyOK
    <2>2. (DOMAIN source \ save[p].left) \cup {f} = DOMAIN source \ left
      BY <1>3
    <2>3. /\ new \in [DOMAIN source \ left -> Contents]
          /\ \A h \in DOMAIN source \ left : new[h] = source[h]
      BY <1>3, <1>6, <2>1, <2>2
    <2>4. new \in Directories
      <3>1. DOMAIN source \ left \in SUBSET Everything
        BY <1>6
      <3> HIDE DEF source, left, new
      <3> QED BY <2>3, <3>1 DEF Directories
    <2>5. disk' = [disk EXCEPT ![Directory(p)] = new]
      BY <1>2 DEF Put
    <2>6. Directory(p) \in Temporaries \ Destinations /\ Directory(p)' = Directory(p)
      BY <1>1, OwnDirectory
    <2> HIDE DEF new
    <2> QED BY <1>1, <2>3, <2>4, <2>5, <2>6 DEF Typed
  <1>8. then \in SUBSET Everything /\ save' = [save EXCEPT ![p].pc = pc, ![p].left = then]
    <2>1. save' = [save EXCEPT ![p].left = then, ![p].pc = pc]
      BY <1>2
    <2>2. then \in SUBSET Everything
      BY <1>3, <1>6 DEF Everything
    <2> HIDE DEF then, pc
    <2>3. save' = [save EXCEPT ![p].pc = pc, ![p].left = then]
      BY <2>1, <1>1 DEF Typed, Saving
    <2> QED BY <2>2, <2>3
  <1>9. /\ save'[p] \in Saving /\ save' \in [Processes -> {Idle, Dead} \cup Saving]
        /\ save'[p].pc = pc /\ save'[p].left = then
        /\ save'[p].from = save[p].from /\ save'[p].graph = save[p].graph
        /\ save'[p].given = save[p].given
        /\ \A q \in Processes \ {p} : save'[q] = save[q]
    <2>1. pc \in {"make", "copy", "write", "rename", "clean", "open"}
      OBVIOUS
    <2> HIDE DEF pc, then
    <2> QED BY <1>1, <1>8, <2>1, Goes
  <1>10. Typed'
    BY <1>1, <1>7, <1>9 DEF Typed
  <1>11. GoalOK(p)' /\ Asked(p)' = Asked(p) /\ disk'[save'[p].from] = source
    <2>1. \A d \in Destinations : disk'[d] = disk[d]
      BY <1>7
    <2> QED BY <1>1, <1>3, <1>9, <2>1, GoalStep, AskedStays
  <1>12. FilesOK(p)'
    <2> DEFINE there == disk'[Directory(p)']
    <2>1. there = new
      BY <1>7
    <2>2. CASE left # {}
      <3>1. save'[p].pc = "copy" /\ save'[p].left = left
        BY <1>9, <2>2
      <3>2. save'[p].from # None /\ left \subseteq DOMAIN source
        BY <1>3, <1>9
      <3> HIDE DEF source, left, new
      <3>3. CopyOK(p)'
        BY <1>7, <1>11, <2>1, <3>1, <3>2 DEF CopyOK
      <3> QED BY <3>1, <3>3 DEF FilesOK
    <2>3. CASE left = {}
      <3>1. there \in [DOMAIN source -> Contents] /\ \A h \in DOMAIN source : there[h] = source[h]
        <4> HIDE DEF source, left, new
        <4> QED BY <1>7, <2>1, <2>3
      <3>2. CASE given # {}
        <4>1. save'[p].pc = "write" /\ save'[p].left = given \cup {"manifest"}
          BY <1>9, <2>3, <3>2
        <4>2. /\ DOMAIN Asked(p) = Topology \cup DOMAIN m \cup {"manifest"}
              /\ DOMAIN m = DOMAIN old \cup given
          <5>1. DOMAIN Store(t, m) = Topology \cup DOMAIN m \cup {"manifest"}
            BY StoreNames
          <5>2. DOMAIN Merged(old, save[p].given) = DOMAIN old \cup DOMAIN save[p].given
            BY <1>3, MergedNames
          <5> QED BY <1>4, <1>5, <5>1, <5>2
        <4>3. ASSUME NEW h \in DOMAIN Asked(p) \ save'[p].left PROVE there[h] = Asked(p)[h]
          <5>1. h \in Topology \/ h \in DOMAIN old \ given
            BY <4>1, <4>2, <4>3
          <5>2. h \in DOMAIN source
            BY <1>6, <5>1
          <5>3. CASE h \in Topology
            BY <1>4, <1>5, <3>1, <5>2, <5>3, StoreContents
          <5>4. CASE h \in DOMAIN old \ given
            <6>1. m[h] = old[h] /\ h \in DOMAIN m
              BY <1>3, <1>5, <4>2, <5>4, MergedValues
            <6>2. source[h] = Whole(old[h]) /\ Asked(p)[h] = Whole(m[h])
              BY <1>4, <1>5, <5>4, <6>1, StoreContents
            <6> QED BY <3>1, <5>2, <6>1, <6>2
          <5> QED BY <5>1, <5>3, <5>4
        <4>4. DOMAIN source \in SUBSET DOMAIN Asked(p) /\ DOMAIN Asked(p) \ save'[p].left \subseteq DOMAIN source
          BY <1>6, <4>1, <4>2
        <4>5. /\ "manifest" \in save'[p].left /\ save'[p].left \subseteq DOMAIN Asked(p)
              /\ "manifest" \in DOMAIN there /\ there["manifest"] = source["manifest"]
              /\ save'[p].left \subseteq DOMAIN save'[p].given \cup {"manifest"}
          BY <1>6, <1>9, <3>1, <4>1, <4>2
        <4> HIDE DEF source, left, new, given
        <4>6. WriteOK(p)'
          BY <1>11, <3>1, <4>3, <4>4, <4>5 DEF WriteOK
        <4> QED BY <4>1, <4>6 DEF FilesOK
      <3>3. CASE given = {}
        <4>1. save'[p].pc = "rename"
          BY <1>9, <2>3, <3>3
        <4>2. m = old
          <5>1. DOMAIN m = DOMAIN old /\ \A h \in DOMAIN old : m[h] = old[h]
            <6>1. /\ DOMAIN Merged(old, save[p].given) = DOMAIN old \cup DOMAIN save[p].given
                  /\ \A h \in DOMAIN old \ DOMAIN save[p].given : Merged(old, save[p].given)[h] = old[h]
              BY <1>3, MergedNames, MergedValues
            <6> QED BY <1>5, <3>3, <6>1
          <5>2. m = [h \in DOMAIN m |-> m[h]] /\ old = [h \in DOMAIN old |-> old[h]]
            BY DEF Fieldings
          <5> QED BY <5>1, <5>2
        <4>3. source = Asked(p)
          BY <1>4, <1>5, <4>2
        <4>4. there = source
          <5> HIDE DEF source, new
          <5> QED BY <1>6, <3>1
        <4> HIDE DEF source, left, new, given
        <4> QED BY <1>11, <4>1, <4>3, <4>4 DEF FilesOK
      <3> QED BY <3>2, <3>3
    <2> QED BY <2>2, <2>3
  <1>13. save'[p].pc \in {"copy", "write", "rename", "clean"}
    BY <1>9
  <1> HIDE DEF source, left, then, pc, here, new, given
  <1>14. TemporaryOK(p)'
    BY <1>1, <1>7, <1>13, TemporaryStep
  <1>15. /\ \A q \in Processes \ {p} : save'[q] = save[q] /\ opened'[q] = opened[q]
         /\ starts' = starts /\ opened'[p] = opened[p]
    BY <1>1, <1>9
  <1> QED BY <1>7, <1>10, <1>11, <1>12, <1>14, <1>15, OwnStep

\* What a save writes into a file is what it is asked for.
LEMMA Written ==
  ASSUME IInv, NEW p \in Processes, save[p] \in Saving, save[p].pc = "write",
         NEW f \in save[p].left
  PROVE  Whole(IF f = "manifest" THEN Manifest(p)
               ELSE IF f \in Topology THEN save[p].graph ELSE save[p].given[f]) = Asked(p)[f]
  <1>1. Typed /\ GoalOK(p) /\ WriteOK(p) /\ StoresWhole /\ save[p].given \in Fieldings
    BY DEF IInv, FilesOK, Saving
  <1>2. PICK t \in Graphs, m \in Fieldings :
          /\ Asked(p) = Store(t, m)
          /\ save[p].from = None => t = save[p].graph /\ m = save[p].given
          /\ save[p].from # None =>
               \E old \in Fieldings : /\ disk[save[p].from] = Store(t, old)
                                      /\ m = Merged(old, save[p].given)
    BY <1>1, AskedStore
  <1>3. /\ f \in DOMAIN Asked(p) /\ DOMAIN Asked(p) = Topology \cup DOMAIN m \cup {"manifest"}
        /\ Asked(p)["manifest"] = Whole(<<t, m>>)
        /\ \A h \in Topology : Asked(p)[h] = Whole(t)
        /\ \A h \in DOMAIN m : Asked(p)[h] = Whole(m[h])
        /\ DOMAIN m \subseteq Fields
    <2>1. f \in DOMAIN Asked(p)
      BY <1>1 DEF WriteOK
    <2> QED BY <1>2, <2>1, StoreNames, StoreManifest, StoreContents
  <1>4. CASE save[p].from = None
    <2>1. Manifest(p) = <<t, m>>
      BY <1>2, <1>4 DEF Manifest
    <2> QED BY <1>2, <1>3, <1>4, <2>1, StoreAssumption
  <1>5. CASE save[p].from # None
    <2>1. PICK old \in Fieldings :
            disk[save[p].from] = Store(t, old) /\ m = Merged(old, save[p].given)
      BY <1>2, <1>5
    <2>2. disk[Directory(p)]["manifest"] = Store(t, old)["manifest"]
      BY <1>1, <1>5, <2>1 DEF WriteOK
    <2>3. Manifest(p) = <<t, m>>
      <3>1. Store(t, old)["manifest"].holds[1] = t /\ Store(t, old)["manifest"].holds[2] = old
        BY StoreManifest
      <3> QED BY <1>5, <2>1, <2>2, <3>1 DEF Manifest
    <2>4. f \in DOMAIN save[p].given \cup {"manifest"}
      BY <1>1, <1>5 DEF WriteOK
    <2>5. \A h \in DOMAIN save[p].given :
            /\ h \in DOMAIN m /\ m[h] = save[p].given[h] /\ h \in Fields
      <3>1. /\ DOMAIN Merged(old, save[p].given) = DOMAIN old \cup DOMAIN save[p].given
            /\ \A h \in DOMAIN save[p].given : Merged(old, save[p].given)[h] = save[p].given[h]
        BY <1>1, MergedNames, MergedValues
      <3> QED BY <1>3, <2>1, <3>1
    <2> QED BY <1>3, <2>3, <2>4, <2>5, StoreAssumption
  <1> QED BY <1>4, <1>5

LEMMA WriteFileStep ==
  ASSUME IInv, NEW p \in Processes, WriteFile(p)
  PROVE  IInv'
  <1> DEFINE goal == Asked(p)
  <1>1. /\ Typed /\ GoalOK(p) /\ WriteOK(p)
        /\ save[p] \in Saving /\ save[p].pc = "write"
        /\ UNCHANGED <<pid, usedPids, counter, starts, opened, refused>>
    BY DEF IInv, Typed, FilesOK, WriteFile, process, Idle, Dead
  <1>2. PICK f \in save[p].left :
          /\ save[p].left \cap Before(f) = {}
          /\ Put(p, f, goal[f])
          /\ save' = [save EXCEPT ![p].left = @ \ {f},
                                  ![p].pc = IF f = "manifest" THEN "rename" ELSE @]
    BY <1>1, Written DEF WriteFile
  <1> DEFINE left == save[p].left \ {f}
             pc   == IF f = "manifest" THEN "rename" ELSE "write"
             old  == disk[Directory(p)]
             new  == [h \in DOMAIN old \cup {f} |-> IF h = f THEN goal[f] ELSE old[h]]
  <1>3. /\ save[p].left \subseteq DOMAIN goal /\ f \in DOMAIN goal
        /\ \A h \in DOMAIN goal : goal[h] \in Contents
        /\ DOMAIN goal \subseteq Everything
        /\ goal = [h \in DOMAIN goal |-> goal[h]]
    <2>1. PICK t \in Graphs, m \in Fieldings : goal = Store(t, m)
      BY <1>1, AskedStore DEF IInv
    <2>2. save[p].left \subseteq DOMAIN goal
      BY <1>1 DEF WriteOK
    <2>3. goal \in [DOMAIN goal -> Contents] /\ DOMAIN goal \subseteq Everything
      BY <2>1, StoreShape, StoreNames
    <2> HIDE DEF goal
    <2> QED BY <2>2, <2>3
  <1>4. PICK S \in SUBSET DOMAIN goal :
          /\ old \in [S -> Contents] /\ DOMAIN goal \ save[p].left \subseteq S
    BY <1>1 DEF WriteOK
  <1>5. /\ disk' \in [Destinations \cup Temporaries -> Directories \cup {None}]
        /\ \A d \in (Destinations \cup Temporaries) \ {Directory(p)} : disk'[d] = disk[d]
        /\ Directory(p)' = Directory(p) /\ Directory(p) \notin Destinations
        /\ disk'[Directory(p)] = new
        /\ new \in [S \cup {f} -> Contents]
        /\ \A h \in DOMAIN goal \ left : new[h] = goal[h]
    <2>1. DOMAIN old = S /\ \A h \in DOMAIN goal \ save[p].left : old[h] = goal[h]
      BY <1>1, <1>4 DEF WriteOK
    <2> HIDE DEF goal
    <2>2. new \in [S \cup {f} -> Contents] /\ \A h \in DOMAIN goal \ left : new[h] = goal[h]
      BY <1>3, <1>4, <2>1
    <2>3. S \cup {f} \in SUBSET Everything
      BY <1>3
    <2>4. new \in Directories
      BY <2>2, <2>3 DEF Directories
    <2>5. disk' = [disk EXCEPT ![Directory(p)] = new]
      BY <1>2 DEF Put
    <2>6. Directory(p) \in Temporaries \ Destinations /\ Directory(p)' = Directory(p)
      BY <1>1, OwnDirectory
    <2> HIDE DEF new
    <2> QED BY <1>1, <2>2, <2>4, <2>5, <2>6 DEF Typed
  <1>6. left \in SUBSET Everything /\ save' = [save EXCEPT ![p].pc = pc, ![p].left = left]
    <2>1. left \in SUBSET Everything
      BY <1>3
    <2> QED BY <1>1, <1>2, <2>1 DEF Typed
  <1>7. pc \in {"write", "rename"}
    OBVIOUS
  <1>8. /\ save'[p] \in Saving /\ save' \in [Processes -> {Idle, Dead} \cup Saving]
        /\ save'[p].pc = pc /\ save'[p].left = left
        /\ save'[p].from = save[p].from /\ save'[p].graph = save[p].graph
        /\ save'[p].given = save[p].given
        /\ \A q \in Processes \ {p} : save'[q] = save[q]
    <2> HIDE DEF pc, left
    <2> QED BY <1>1, <1>6, <1>7, Goes
  <1>9. Typed'
    BY <1>1, <1>5, <1>8 DEF Typed
  <1>10. /\ GoalOK(p)' /\ Asked(p)' = goal
         /\ save[p].from # None => disk'[save[p].from] = disk[save[p].from]
    <2>1. \A d \in Destinations : disk'[d] = disk[d]
      BY <1>5
    <2> QED BY <1>1, <1>8, <2>1, GoalStep, AskedStays
  <1>11. FilesOK(p)'
    <2>1. CASE f # "manifest"
      <3>1. save'[p].pc = "write" /\ "manifest" \in left
        BY <1>1, <1>8, <2>1 DEF WriteOK
      <3>2. S \cup {f} \in SUBSET DOMAIN goal /\ DOMAIN goal \ left \subseteq S \cup {f}
        BY <1>3, <1>4
      <3>3. save[p].from # None =>
              /\ left \subseteq DOMAIN save[p].given \cup {"manifest"}
              /\ "manifest" \in DOMAIN new /\ new["manifest"] = disk[save[p].from]["manifest"]
        <4> HIDE DEF goal
        <4> QED BY <1>1, <2>1 DEF WriteOK
      <3>4. left \subseteq DOMAIN goal
        BY <1>3
      <3> HIDE DEF new, left, pc, goal
      <3>5. WriteOK(p)'
        BY <1>5, <1>8, <1>10, <3>1, <3>2, <3>3, <3>4 DEF WriteOK
      <3> QED BY <3>1, <3>5 DEF FilesOK
    <2>2. CASE f = "manifest"
      <3>1. save'[p].pc = "rename"
        BY <1>8, <2>2
      <3>2. left = {}
        <4>1. save[p].left \cap (Topology \cup Fields) = {}
          BY <1>2, <2>2, StoreAssumption DEF Before
        <4> QED BY <1>3, <2>2, <4>1 DEF Everything
      <3>3. S \cup {f} = DOMAIN goal
        BY <1>3, <1>4, <3>2
      <3>4. new = goal
        <4> HIDE DEF goal, left, new
        <4> QED BY <1>3, <1>5, <3>2, <3>3
      <3> HIDE DEF goal, new
      <3> QED BY <1>5, <1>10, <3>1, <3>4 DEF FilesOK
    <2> QED BY <2>1, <2>2
  <1>12. /\ save'[p].pc \in {"copy", "write", "rename", "clean"} /\ starts' = starts
         /\ \A q \in Processes \ {p} : save'[q] = save[q] /\ opened'[q] = opened[q]
         /\ opened'[p] = opened[p]
    BY <1>1, <1>8
  <1> HIDE DEF left, pc, goal, old, new
  <1>13. TemporaryOK(p)'
    BY <1>5, <1>12, TemporaryStep
  <1> QED BY <1>5, <1>9, <1>10, <1>11, <1>12, <1>13, OwnStep

\* A piece of a file is left, and the save is about to clean up.
LEMMA FileFailsStep ==
  ASSUME IInv, NEW p \in Processes, FileFails(p)
  PROVE  IInv'
  <1>1. /\ Typed /\ FilesOK(p) /\ GoalOK(p)
        /\ save[p] \in Saving /\ save[p].pc \in {"copy", "write"}
        /\ save' = [save EXCEPT ![p].pc = "clean"]
        /\ UNCHANGED <<pid, usedPids, counter, starts, opened, refused>>
    BY DEF IInv, Typed, FileFails, process, Idle, Dead
  <1>2. PICK f \in save[p].left : Put(p, f, Piece)
    BY DEF FileFails
  <1>3. f \in Everything /\ save[p].left \in SUBSET Everything
    BY <1>1 DEF Saving
  <1>4. PICK S \in SUBSET Everything : disk[Directory(p)] \in [S -> Contents]
    <2>1. PICK t \in Graphs, m \in Fieldings :
            /\ Asked(p) = Store(t, m)
            /\ save[p].from # None => \E old \in Fieldings : disk[save[p].from] = Store(t, old)
      BY <1>1, AskedStore DEF IInv
    <2>2. /\ DOMAIN Asked(p) \subseteq Everything
          /\ save[p].from # None => DOMAIN disk[save[p].from] \subseteq Everything
      BY <2>1, StoreNames
    <2>3. CASE save[p].pc = "copy"
      <3>1. DOMAIN disk[save[p].from] \ save[p].left \in SUBSET Everything
        BY <1>1, <2>2, <2>3 DEF FilesOK, CopyOK
      <3> QED BY <1>1, <2>3, <3>1 DEF FilesOK, CopyOK
    <2>4. CASE save[p].pc = "write"
      <3>1. PICK S \in SUBSET DOMAIN Asked(p) : disk[Directory(p)] \in [S -> Contents]
        BY <1>1, <2>4 DEF FilesOK, WriteOK
      <3> QED BY <2>2, <3>1
    <2> QED BY <1>1, <2>3, <2>4
  <1> DEFINE old == disk[Directory(p)]
             new == [h \in DOMAIN old \cup {f} |-> IF h = f THEN Piece ELSE old[h]]
  <1>5. /\ disk' \in [Destinations \cup Temporaries -> Directories \cup {None}]
        /\ \A d \in (Destinations \cup Temporaries) \ {Directory(p)} : disk'[d] = disk[d]
        /\ Directory(p) \notin Destinations
    <2>1. new \in [S \cup {f} -> Contents] /\ S \cup {f} \in SUBSET Everything
      BY <1>3, <1>4 DEF Contents
    <2>2. new \in Directories
      BY <2>1 DEF Directories
    <2>3. disk' = [disk EXCEPT ![Directory(p)] = new]
      BY <1>2 DEF Put
    <2>4. Directory(p) \in Temporaries \ Destinations
      BY <1>1, OwnDirectory
    <2> HIDE DEF new
    <2> QED BY <1>1, <2>2, <2>3, <2>4 DEF Typed
  <1>6. /\ save'[p] \in Saving /\ save' \in [Processes -> {Idle, Dead} \cup Saving]
        /\ save'[p].pc = "clean"
        /\ save'[p].from = save[p].from /\ save'[p].graph = save[p].graph
        /\ save'[p].given = save[p].given
        /\ \A q \in Processes \ {p} : save'[q] = save[q]
    BY <1>1, Turns
  <1>7. Typed'
    BY <1>1, <1>5, <1>6 DEF Typed
  <1>8. GoalOK(p)'
    BY <1>1, <1>5, <1>6, GoalStep
  <1>9. FilesOK(p)'
    BY <1>6 DEF FilesOK
  <1>10. TemporaryOK(p)'
    BY <1>1, <1>5, <1>6, TemporaryStep
  <1> QED BY <1>1, <1>5, <1>6, <1>7, <1>8, <1>9, <1>10, OwnStep

LEMMA CleanStep ==
  ASSUME IInv, NEW p \in Processes, Clean(p)
  PROVE  IInv'
  <1>1. /\ Typed /\ TemporaryOK(p)
        /\ save' = [save EXCEPT ![p] = Idle] /\ disk' = [disk EXCEPT ![Directory(p)] = None]
        /\ UNCHANGED <<pid, usedPids, counter, starts, opened, refused>>
    BY DEF IInv, Clean, process, Emptied
  <1>2. Directory(p) \in Temporaries \ Destinations /\ Directory(p)' = Directory(p)
    BY <1>1, OwnDirectory
  <1>3. /\ \A d \in (Destinations \cup Temporaries) \ {Directory(p)} : disk'[d] = disk[d]
        /\ disk'[Directory(p)] = None
    BY <1>1, <1>2 DEF Typed
  <1>4. save'[p] = Idle /\ \A q \in Processes \ {p} : save'[q] = save[q]
    BY <1>1 DEF Typed
  <1>5. Typed'
    BY <1>1, <1>2 DEF Typed
  <1>6. GoalOK(p)' /\ FilesOK(p)'
    BY <1>4 DEF GoalOK, FilesOK, Saving, Idle
  <1>7. TemporaryOK(p)'
    <2>1. \A k \in 0 .. MaxStarts : k > starts[p] =>
            disk'[<<p, "temporary", k>>] = disk[<<p, "temporary", k>>]
      BY <1>1, <1>3, TemporaryNames DEF Typed, Directory
    <2> QED BY <1>1, <1>2, <1>3, <1>4, <2>1 DEF TemporaryOK, Idle, Dead
  <1> QED BY <1>1, <1>3, <1>4, <1>5, <1>6, <1>7, OwnStep

\* The temporary directory, a whole store, becomes a destination, or the
\* destination is taken and the save cleans up.
LEMMA RenameStep ==
  ASSUME IInv, NEW p \in Processes, Rename(p)
  PROVE  IInv'
  <1>1. /\ Typed /\ GoalOK(p) /\ FilesOK(p) /\ TemporaryOK(p)
        /\ save[p].pc = "rename" /\ save[p] \in Saving
        /\ UNCHANGED <<pid, usedPids, counter, starts, opened, refused>>
    BY DEF IInv, Typed, Rename, process, Idle, Dead
  <1>2. Directory(p) \in Temporaries \ Destinations /\ Directory(p)' = Directory(p)
    BY <1>1, OwnDirectory
  <1>3. save[p].to \in Destinations
    BY <1>1 DEF Saving
  <1>4. CASE disk[save[p].to] # None
    <2>1. save' = [save EXCEPT ![p].pc = "clean"] /\ UNCHANGED disk
      BY <1>4 DEF Rename, MayRename
    <2>2. /\ save'[p] \in Saving /\ save' \in [Processes -> {Idle, Dead} \cup Saving]
          /\ save'[p].pc = "clean"
          /\ save'[p].from = save[p].from /\ save'[p].graph = save[p].graph
        /\ save'[p].given = save[p].given
          /\ \A q \in Processes \ {p} : save'[q] = save[q]
      BY <1>1, <2>1, Turns
    <2>3. Typed'
      BY <1>1, <2>1, <2>2 DEF Typed
    <2>4. GoalOK(p)'
      BY <1>1, <2>1, <2>2, GoalStep
    <2>5. FilesOK(p)' /\ TemporaryOK(p)'
      BY <1>1, <2>1, <2>2, TemporaryStep DEF FilesOK
    <2> QED BY <1>1, <2>1, <2>2, <2>3, <2>4, <2>5, OwnStep
  <1>5. CASE disk[save[p].to] = None
    <2>1. /\ save' = [save EXCEPT ![p].pc = "open"]
          /\ disk' = [disk EXCEPT ![save[p].to] = disk[Directory(p)], ![Directory(p)] = None]
      BY <1>5 DEF Rename, MayRename
    <2>2. /\ save'[p] \in Saving /\ save' \in [Processes -> {Idle, Dead} \cup Saving]
          /\ save'[p].pc = "open"
          /\ save'[p].from = save[p].from /\ save'[p].graph = save[p].graph
        /\ save'[p].given = save[p].given
          /\ \A q \in Processes \ {p} : save'[q] = save[q]
      BY <1>1, <2>1, Turns
    <2>3. /\ disk'[save[p].to] = Asked(p) /\ disk'[Directory(p)] = None
          /\ \A d \in (Destinations \cup Temporaries) \ {Directory(p), save[p].to} :
               disk'[d] = disk[d]
      BY <1>1, <1>2, <1>3, <2>1 DEF Typed, FilesOK
    <2>4. \A d \in Destinations : disk[d] # None => disk'[d] = disk[d]
      BY <1>2, <1>5, <2>3
    <2>5. Typed'
      BY <1>1, <1>2, <1>3, <2>1, <2>2 DEF Typed
    <2>6. StoresWhole'
      <3>1. PICK t \in Graphs, m \in Fieldings : Asked(p) = Store(t, m)
        BY <1>1, AskedStore DEF IInv
      <3>2. Asked(p) \in Stores
        BY <3>1, StoreIsThere
      <3>3. ASSUME NEW d \in Destinations, disk'[d] # None PROVE disk'[d] \in Stores
        BY <1>2, <2>3, <3>2, <3>3 DEF IInv, StoresWhole
      <3> QED BY <3>3 DEF StoresWhole, Stores
    <2>7. \A q \in Processes \ {p}, k \in 0 .. MaxStarts :
            disk'[<<q, "temporary", k>>] = disk[<<q, "temporary", k>>]
      BY <1>1, <1>3, <2>3, TemporaryNames DEF Typed, Directory
    <2>8. GoalOK(p)'
      BY <1>1, <2>2, <2>4, GoalStep
    <2>9. FilesOK(p)'
      <3>1. Asked(p)' = Asked(p) /\ save'[p].to = save[p].to
        <4>1. save'[p].to = save[p].to
          BY <1>1, <2>1, Turns
        <4> QED BY <1>1, <2>2, <2>4, <4>1, AskedStays
      <3> QED BY <2>2, <2>3, <3>1 DEF FilesOK
    <2>10. TemporaryOK(p)'
      <3>1. \A k \in 0 .. MaxStarts : k > starts[p] =>
              disk'[<<p, "temporary", k>>] = disk[<<p, "temporary", k>>]
        BY <1>1, <1>3, <2>3, TemporaryNames DEF Typed, Directory
      <3>2. save'[p] # Dead
        BY <2>2 DEF Dead
      <3> QED BY <1>1, <1>2, <2>3, <3>1, <3>2 DEF TemporaryOK
    <2>11. ASSUME NEW q \in Processes
           PROVE  (GoalOK(q) /\ FilesOK(q) /\ TemporaryOK(q) /\ OpenedOK(q))'
      <3>1. OpenedOK(q)'
        BY <1>1, <2>4, OpenedStep
      <3>2. CASE q = p
        BY <2>8, <2>9, <2>10, <3>1, <3>2
      <3>3. CASE q # p
        BY <1>1, <2>2, <2>4, <2>7, <3>1, <3>3, Bystander
      <3> QED BY <3>2, <3>3
    <2> QED BY <2>5, <2>6, <2>11 DEF IInv
  <1> QED BY <1>4, <1>5

\* Opening a store: it is whole, and what was opened is what is there.
LEMMA Opening ==
  ASSUME IInv, NEW p \in Processes, NEW d \in Destinations, Opens(disk[d]),
         opened' = [opened EXCEPT ![p] = [at |-> d, store |-> disk[d]]],
         save' \in {save, [save EXCEPT ![p] = Idle]},
         save[p].pc \in {"idle", "open"},
         UNCHANGED <<disk, pid, usedPids, counter, starts, refused>>
  PROVE  IInv'
  <1>1. Typed /\ TemporaryOK(p) /\ disk[d] # None
    BY DEF IInv, Opens
  <1>2. disk[d] \in Stores
    BY <1>1 DEF IInv, StoresWhole
  <1>3. save'[p].pc \in {"idle", "open"} /\ \A q \in Processes \ {p} : save'[q] = save[q]
    BY <1>1 DEF Typed, Idle
  <1>4. Typed'
    BY <1>1, <1>2 DEF Typed
  <1>5. GoalOK(p)' /\ FilesOK(p)'
    <2>1. CASE save' = save
      BY <2>1 DEF IInv, GoalOK, FilesOK, CopyOK, WriteOK, Asked, Directory
    <2>2. CASE save' = [save EXCEPT ![p] = Idle]
      <3>1. save'[p] = Idle
        BY <1>1, <2>2 DEF Typed
      <3> QED BY <3>1 DEF GoalOK, FilesOK, Saving, Idle
    <2> QED BY <2>1, <2>2
  <1>6. TemporaryOK(p)'
    <2>1. Directory(p)' = Directory(p) /\ save'[p] # Dead
      BY <1>3 DEF Directory, Dead
    <2> QED BY <1>1, <1>3, <2>1 DEF TemporaryOK
  <1>7. StoresWhole'
    BY WholeStep
  <1>8. ASSUME NEW q \in Processes
        PROVE  (GoalOK(q) /\ FilesOK(q) /\ TemporaryOK(q) /\ OpenedOK(q))'
    <2>1. CASE q = p
      <3>1. OpenedOK(p)'
        BY <1>1 DEF OpenedOK, Typed
      <3> QED BY <1>5, <1>6, <2>1, <3>1
    <2>2. CASE q # p
      <3>1. opened'[q] = opened[q]
        BY <1>1, <2>2 DEF Typed
      <3>2. OpenedOK(q)'
        BY <3>1, OpenedStep
      <3> QED BY <1>3, <2>2, <3>2, Bystander
    <2> QED BY <2>1, <2>2
  <1> QED BY <1>4, <1>7, <1>8 DEF IInv

LEMMA OpenStep ==
  ASSUME IInv, NEW p \in Processes,
         OpenSaved(p) \/ \E d \in Destinations : Load(p, d)
  PROVE  IInv'
  <1>1. CASE OpenSaved(p)
    <2>1. save[p] \in Saving /\ save[p].to \in Destinations
      BY <1>1 DEF OpenSaved, IInv, Typed, Idle, Dead, Saving
    <2> QED BY <1>1, <2>1, Opening DEF OpenSaved, process
  <1>2. ASSUME NEW d \in Destinations, Load(p, d)
        PROVE  IInv'
    <2>1. /\ Opens(disk[d]) /\ save[p].pc = "idle" /\ save' = save
          /\ opened' = [opened EXCEPT ![p] = [at |-> d, store |-> disk[d]]]
          /\ UNCHANGED <<disk, pid, usedPids, counter, starts, refused>>
      BY <1>2 DEF Load, process, Idle
    <2> QED BY <2>1, Opening
  <1> QED BY <1>1, <1>2

\* A death leaves what was written, and nothing says what it is.
LEMMA CrashStep ==
  ASSUME IInv, NEW p \in Processes, Crash(p)
  PROVE  IInv'
  <1>1. /\ Typed /\ TemporaryOK(p) /\ starts[p] < MaxStarts
        /\ save' = [save EXCEPT ![p] = Dead] /\ opened' = [opened EXCEPT ![p] = None]
        /\ UNCHANGED <<disk, pid, usedPids, counter, starts, refused>>
    BY DEF IInv, Crash, process
  <1>2. /\ save'[p] = Dead /\ opened'[p] = None
        /\ \A q \in Processes \ {p} : save'[q] = save[q] /\ opened'[q] = opened[q]
    BY <1>1 DEF Typed
  <1>3. Typed'
    BY <1>1 DEF Typed
  <1>4. GoalOK(p)' /\ FilesOK(p)' /\ TemporaryOK(p)'
    BY <1>1, <1>2 DEF GoalOK, FilesOK, TemporaryOK, Saving, Dead, Idle
  <1>5. StoresWhole'
    BY <1>1, WholeStep
  <1>6. ASSUME NEW q \in Processes
        PROVE  (GoalOK(q) /\ FilesOK(q) /\ TemporaryOK(q) /\ OpenedOK(q))'
    <2>1. OpenedOK(q)'
      BY <1>1, <1>2, OpenedStep
    <2> QED BY <1>1, <1>2, <1>4, <2>1, Bystander
  <1> QED BY <1>3, <1>5, <1>6 DEF IInv

\* A process that starts again has a name of its own for its directories.
LEMMA RestartStep ==
  ASSUME IInv, NEW p \in Processes, Restart(p)
  PROVE  IInv'
  <1>1. /\ Typed /\ TemporaryOK(p) /\ save[p] = Dead
        /\ save' = [save EXCEPT ![p] = Idle] /\ starts' = [starts EXCEPT ![p] = @ + 1]
        /\ pid' \in [Processes -> Pids] /\ usedPids' \subseteq Pids
        /\ counter' = [counter EXCEPT ![p] = 0]
        /\ UNCHANGED <<disk, opened, refused>>
    BY DEF IInv, Restart, Typed
  <1>2. /\ save'[p] = Idle /\ starts'[p] = starts[p] + 1
        /\ \A q \in Processes \ {p} : save'[q] = save[q] /\ starts'[q] = starts[q]
    BY <1>1 DEF Typed
  <1>3. starts[p] \in 0 .. MaxStarts /\ starts[p] + 1 \in 0 .. MaxStarts
    BY <1>1, StoreAssumption DEF Typed, TemporaryOK
  <1>4. Typed'
    BY <1>1, <1>3, StoreAssumption DEF Typed
  <1>5. GoalOK(p)' /\ FilesOK(p)'
    BY <1>2 DEF GoalOK, FilesOK, Saving, Idle
  <1>6. TemporaryOK(p)'
    <2>1. Directory(p)' = <<p, "temporary", starts[p] + 1>>
      BY <1>2 DEF Directory
    <2>2. \A k \in 0 .. MaxStarts : k > starts[p] => disk[<<p, "temporary", k>>] = None
      BY <1>1 DEF TemporaryOK
    <2> QED BY <1>1, <1>2, <1>3, <2>1, <2>2 DEF TemporaryOK, Idle, Dead
  <1>7. StoresWhole'
    BY <1>1, WholeStep
  <1>8. ASSUME NEW q \in Processes
        PROVE  (GoalOK(q) /\ FilesOK(q) /\ TemporaryOK(q) /\ OpenedOK(q))'
    <2>1. OpenedOK(q)'
      BY <1>1, OpenedStep
    <2> QED BY <1>1, <1>2, <1>5, <1>6, <2>1, Bystander
  <1> QED BY <1>4, <1>7, <1>8 DEF IInv

-----------------------------------------------------------------------------
(* The theorems.                                                           *)

LEMMA InitInv == Init => IInv
  <1> SUFFICES ASSUME Init PROVE IInv
    OBVIOUS
  <1>1. Typed
    <2>1. disk \in [Destinations \cup Temporaries -> Directories \cup {None}]
      BY DEF Init
    <2>2. save \in [Processes -> {Idle, Dead} \cup Saving]
      BY DEF Init
    <2>3. opened \in [Processes -> [at : Destinations, store : Stores] \cup {None}]
      BY DEF Init
    <2>4. pid \in [Processes -> Pids] /\ refused \in BOOLEAN
      BY DEF Init
    <2>5. usedPids \subseteq Pids
      <3>1. ASSUME NEW p \in Processes PROVE pid[p] \in Pids
        BY <2>4
      <3> QED BY <3>1 DEF Init
    <2>6. counter \in [Processes -> 0 .. MaxOffloads] /\ starts \in [Processes -> 0 .. MaxStarts]
      <3>1. 0 \in 0 .. MaxOffloads /\ 0 \in 0 .. MaxStarts
        BY StoreAssumption
      <3> QED BY <3>1 DEF Init
    <2> QED BY <2>1, <2>2, <2>3, <2>4, <2>5, <2>6 DEF Typed
  <1>2. StoresWhole
    BY DEF Init, StoresWhole
  <1>3. ASSUME NEW p \in Processes
        PROVE  GoalOK(p) /\ FilesOK(p) /\ TemporaryOK(p) /\ OpenedOK(p)
    <2>1. save[p] = Idle /\ opened[p] = None /\ starts[p] = 0
      BY DEF Init
    <2>2. \A k \in 0 .. MaxStarts : disk[<<p, "temporary", k>>] = None
      BY DEF Init, Temporaries
    <2>3. disk[Directory(p)] = None
      BY <2>1, <2>2, StoreAssumption DEF Directory
    <2> QED BY <2>1, <2>2, <2>3 DEF GoalOK, FilesOK, TemporaryOK, OpenedOK, Saving, Idle, Dead
  <1> QED BY <1>1, <1>2, <1>3 DEF IInv

LEMMA Inductive == IInv /\ [Next]_vars => IInv'
  <1> SUFFICES ASSUME IInv, [Next]_vars PROVE IInv'
    OBVIOUS
  <1>1. ASSUME NEW p \in Processes, NEW d \in Paths, NEW given \in Given,
               (\E g \in Graphs : Save(p, d, g, given)) \/ SaveStore(p, d, given)
        PROVE  IInv'
    BY <1>1, SaveStep, SaveStoreStep
  <1>2. ASSUME NEW p \in Processes, NEW g \in Graphs, Offload(p, g)
        PROVE  IInv'
    BY <1>2, OffloadStep
  <1>3. ASSUME NEW p \in Processes,
               MakeDirectory(p) \/ CopyFile(p) \/ WriteFile(p) \/ FileFails(p)
        PROVE  IInv'
    BY <1>3, MakeDirectoryStep, CopyFileStep, WriteFileStep, FileFailsStep
  <1>4. ASSUME NEW p \in Processes,
               \/ Rename(p) \/ Clean(p) \/ OpenSaved(p)
               \/ \E d \in Destinations : Load(p, d)
               \/ Crash(p) \/ Restart(p)
        PROVE  IInv'
    BY <1>4, RenameStep, CleanStep, OpenStep, CrashStep, RestartStep
  <1>5. CASE UNCHANGED vars
    <2>1. UNCHANGED <<disk, save, pid, usedPids, counter, starts, opened, refused>>
      BY <1>5 DEF vars
    <2>2. Typed' /\ StoresWhole'
      BY <2>1, WholeStep DEF IInv, Typed
    <2>3. ASSUME NEW q \in Processes
          PROVE  (GoalOK(q) /\ FilesOK(q) /\ TemporaryOK(q) /\ OpenedOK(q))'
      BY <2>1, Bystander, OpenedStep
    <2> QED BY <2>2, <2>3 DEF IInv
  <1> QED BY <1>1, <1>2, <1>3, <1>4, <1>5 DEF Next

\* What is at a destination is a whole store, with the fields its manifest names
\* and no others, and no save that is over has left a temporary directory,
\* whoever fails or dies, and whichever stores are copied and extended.
THEOREM StoresAlwaysOK == Spec => []StoresOK
  <1>1. IInv => StoresOK
    <2> SUFFICES ASSUME IInv PROVE StoresOK
      OBVIOUS
    <2>1. TypeOK
      <3>1. Typed
        BY DEF IInv
      <3>2. ASSUME NEW d \in Destinations \cup Temporaries, disk[d] # None
            PROVE  DOMAIN disk[d] \subseteq Everything
        BY <3>1, <3>2 DEF Typed, Directories
      <3>3. ASSUME NEW p \in Processes
            PROVE  save[p] \in {Idle, Dead} \/
                     /\ save[p].pc \in {"make", "copy", "write", "rename", "clean", "open"}
                     /\ save[p].to \in Destinations /\ save[p].from \in Destinations \cup {None}
                     /\ save[p].left \subseteq Everything
                     /\ save[p].graph \in Graphs \cup {None} /\ save[p].given \in Fieldings
        BY <3>1 DEF Typed, Saving
      <3>4. \A p \in Processes :
              opened[p] # None => opened[p].at \in Destinations /\ opened[p].store \in Stores
        BY <3>1 DEF Typed
      <3> QED BY <3>1, <3>2, <3>3, <3>4 DEF TypeOK, Typed
    <2>2. NothingLeft
      BY DEF IInv, TemporaryOK, NothingLeft, Directory, Idle
    <2> QED BY <2>1, <2>2 DEF IInv, StoresOK
  <1> QED BY <1>1, InitInv, Inductive, PTL DEF Spec

\* A save that returns has left what it was asked for: a copy has the given fields
\* and, for the rest, those of the store that was copied.
THEOREM SavesAlwaysExact == Spec => []SavesExact
  <1>1. IInv => SavesExact
    <2> SUFFICES ASSUME IInv, NEW p \in Processes, save[p].pc = "open"
                 PROVE  \/ /\ save[p].from = None
                           /\ disk[save[p].to] = Store(save[p].graph, save[p].given)
                        \/ /\ save[p].from # None
                           /\ \E t \in Graphs, m \in Fieldings :
                                /\ disk[save[p].from] = Store(t, m)
                                /\ disk[save[p].to] = Store(t, Merged(m, save[p].given))
      BY DEF SavesExact, Merged
    <2>1. /\ Typed /\ StoresWhole /\ GoalOK(p) /\ save[p] \in Saving
          /\ disk[save[p].to] = Asked(p)
      BY DEF IInv, FilesOK, Typed, Idle, Dead
    <2> QED BY <2>1, AskedStore
  <1> QED BY <1>1, InitInv, Inductive, PTL DEF Spec

\* An open store is what it was when it was opened.
THEOREM OpenedAlwaysStays == Spec => []OpenedStays
  <1>1. IInv => OpenedStays
    BY DEF IInv, OpenedOK, OpenedStays
  <1> QED BY <1>1, InitInv, Inductive, PTL DEF Spec

-----------------------------------------------------------------------------
(* The names of offloads.                                                  *)

\* A process offloads under its own id and a number it has not used; an id is
\* in use by one process, and ids nobody had yet name no store.
NamesInv ==
  /\ \A p, q \in Processes : p # q => pid[p] # pid[q]
  /\ \A p \in Processes :
       /\ pid[p] \in usedPids
       /\ save[p] \in Saving /\ save[p].to \in Offloads =>
            save[p].to[1] = pid[p] /\ save[p].to[2] < counter[p]
  /\ \A d \in Offloads : disk[d] # None =>
       d[1] \in usedPids /\ \A p \in Processes : d[1] = pid[p] => d[2] < counter[p]
  /\ ~ refused

LEMMA OffloadsAreDestinations == Offloads \subseteq Destinations
  BY DEF Destinations

\* A step that begins no offload and gives out no id.
LEMMA NamesFrame ==
  ASSUME IInv, NamesInv, UNCHANGED <<pid, usedPids, counter, refused>>,
         \A d \in Offloads : disk'[d] = disk[d],
         \A q \in Processes : save'[q] \in Saving /\ save'[q].to \in Offloads =>
           save[q] \in Saving /\ save'[q].to = save[q].to
  PROVE  NamesInv'
  BY DEF NamesInv

\* The steps of a save that go on with it, but for the renaming.
LEMMA NamesGoOn ==
  ASSUME IInv, NamesInv, NEW p \in Processes,
         \/ MakeDirectory(p) \/ CopyFile(p) \/ WriteFile(p) \/ FileFails(p) \/ Clean(p)
  PROVE  NamesInv'
  <1>1. Typed /\ UNCHANGED <<pid, usedPids, counter, starts, refused>>
    BY DEF IInv, MakeDirectory, CopyFile, WriteFile, FileFails, Clean, process
  <1>2. Directory(p) \notin Destinations
    BY <1>1, OwnDirectory
  <1>3. \E new : disk' = [disk EXCEPT ![Directory(p)] = new]
    BY DEF MakeDirectory, CopyFile, WriteFile, FileFails, Clean, Put, Emptied
  <1>4. \A d \in Offloads : disk'[d] = disk[d]
    BY <1>1, <1>2, <1>3, OffloadsAreDestinations DEF Typed
  <1>5. CASE Clean(p)
    <2>1. save' = [save EXCEPT ![p] = Idle]
      BY <1>5 DEF Clean
    <2>2. save'[p] \notin Saving /\ \A q \in Processes \ {p} : save'[q] = save[q]
      BY <1>1, <2>1 DEF Typed, Saving, Idle
    <2> QED BY <1>1, <1>4, <2>2, NamesFrame
  <1>6. CASE ~ Clean(p)
    <2>1. save[p].pc \notin {"idle", "dead"}
      BY <1>6 DEF MakeDirectory, CopyFile, WriteFile, FileFails
    <2>2. save[p] \in Saving
      BY <1>1, <2>1 DEF Typed, Idle, Dead
    <2>3. save'[p].to = save[p].to /\ \A q \in Processes \ {p} : save'[q] = save[q]
      <3>1. CASE MakeDirectory(p)
        BY <1>1, <2>2, <3>1 DEF MakeDirectory, Typed, Saving
      <3>2. CASE CopyFile(p)
        <4>1. \E left, pc : save' = [save EXCEPT ![p].left = left, ![p].pc = pc]
          BY <3>2 DEF CopyFile
        <4> QED BY <1>1, <2>2, <4>1 DEF Typed, Saving
      <3>3. CASE WriteFile(p)
        <4>1. PICK f \in save[p].left :
                save' = [save EXCEPT ![p].left = @ \ {f},
                                     ![p].pc = IF f = "manifest" THEN "rename" ELSE @]
          BY <3>3 DEF WriteFile
        <4> QED BY <1>1, <2>2, <4>1 DEF Typed, Saving
      <3>4. CASE FileFails(p)
        BY <1>1, <2>2, <3>4 DEF FileFails, Typed, Saving
      <3> QED BY <1>6, <3>1, <3>2, <3>3, <3>4
    <2> QED BY <1>1, <1>4, <2>2, <2>3, NamesFrame
  <1> QED BY <1>5, <1>6

LEMMA NamesStep ==
  ASSUME IInv, NamesInv, [Next]_vars, ~ PidsReturn
  PROVE  NamesInv'
  <1>1. Typed
    BY DEF IInv
  <1>2. ASSUME NEW p \in Processes, NEW d \in Paths, NEW given \in Given,
               (\E g \in Graphs : Save(p, d, g, given)) \/ SaveStore(p, d, given)
        PROVE  NamesInv'
    <2>1. UNCHANGED <<disk, pid, usedPids, counter, refused>>
      BY <1>2 DEF Save, SaveStore, process
    <2>2. d \notin Offloads
      BY StoreAssumption
    <2>3. save'[p] \in Saving => save'[p].to = d
      BY <1>1, <1>2 DEF Save, SaveStore, Begin, Typed, Saving, Idle
    <2>4. \A q \in Processes \ {p} : save'[q] = save[q]
      BY <1>1, <1>2 DEF Save, SaveStore, Begin, Typed
    <2> QED BY <2>1, <2>2, <2>3, <2>4, NamesFrame
  <1>3. ASSUME NEW p \in Processes, NEW g \in Graphs, Offload(p, g)
        PROVE  NamesInv'
    <2>1. /\ counter' = [counter EXCEPT ![p] = @ + 1] /\ counter[p] < MaxOffloads
          /\ UNCHANGED <<disk, pid, usedPids>>
          /\ refused' = (refused \/ disk[Name(p)] # None)
      BY <1>3 DEF Offload
    <2>2. /\ Name(p) \in Offloads /\ Name(p)[1] = pid[p] /\ Name(p)[2] = counter[p]
          /\ \A q \in Processes : counter[q] \in Nat
      BY <1>1, <2>1, StoreAssumption DEF Name, Offloads, Typed
    <2>3. disk[Name(p)] = None
      BY <2>2 DEF NamesInv
    <2>4. /\ counter'[p] = counter[p] + 1
          /\ \A q \in Processes \ {p} : counter'[q] = counter[q]
      BY <1>1, <2>1 DEF Typed
    <2>5. save'[p] \in Saving => save'[p].to = Name(p)
      BY <1>1, <1>3 DEF Offload, Begin, Typed, Saving, Idle
    <2>6. \A q \in Processes \ {p} : save'[q] = save[q]
      BY <1>1, <1>3 DEF Offload, Begin, Typed
    <2>7. ASSUME NEW q \in Processes
          PROVE  /\ pid'[q] \in usedPids'
                 /\ save'[q] \in Saving /\ save'[q].to \in Offloads =>
                      save'[q].to[1] = pid'[q] /\ save'[q].to[2] < counter'[q]
      <3>1. CASE q = p
        BY <2>1, <2>2, <2>4, <2>5, <3>1 DEF NamesInv
      <3>2. CASE q # p
        BY <2>1, <2>4, <2>6, <3>2 DEF NamesInv
      <3> QED BY <3>1, <3>2
    <2>8. ASSUME NEW d \in Offloads, disk'[d] # None
          PROVE  d[1] \in usedPids' /\ \A q \in Processes : d[1] = pid'[q] => d[2] < counter'[q]
      <3>1. d[1] \in usedPids /\ \A q \in Processes : d[1] = pid[q] => d[2] < counter[q]
        BY <2>1, <2>8 DEF NamesInv
      <3>2. d[2] \in Nat
        BY DEF Offloads
      <3> QED BY <2>1, <2>2, <2>4, <3>1, <3>2
    <2> QED BY <2>1, <2>3, <2>7, <2>8 DEF NamesInv
  <1>4. ASSUME NEW p \in Processes,
               \/ MakeDirectory(p) \/ CopyFile(p) \/ WriteFile(p) \/ FileFails(p) \/ Clean(p)
        PROVE  NamesInv'
    BY <1>4, NamesGoOn
  <1>5. ASSUME NEW p \in Processes, Rename(p)
        PROVE  NamesInv'
    <2>1. /\ UNCHANGED <<pid, usedPids, counter, refused, starts>>
          /\ save[p] \in Saving /\ save[p].to \in Destinations
      BY <1>1, <1>5 DEF Rename, process, Typed, Idle, Dead, Saving
    <2>2. /\ save'[p].to = save[p].to
          /\ \A q \in Processes \ {p} : save'[q] = save[q]
      BY <1>1, <1>5, <2>1 DEF Rename, Typed, Saving
    <2>3. Directory(p) \notin Destinations
      BY <1>1, <2>1, OwnDirectory
    <2>4. \A d \in Offloads : d # save[p].to => disk'[d] = disk[d]
      BY <1>1, <1>5, <2>3, OffloadsAreDestinations DEF Rename, Typed
    <2>5. ASSUME NEW d \in Offloads, disk'[d] # None
          PROVE  d[1] \in usedPids /\ \A q \in Processes : d[1] = pid[q] => d[2] < counter[q]
      BY <2>1, <2>4, <2>5 DEF NamesInv
    <2> QED BY <2>1, <2>2, <2>5 DEF NamesInv
  <1>6. ASSUME NEW p \in Processes,
               OpenSaved(p) \/ (\E d \in Destinations : Load(p, d)) \/ Crash(p)
        PROVE  NamesInv'
    <2>1. /\ UNCHANGED <<disk, pid, usedPids, counter, refused>>
          /\ save' = save \/ save' = [save EXCEPT ![p] = Idle] \/ save' = [save EXCEPT ![p] = Dead]
      BY <1>6 DEF OpenSaved, Load, Crash, process
    <2>2. \A q \in Processes : save'[q] = save[q] \/ save'[q] \in {Idle, Dead}
      BY <1>1, <2>1 DEF Typed
    <2>3. Idle \notin Saving /\ Dead \notin Saving
      BY DEF Idle, Dead, Saving
    <2> QED BY <2>1, <2>2, <2>3, NamesFrame
  <1>7. ASSUME NEW p \in Processes, Restart(p)
        PROVE  NamesInv'
    <2>1. PICK i \in Pids \ usedPids :
            pid' = [pid EXCEPT ![p] = i] /\ usedPids' = usedPids \cup {i}
      BY <1>7 DEF Restart
    <2>2. /\ save' = [save EXCEPT ![p] = Idle] /\ counter' = [counter EXCEPT ![p] = 0]
          /\ UNCHANGED <<disk, refused>>
      BY <1>7 DEF Restart
    <2>3. /\ pid'[p] = i /\ save'[p] = Idle /\ Idle \notin Saving
          /\ \A q \in Processes \ {p} :
               pid'[q] = pid[q] /\ counter'[q] = counter[q] /\ save'[q] = save[q]
      BY <1>1, <2>1, <2>2 DEF Typed, Saving, Idle
    <2>4. \A q, r \in Processes : q # r => pid'[q] # pid'[r]
      BY <2>1, <2>3 DEF NamesInv
    <2>5. ASSUME NEW q \in Processes
          PROVE  /\ pid'[q] \in usedPids'
                 /\ save'[q] \in Saving /\ save'[q].to \in Offloads =>
                      save'[q].to[1] = pid'[q] /\ save'[q].to[2] < counter'[q]
      BY <2>1, <2>3 DEF NamesInv
    <2>6. ASSUME NEW d \in Offloads, disk'[d] # None
          PROVE  d[1] \in usedPids' /\ \A q \in Processes : d[1] = pid'[q] => d[2] < counter'[q]
      BY <2>1, <2>2, <2>3, <2>6 DEF NamesInv
    <2> QED BY <2>2, <2>4, <2>5, <2>6 DEF NamesInv
  <1>8. CASE UNCHANGED vars
    BY <1>8, NamesFrame DEF vars
  <1> QED BY <1>2, <1>3, <1>4, <1>5, <1>6, <1>7, <1>8 DEF Next

\* As long as no process gets the id of one that is gone, the name of an
\* offload is free.
THEOREM OffloadsAlwaysFree ==
  ASSUME ~ PidsReturn
  PROVE  Spec => []OffloadsFree
  <1>1. Init => NamesInv
    BY OffloadsAreDestinations DEF Init, NamesInv, Saving, Idle
  <1>2. IInv /\ NamesInv /\ [Next]_vars => NamesInv'
    BY NamesStep
  <1>3. NamesInv => OffloadsFree
    BY DEF NamesInv, OffloadsFree
  <1> QED BY <1>1, <1>2, <1>3, InitInv, Inductive, PTL DEF Spec
=============================================================================
