------------------------------ MODULE Explorer ------------------------------
(***************************************************************************)
(* The Memory Explorer's snapshots: a refresh captures several files of a  *)
(* store that other tools go on replacing, and publishes a generation of   *)
(* its own only when none of them drifted; previews run against the        *)
(* generation that the page shows.  Requests are served by threads under    *)
(* one lock.                                                               *)
(***************************************************************************)
EXTENDS Integers, Sequences, FiniteSets, SequencesExt

CONSTANTS
    Threads,     \* worker threads
    NoThread,
    CaptureOrder,      \* the files of a snapshot, in the order they are read
    MaxChanges,  \* bound: changes of the files
    MaxRequests  \* bound: refreshes and previews

ASSUME ExplorerAssumption ==
    /\ NoThread \notin Threads
    /\ CaptureOrder \in Seq(ToSet(CaptureOrder)) /\ CaptureOrder # <<>>
    /\ {MaxChanges, MaxRequests} \subseteq Nat

VARIABLES
    disk,        \* which version of each file is there; 0: missing
    sqlite,      \* whether the store was cut over to SQLite
    disks,       \* history: what the disk held, one after the other
    lock,        \* the server's lock
    serving,     \* where each thread is
    held,        \* what it holds
    snapshot,    \* the active snapshot: its generation and contents
    since,       \* history: how old the active snapshot may be
    dirs,        \* generations on disk
    page,        \* which snapshot each client was shown last
    requests

explorerVars == <<disk, sqlite, disks, lock, serving, held, snapshot, since, dirs, page, requests>>

Captured == ToSet(CaptureOrder)

Contents == [Captured -> 0..(MaxChanges + 1)]

NoneYet == [f \in Captured |-> 0]

AllThere == [f \in Captured |-> 1]

EmptyHands == [attempt |-> 0, next |-> 1, before |-> NoneYet, data |-> NoneYet,
               start |-> 1, id |-> 0]

ExplorerTypeOK ==
    /\ disk \in Contents /\ sqlite \in BOOLEAN
    /\ disks \in Seq(Contents)
    /\ lock \in Threads \cup {NoThread}
    /\ serving \in [Threads -> {"idle", "stamping", "reading", "checking", "building", "previewing"}]
    /\ snapshot \in [id : Nat, data : Contents]
    /\ since \in 1..Len(disks)
    /\ dirs \subseteq 1..(MaxRequests + 1)
    /\ page \in [Threads -> Nat] /\ requests \in 0..MaxRequests

-----------------------------------------------------------------------------
ExplorerInit ==
    /\ disk = AllThere /\ disks = <<AllThere>> /\ sqlite = FALSE
    /\ lock = NoThread
    /\ serving = [t \in Threads |-> "idle"] /\ held = [t \in Threads |-> EmptyHands]
    /\ snapshot = [id |-> 1, data |-> AllThere] /\ since = 1 /\ dirs = {1}
    /\ page = [t \in Threads |-> 1]
    /\ requests = 0

OnTheDisk == <<disk, sqlite, disks>>

Served == <<snapshot, since, dirs, page>>

(* The tools of the store replace a file or remove it, or cut the store    *)
(* over.  A replaced file is a new inode: it never has an old stamp again.  *)
Change(f) ==
    /\ Len(disks) <= MaxChanges
    /\ \E v \in {Len(disks) + 1, 0} :
          v # disk[f] /\ disk' = [disk EXCEPT ![f] = v]
    /\ disks' = Append(disks, disk')
    /\ UNCHANGED <<sqlite, lock, serving, held, Served, requests>>

CutOver ==
    /\ ~sqlite /\ sqlite' = TRUE
    /\ UNCHANGED <<disk, disks, lock, serving, held, Served, requests>>

-----------------------------------------------------------------------------
Request(t, place, hands) ==
    /\ serving[t] = "idle" /\ lock = NoThread /\ requests < MaxRequests
    /\ lock' = t
    /\ serving' = [serving EXCEPT ![t] = place]
    /\ held' = [held EXCEPT ![t] = hands]
    /\ requests' = requests + 1

Go(t, place, hands) ==
    /\ serving' = [serving EXCEPT ![t] = place]
    /\ held' = [held EXCEPT ![t] = hands]
    /\ UNCHANGED <<lock, requests>>

(* The request fails: the previous snapshot remains active. *)
Fail(t) ==
    /\ serving' = [serving EXCEPT ![t] = "idle"]
    /\ held' = [held EXCEPT ![t] = EmptyHands]
    /\ lock' = NoThread
    /\ UNCHANGED <<snapshot, since, page, requests>>

(* refresh: _capture stamps every file, reads each while its stamp holds,   *)
(* and stamps them all again; what drifted is tried once more.             *)

Refresh(t) ==
    /\ ~sqlite
    /\ Request(t, "stamping", [EmptyHands EXCEPT !.start = Len(disks)])
    /\ UNCHANGED <<OnTheDisk, Served>>

File(t) == CaptureOrder[held[t].next]

AtLast(t) == held[t].next = Len(CaptureOrder)

Following(t) == IF AtLast(t) THEN 1 ELSE held[t].next + 1

(* Slip: the second attempt is taken as it is. *)
DriftAccepted(t) ==
    IF held[t].attempt = 1
    THEN Go(t, "building", held[t]) /\ UNCHANGED Served
    ELSE Go(t, "stamping", [held[t] EXCEPT !.attempt = 1, !.next = 1]) /\ UNCHANGED Served

Drift(t) ==
    IF held[t].attempt = 1 \/ sqlite
    THEN Fail(t) /\ UNCHANGED dirs
    ELSE Go(t, "stamping", [held[t] EXCEPT !.attempt = 1, !.next = 1]) /\ UNCHANGED Served

Stamp(t) ==
    /\ serving[t] = "stamping"
    /\ LET hands == [held[t] EXCEPT !.before[File(t)] = disk[File(t)], !.next = Following(t)]
       IN  Go(t, IF AtLast(t) THEN "reading" ELSE "stamping", hands)
    /\ UNCHANGED <<OnTheDisk, Served>>

ReadOne(t) ==
    /\ serving[t] = "reading"
    /\ IF held[t].before[File(t)] \notin {0, disk[File(t)]} THEN Drift(t)
       ELSE /\ LET hands == [held[t] EXCEPT !.data[File(t)] = held[t].before[File(t)],
                                            !.next = Following(t)]
               IN  Go(t, IF AtLast(t) THEN "checking" ELSE "reading", hands)
            /\ UNCHANGED Served
    /\ UNCHANGED OnTheDisk

CheckAgain(t) ==
    /\ serving[t] = "checking"
    /\ IF sqlite /\ held[t].next = 1 THEN Fail(t) /\ UNCHANGED dirs
       ELSE IF disk[File(t)] # held[t].before[File(t)] THEN Drift(t)
       ELSE /\ Go(t, IF AtLast(t) THEN "building" ELSE "checking",
                  [held[t] EXCEPT !.next = Following(t)])
            /\ UNCHANGED Served
    /\ UNCHANGED OnTheDisk

(* A generation of the copies is made, and becomes the snapshot unless     *)
(* building it fails or the store was cut over meanwhile.                  *)

NewGeneration == requests + 1

MakeGeneration(t) ==
    /\ serving[t] = "building" /\ held[t].id = 0
    /\ dirs' = dirs \cup {NewGeneration}
    /\ Go(t, "building", [held[t] EXCEPT !.id = NewGeneration])
    /\ UNCHANGED <<OnTheDisk, snapshot, since, page>>

BuildFails(t) ==
    /\ serving[t] = "building" /\ held[t].id # 0
    /\ dirs' = dirs \ {held[t].id}
    /\ Fail(t)
    /\ UNCHANGED OnTheDisk

PublishSnapshot(t) ==
    /\ serving[t] = "building" /\ held[t].id # 0 /\ ~sqlite
    /\ snapshot' = [id |-> held[t].id, data |-> held[t].data]
    /\ since' = held[t].start
    /\ dirs' = dirs \ {snapshot.id}
    /\ page' = [page EXCEPT ![t] = held[t].id]
    /\ serving' = [serving EXCEPT ![t] = "idle"] /\ held' = [held EXCEPT ![t] = EmptyHands]
    /\ lock' = NoThread
    /\ UNCHANGED <<OnTheDisk, requests>>

-----------------------------------------------------------------------------
(* summary and records show the active snapshot. *)
Show(t) ==
    /\ serving[t] = "idle" /\ lock = NoThread
    /\ page' = [page EXCEPT ![t] = snapshot.id]
    /\ UNCHANGED <<OnTheDisk, lock, serving, held, snapshot, since, dirs, requests>>

(* preview: "Snapshot is stale" unless the page shows the active one; its  *)
(* files are copied and a worker runs on the copies.                       *)
Preview(t) ==
    /\ page[t] = snapshot.id
    /\ Request(t, "previewing", [EmptyHands EXCEPT !.id = page[t]])
    /\ UNCHANGED <<OnTheDisk, Served>>

(* It is copied, and answers, fails or times out. *)
EndPreview(t) ==
    /\ serving[t] = "previewing"
    /\ Fail(t)
    /\ UNCHANGED <<OnTheDisk, dirs>>

-----------------------------------------------------------------------------
ExplorerNext ==
    \/ \E f \in Captured : Change(f)
    \/ CutOver
    \/ \E t \in Threads :
          \/ Refresh(t) \/ Stamp(t) \/ ReadOne(t) \/ CheckAgain(t)
          \/ MakeGeneration(t) \/ BuildFails(t) \/ PublishSnapshot(t)
          \/ Show(t) \/ Preview(t) \/ EndPreview(t)

ExplorerSpec == ExplorerInit /\ [][ExplorerNext]_explorerVars

-----------------------------------------------------------------------------
ThereAt(f, k) == disks[k][f] = snapshot.data[f]

(* A file shown as missing was so before and after, though it may have been *)
(* there in between: no stamp tells one absence from another.              *)
ShownAt(f, k) ==
    IF snapshot.data[f] # 0 THEN ThereAt(f, k)
    ELSE (\E i \in since..k : ThereAt(f, i)) /\ \E i \in k..Len(disks) : ThereAt(f, i)

(* The files shown together were on disk together, at one instant of the   *)
(* refresh that captured them: facts are never shown with the revocations  *)
(* or the insights of another moment, however tools replace and remove them *)
(* between the stamps, the reads and the second stamps.  A preview runs on *)
(* the generation its page shows, which nobody deletes under it, and no    *)
(* failed or superseded generation is left behind.                         *)
SnapshotCoherent ==
    /\ \E k \in since..Len(disks) : \A f \in Captured : ShownAt(f, k)
    /\ \A t \in Threads :
          serving[t] = "previewing" => held[t].id = snapshot.id /\ held[t].id \in dirs
    /\ lock = NoThread => dirs = {snapshot.id}

=============================================================================
