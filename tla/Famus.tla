------------------------------- MODULE Famus -------------------------------
(***************************************************************************)
(* famus_snap_sync: failure-atomic msync by file clones.  The              *)
(* microbenchmark (microbenchmarks_famus/famus.cc) alternates between two  *)
(* snapshot files; simplekv_famus has one.  A snapshot file is complete    *)
(* when its permission is read-only; data and permission reach the disk    *)
(* separately, at an fsync or at any time before it.                       *)
(***************************************************************************)
EXTENDS Integers

CONSTANTS MaxSyncs      \* bound: calls of famus_snap_sync

ASSUME FamusAssumption == MaxSyncs \in Nat \ {0}

Torn == -1
None == 0

VARIABLES
  variant,      \* "micro" (two files) or "kv" (one)
  fpc,          \* where the call is; "dead" after a failed call
  fd_switch,    \* 0 or 1
  version,      \* version of the data in the mapped file
  snap,         \* snapshot file -> version it was cloned from, None if new
  disk,         \* snapshot file -> version of it on disk, or Torn
  ro, disk_ro,  \* snapshot file -> read-only, and on disk
  rounds,       \* snapshot file -> calls that used it
  syncs         \* calls that have returned

fmvars == <<variant, fpc, fd_switch, version, snap, disk, ro, disk_ro, rounds, syncs>>

SnapFiles == {0, 1}

FmInit ==
  /\ variant = "micro" /\ fpc = "app" /\ fd_switch = 0 /\ version = 1
  /\ snap = [f \in SnapFiles |-> None] /\ disk = snap
  /\ ro = [f \in SnapFiles |-> FALSE] /\ disk_ro = ro
  /\ rounds = [f \in SnapFiles |-> 0] /\ syncs = 0

ChooseKv ==
  /\ syncs = 0 /\ fpc = "app" /\ variant' = "kv"
  /\ UNCHANGED <<fpc, fd_switch, version, snap, disk, ro, disk_ro, rounds, syncs>>

\* the file the call works on: fd_switch ? snap_fd0 : snap_fd1
snap_fd == IF variant = "kv" \/ fd_switch = 1 THEN 0 ELSE 1

\* fsync of the snapshot file: its data and its permission
Fsync(to) ==
  /\ disk' = [disk EXCEPT ![snap_fd] = snap[snap_fd]]
  /\ disk_ro' = [disk_ro EXCEPT ![snap_fd] = ro[snap_fd]]
  /\ fpc' = to

\* the call starts: msync of the mapped file and, with two files, an fsync
SyncBacking ==
  /\ fpc = "app" /\ syncs < MaxSyncs
  /\ IF variant = "micro" THEN Fsync("clone")
     ELSE fpc' = "clone" /\ UNCHANGED <<disk, disk_ro>>
  /\ rounds' = [rounds EXCEPT ![snap_fd] = @ + 1]
  /\ UNCHANGED <<variant, fd_switch, version, snap, ro, syncs>>

\* ioctl(FICLONE): until the next fsync the disk may have any part of it
Clone ==
  /\ fpc = "clone" /\ fpc' = "fsync1"
  /\ snap' = [snap EXCEPT ![snap_fd] = version]
  /\ UNCHANGED <<variant, fd_switch, version, disk, ro, disk_ro, rounds, syncs>>

\* mutant: the data are not synchronised before the permission is changed
FsyncData_Skip ==
  /\ fpc = "fsync1" /\ fpc' = "chmod"
  /\ UNCHANGED <<variant, fd_switch, version, snap, disk, ro, disk_ro, rounds, syncs>>
FsyncData ==
  /\ fpc = "fsync1" /\ Fsync("chmod")
  /\ UNCHANGED <<variant, fd_switch, version, snap, ro, rounds, syncs>>

Fchmod ==
  /\ fpc = "chmod" /\ fpc' = "fsync2"
  /\ ro' = [ro EXCEPT ![snap_fd] = TRUE]
  /\ UNCHANGED <<variant, fd_switch, version, snap, disk, disk_ro, rounds, syncs>>

\* the second fsync ends the call; the program goes on to a new version
FsyncPerm ==
  /\ fpc = "fsync2" /\ Fsync("app")
  /\ syncs' = syncs + 1
  /\ fd_switch' = IF variant = "micro" THEN 1 - fd_switch ELSE fd_switch
  /\ version' = version + 1
  /\ UNCHANGED <<variant, snap, ro, rounds>>

\* a system call fails: fatal_if ends the program
Fatal ==
  /\ fpc \notin {"dead", "failed"} /\ fpc' = "dead"
  /\ UNCHANGED <<variant, fd_switch, version, snap, disk, ro, disk_ro, rounds, syncs>>

\* the machine fails: what was not synchronised is old, new or, for data, torn
Fail(f, d, p) ==
  /\ fpc \notin {"failed"} /\ fpc' = "failed"
  /\ d \in IF disk[f] = snap[f] THEN {disk[f]} ELSE {disk[f], snap[f], Torn}
  /\ p \in {ro[f], disk_ro[f]}
  /\ disk' = [disk EXCEPT ![f] = d]
  /\ disk_ro' = [disk_ro EXCEPT ![f] = p]
  /\ UNCHANGED <<variant, fd_switch, version, snap, ro, rounds, syncs>>

FmNext ==
  \/ ChooseKv \/ SyncBacking \/ Clone \/ FsyncData \/ Fchmod \/ FsyncPerm \/ Fatal
  \/ \E d \in {Torn} \cup 0..(MaxSyncs + 1), p \in BOOLEAN : Fail(snap_fd, d, p)

FmSpec == FmInit /\ [][FmNext]_fmvars

-----------------------------------------------------------------------------
(* Properties.                                                             *)

\* "We must fsync() backing file twice to ensure that snapshot data are durable
\* before success indicator (file permission) becomes durable": a snapshot file
\* that is read-only on disk is whole there, wherever the machine failed.  It
\* is so the first time a file is used only: later calls find it read-only.
\* What holds for good is that, once a call has returned, the version it saved
\* or a later one is whole on disk in one of the two files: a call never works
\* on the file of the call before it.
SnapshotsSafe ==
  /\ \A f \in SnapFiles : disk_ro[f] /\ rounds[f] <= 1 => disk[f] \notin {Torn, None}
  /\ (variant = "micro" /\ syncs > 0) => \E f \in SnapFiles : disk_ro[f] /\ disk[f] >= syncs
=============================================================================
