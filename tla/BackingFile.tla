---------------------------- MODULE BackingFile ----------------------------
(***************************************************************************)
(* PmemFile::create_backing_file page by page: the first open of a file    *)
(* copies it to its backing file, every later one copies the backing file  *)
(* back, and the process may be killed anywhere in between.  Snapshot has  *)
(* the same functions as one step each.                                    *)
(*                                                                         *)
(* A page is the number of the snapshot that wrote it, 0 at first.  The    *)
(* store of map_backing_file to the first byte spoils page 1, so the       *)
(* properties speak of the pages after it.                                 *)
(***************************************************************************)
EXTENDS Integers, Sequences

CONSTANTS
  MapPages,     \* pages of the mapping
  MaxOpens,     \* bound: calls of mmap
  MaxCommits    \* bound: snapshots

ASSUME BackingAssumption == MapPages \in Nat \ {0} /\ MaxOpens \in Nat /\ MaxCommits \in Nat

VARIABLES
  orig,         \* the file
  bkup,         \* the backing file, or Absent
  view,         \* the private mapping of the file
  bpc,          \* where mmap is; "run" when it has returned, "closed" without a process
  sent,         \* pages that sendfile has copied
  firstCopy,    \* firstSnapshot
  opens, commits,
  committed,    \* history: page -> the last snapshot that wrote it
  cut,          \* history: a process died while it made the backing file
  short,        \* history: a sendfile copied less than it was asked for
  thin          \* history: the backing file was copied from a file shorter than the mapping

bkvars == <<orig, bkup, view, bpc, sent, firstCopy, opens, commits, committed, cut, short, thin>>

Absent == <<-2>>
Zeros(n) == [p \in 1..n |-> 0]
Spoilt == -1

\* a new file, one shorter than the mapping, as long or longer
BkInit ==
  /\ orig \in {Zeros(n) : n \in 0..(MapPages + 1)}
  /\ bkup = Absent /\ view = <<>> /\ bpc = "closed" /\ sent = 0 /\ firstCopy = TRUE
  /\ opens = 0 /\ commits = 0 /\ committed = Zeros(MapPages)
  /\ cut = FALSE /\ short = FALSE /\ thin = FALSE

\* mutant: a backing file that exists is left alone
create_backing_file_Skip ==
  /\ bpc = "closed" /\ opens < MaxOpens /\ opens' = opens + 1
  /\ bpc' = IF bkup = Absent THEN (IF orig = <<>> THEN "allocate" ELSE "copy") ELSE "map"
  /\ sent' = 0 /\ firstCopy' = TRUE
  /\ UNCHANGED <<orig, bkup, view, commits, committed, cut, short, thin>>
\* whether the backing file exists, and whether the file has contents, decide
create_backing_file ==
  /\ bpc = "closed" /\ opens < MaxOpens /\ opens' = opens + 1
  /\ bpc' = IF bkup = Absent THEN (IF orig = <<>> THEN "allocate" ELSE "copy") ELSE "send"
  /\ sent' = 0 /\ firstCopy' = TRUE
  /\ UNCHANGED <<orig, bkup, view, commits, committed, cut, short, thin>>

\* mutant: the last byte is written a page early
AllocateBacking_Short ==
  /\ bpc = "allocate"
  /\ bkup' = IF bkup = Absent THEN <<>> ELSE Zeros(MapPages - 1)
  /\ bpc' = IF bkup = Absent THEN bpc ELSE "map"
  /\ UNCHANGED <<orig, view, sent, firstCopy, opens, commits, committed, cut, short, thin>>
\* an empty file: the backing file is made, then sized by a byte past its end
AllocateBacking ==
  /\ bpc = "allocate"
  /\ bkup' = IF bkup = Absent THEN <<>> ELSE Zeros(MapPages)
  /\ bpc' = IF bkup = Absent THEN bpc ELSE "map"
  /\ UNCHANGED <<orig, view, sent, firstCopy, opens, commits, committed, cut, short, thin>>

\* fs::copy_file
CopyFile ==
  /\ bpc = "copy"
  /\ thin' = (Len(orig) < MapPages)
  /\ IF bkup = Absent THEN bkup' = <<>> /\ UNCHANGED bpc
     ELSE IF Len(bkup) < Len(orig)
     THEN bkup' = Append(bkup, orig[Len(bkup) + 1]) /\ UNCHANGED bpc
     ELSE bpc' = "map" /\ UNCHANGED bkup
  /\ UNCHANGED <<orig, view, sent, firstCopy, opens, commits, committed, cut, short>>

\* sendfile from the backing file to the file, which it may lengthen; what it
\* returns is compared with -1 only
SendFile ==
  /\ bpc = "send"
  /\ \/ /\ sent < MapPages /\ sent < Len(bkup)
        /\ orig' = [p \in 1..(IF Len(orig) > sent THEN Len(orig) ELSE sent + 1) |->
                      IF p = sent + 1 THEN bkup[p] ELSE orig[p]]
        /\ sent' = sent + 1 /\ UNCHANGED <<bpc, short>>
     \/ /\ bpc' = "map"
        /\ short' = (short \/ (sent < MapPages /\ sent < Len(bkup)))
        /\ UNCHANGED <<orig, sent>>
  /\ UNCHANGED <<bkup, view, firstCopy, opens, commits, committed, cut, thin>>

\* the store that tries the mapping of the backing file out kills the process
\* if the backing file is empty; then the file is mapped privately
map_backing_file ==
  /\ bpc = "map"
  /\ IF bkup = <<>> THEN bpc' = "closed" /\ UNCHANGED <<bkup, view>>
     ELSE /\ bkup' = [bkup EXCEPT ![1] = Spoilt]
          /\ view' = SubSeq(orig, 1, IF Len(orig) < MapPages THEN Len(orig) ELSE MapPages)
          /\ bpc' = "run"
  /\ UNCHANGED <<orig, sent, firstCopy, opens, commits, committed, cut, short, thin>>

\* the program sizes a file it has mapped too short
Ftruncate ==
  /\ bpc = "run" /\ Len(orig) < MapPages
  /\ orig' = orig \o Zeros(MapPages - Len(orig))
  /\ view' = view \o Zeros(MapPages - Len(view))
  /\ UNCHANGED <<bkup, bpc, sent, firstCopy, opens, commits, committed, cut, short, thin>>

\* a store to page p and a snapshot of the whole mapping; the first one of a
\* process copies as much as the file is long.  Past the end of the mapping or
\* of the backing file the process dies with what it has copied
Commit(p) ==
  /\ bpc = "run" /\ p \in DOMAIN view /\ commits < MaxCommits
  /\ commits' = commits + 1
  /\ LET new   == [view EXCEPT ![p] = commits + 1]
         taken == IF firstCopy THEN DOMAIN orig ELSE {p}
         there == DOMAIN view \cap DOMAIN bkup
     IN  /\ bkup' = [q \in DOMAIN bkup |-> IF q \in taken \cap there THEN new[q] ELSE bkup[q]]
         /\ committed' = [q \in 1..MapPages |-> IF q \in taken \cap there THEN new[q]
                                                ELSE committed[q]]
         /\ IF taken \subseteq there THEN view' = new /\ UNCHANGED bpc
            ELSE bpc' = "closed" /\ UNCHANGED view
  /\ firstCopy' = FALSE
  /\ UNCHANGED <<orig, sent, opens, cut, short, thin>>

\* exit or kill, anywhere
Killed ==
  /\ bpc # "closed" /\ bpc' = "closed"
  /\ cut' = (cut \/ (bpc \in {"allocate", "copy"} /\ bkup # Absent))
  /\ UNCHANGED <<orig, bkup, view, sent, firstCopy, opens, commits, committed, short, thin>>

BkNext ==
  \/ create_backing_file \/ AllocateBacking \/ CopyFile \/ SendFile \/ map_backing_file
  \/ Ftruncate \/ \E p \in 1..MapPages : Commit(p)
  \/ Killed

BkSpec == BkInit /\ [][BkNext]_bkvars

-----------------------------------------------------------------------------
(* Properties.                                                             *)

\* A process always starts on the pages that the last snapshots wrote, although
\* a killed process may have left the file with some pages copied back and
\* others not, or a backing file that ends early: re-creating the file starts
\* over at every open and overwrites nothing that is not in the backing file.
\* The exception is a sendfile that copied less than asked.
ReopenRestores ==
  (bpc = "run" /\ ~ short) =>
    \A p \in 2..Len(view) : view[p] = committed[p]

\* While a program runs, its backing file holds the pages that the program
\* maps, as far as it reaches; and it reaches to the end of the mapping, so that
\* no snapshot stores past its end, with two exceptions that the code makes: a
\* process was killed while it made the backing file (nothing marks it as
\* complete, and the next open takes it as it is), or it was copied from a file
\* that had contents and was shorter than the mapping, and kept that length when
\* the program lengthened the file.
BackingAgrees ==
  (bpc = "run" /\ ~ short) =>
    /\ \A p \in 2..Len(view) : p <= Len(bkup) => bkup[p] = view[p]
    /\ (~ cut /\ ~ thin) => Len(bkup) >= MapPages

\* The inductive invariant behind ReopenRestores.  A page that the backing file
\* has is there as committed; one that it lacks, or that the file lacks, was
\* never committed; and what mmap has passed is as committed in the file too.
Page == Nat \cup {Spoilt}
DataPages == 2..MapPages
BkTypeOK ==
  /\ orig \in Seq(Page) /\ bkup \in Seq(Page) \cup {Absent} /\ view \in Seq(Page)
  /\ bpc \in {"closed", "allocate", "copy", "send", "map", "run"}
  /\ sent \in Nat /\ commits \in Nat /\ committed \in [1..MapPages -> Page]
  /\ short \in BOOLEAN
Untouched ==
  /\ \A p \in 1..Len(orig) : orig[p] = 0
  /\ bkup # Absent => \A p \in 1..Len(bkup) : bkup[p] = 0
  /\ \A p \in 1..MapPages : committed[p] = 0
FirstMaking == bkup = Absent \/ bpc \in {"allocate", "copy"} => Untouched
Made ==
  /\ bpc \in {"send", "map", "run"} => bkup # Absent
  /\ bpc = "send" => sent <= Len(bkup) /\ sent <= MapPages /\ sent <= Len(orig)
  /\ bpc = "run" => Len(view) = IF Len(orig) < MapPages THEN Len(orig) ELSE MapPages
NotInFile == \A p \in DataPages : p > Len(orig) => committed[p] = 0
InBacking ==
  ~ short /\ bkup # Absent =>
    \A p \in DataPages : IF p <= Len(bkup) THEN bkup[p] = committed[p]
                         ELSE p <= Len(orig) => orig[p] = committed[p]
InFile ==
  ~ short =>
    /\ bpc = "send" => \A p \in DataPages : p <= sent => orig[p] = committed[p]
    /\ bpc = "map" => \A p \in DataPages : p <= Len(orig) => orig[p] = committed[p]
    /\ bpc = "run" => \A p \in DataPages : p <= Len(view) => view[p] = committed[p]
BkInv == BkTypeOK /\ FirstMaking /\ Made /\ NotInFile /\ InBacking /\ InFile
=============================================================================
