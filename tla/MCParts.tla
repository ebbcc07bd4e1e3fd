------------------------------- MODULE MCParts -------------------------------
(* The parts around one thread's snapshots, which do not interact, side by   *)
(* side: a behaviour is about the one its first state chooses, and the       *)
(* others stay as they start.                                                *)
EXTENDS MCUntracked, Threads, BackingFile, AlignedWalk, FileTable, NumaBinder, PmdkTx,
        BTree, MCKv, LinkedList, Famus, StorePass

VARIABLE part

(* AlignedWalk: destinations around a page boundary, and both sides of all *)
(* the powers of two involved.                                             *)
MCSizes == 1..40 \cup {63, 64, 65, 127, 128, 129, 255, 256, 257, 511, 512, 513,
                       767, 768, 769, 1000, 1024, 1025}

(* Vram: no device; one without a graphics queue; one without the extension *)
(* before a suitable one.                                                   *)
Gpu(f, x, t) == [families |-> f, swapchain |-> x, types |-> t]
MCHosts ==
  {<<>>,
   <<Gpu(<<FALSE>>, TRUE, <<TRUE>>)>>,
   <<Gpu(<<TRUE>>, FALSE, <<TRUE>>), Gpu(<<FALSE, TRUE, TRUE>>, TRUE, <<FALSE, TRUE>>)>>}

(* NumaBinder: three CPUs on two nodes, the one of node 1 offline. *)
MCNodeOf == [c \in 0..2 |-> c \div 2]

(* BTree: the order of the code.  An empty map, and trees of two and three  *)
(* levels filled in ascending, descending and mixed order, or with many     *)
(* keys 0.                                                                   *)
MCKeys == 0..40
Up(n) == [i \in 1..n |-> i]
Down(n) == [i \in 1..n |-> n + 1 - i]
MCSeqs == {<<>>, Up(36), Down(36) \o <<0>>, [i \in 1..36 |-> (i * 7) % 37],
           [i \in 1..9 |-> 0] \o <<4, 5, 0>>}

(* StorePass: an alloca, a cast of it, a pointer into the heap, and one that *)
(* may be either.                                                            *)
MCPointsTo == [p \in {"x", "y", "castx", "h", "phi"} |->
                 CASE p \in {"x", "castx"} -> {"X"} [] p = "y" -> {"Y"}
                   [] p = "h" -> {"H"} [] OTHER -> {"X", "H"}]

core == <<uvars, thvars, bkvars, alvars>>
libs == <<ftvars, vrvars, nbvars, txvars>>
apps == <<btvars, kvvars, llvars, fmvars, spvars>>

MCInit ==
  /\ part \in {"untracked", "threads", "backing", "aligned", "files", "numa", "pmdk",
               "btree", "kv", "list", "famus", "pass"}
  /\ U!Init /\ (part = "untracked" \/ u_file = [w \in 0..2 |-> 0])
  /\ ThInit /\ BkInit /\ (part = "backing" \/ orig = <<>>)
  /\ AlInit /\ (part = "aligned" \/ entry_bytes = 1)
  /\ FtInit /\ VrInit /\ NbInit /\ TxInit
  /\ Init /\ (part = "btree" \/ script = <<>>)
  /\ KvInit /\ LlInit /\ FmInit /\ SpInit

Untracked == part = "untracked" /\ U!Next /\ UNCHANGED <<thvars, bkvars, alvars, libs, apps>>
Many    == part = "threads" /\ ThNext /\ UNCHANGED <<uvars, bkvars, alvars, libs, apps>>
Making  == part = "backing" /\ BkNext /\ UNCHANGED <<uvars, thvars, alvars, libs, apps>>
Aligned == part = "aligned" /\ AlNext /\ UNCHANGED <<uvars, thvars, bkvars, libs, apps>>
Files   == part = "files" /\ FtNext /\ UNCHANGED <<core, nbvars, txvars, apps>>
Numa    == part = "numa" /\ NbNext /\ UNCHANGED <<core, ftvars, vrvars, txvars, apps>>
Pmdk    == part = "pmdk" /\ TxNext /\ UNCHANGED <<core, ftvars, vrvars, nbvars, apps>>
MapCli  == part = "btree" /\ Next /\ UNCHANGED <<core, libs, kvvars, llvars, fmvars, spvars>>
Kv      == part = "kv" /\ KvNext /\ UNCHANGED <<core, libs, btvars, llvars, fmvars, spvars>>
List    == part = "list" /\ LlNext /\ UNCHANGED <<core, libs, btvars, kvvars, fmvars, spvars>>
Snaps   == part = "famus" /\ FmNext /\ UNCHANGED <<core, libs, btvars, kvvars, llvars, spvars>>
Pass    == part = "pass" /\ SpNext /\ UNCHANGED <<core, libs, btvars, kvvars, llvars, fmvars>>

MCNext ==
  /\ \/ Untracked \/ Many \/ Making \/ Aligned
     \/ Files \/ Numa \/ Pmdk
     \/ MapCli \/ Kv \/ List \/ Snaps \/ Pass
  /\ UNCHANGED part

MCSpec == MCInit /\ [][MCNext]_<<part, core, libs, apps>>
=============================================================================
