----------------------------- MODULE StorePass -----------------------------
(***************************************************************************)
(* The compiler pass of storeinst-pass/storeinst.cc: it puts a call of     *)
(* checkMemory before every store of a function, unless the store is to    *)
(* the function's own stack or the function is annotated.                  *)
(*                                                                         *)
(* A pointer is what it can point to at run time; the alias analysis is    *)
(* LLVM's (external): two pointers must alias when both can only be one    *)
(* same object.  Instructions are in the order of the blocks, which need   *)
(* not be the order in which they run.                                     *)
(***************************************************************************)
EXTENDS Integers, Sequences

CONSTANTS
  Objs,         \* objects of the program
  Locals,       \* those that are allocas of the function
  Ptrs,         \* pointer values
  PointsTo,     \* pointer -> the objects it can point to
  MaxInsts      \* bound: instructions of a function

ASSUME StorePassAssumption ==
  Locals \subseteq Objs /\ PointsTo \in [Ptrs -> (SUBSET Objs) \ {{}}] /\ MaxInsts \in Nat

\* the string the pass looks for; the examples write the second one
DontAutoLogStr == "CXLBUF_DONT_AUTO_LOG"
Annotations == {"none", "do_not_auto_log", DontAutoLogStr}

VARIABLES
  annotation,   \* of the function
  body,         \* its instructions
  it,           \* the instruction the pass is at, 0 before it starts
  stackValues,  \* allocas it has come across
  out           \* the instructions it leaves

spvars == <<annotation, body, it, stackValues, out>>

SpInit ==
  /\ annotation = "none" /\ body = <<>> /\ it = 0 /\ stackValues = {} /\ out = <<>>

\* the front end: allocas, stores, and memory intrinsics and atomics, which are
\* no store instructions
Insts ==
  [op : {"alloca"}, ptr : {p \in Ptrs : \E o \in Locals : PointsTo[p] = {o}}] \cup
  [op : {"store", "other"}, ptr : Ptrs]

Emit_(i) ==
  /\ it = 0 /\ Len(body) < MaxInsts
  /\ i.op = "alloca" => \A k \in DOMAIN body : body[k] # i
  /\ body' = Append(body, i)
  /\ UNCHANGED <<annotation, it, stackValues, out>>

\* run: empty functions and the annotated ones are passed over
HelloWorld_run(a) ==
  /\ it = 0 /\ body # <<>>
  /\ annotation' = a
  /\ IF a = DontAutoLogStr THEN out' = body /\ it' = Len(body) + 1
     ELSE out' = <<>> /\ it' = 1
  /\ UNCHANGED <<body, stackValues>>

MustAlias(p, q) == PointsTo[p] = PointsTo[q] /\ \E o \in Objs : PointsTo[p] = {o}

\* mutant: a pointer that may alias is taken to be on the stack
writesToStackLocation_May(p) ==
  \E s \in stackValues : s = p \/ PointsTo[s] \cap PointsTo[p] # {}
writesToStackLocation(p) == \E s \in stackValues : s = p \/ MustAlias(s, p)

analyseFunc ==
  /\ it \in DOMAIN body
  /\ LET i == body[it]
         check == [op |-> "checkMemory", ptr |-> i.ptr]
     IN  /\ out' = IF i.op = "store" /\ ~ writesToStackLocation(i.ptr)
                   THEN out \o <<check, i>> ELSE Append(out, i)
         /\ stackValues' = IF i.op = "alloca" THEN stackValues \cup {i.ptr} ELSE stackValues
  /\ it' = it + 1
  /\ UNCHANGED <<annotation, body>>

SpNext ==
  \/ \E i \in Insts : Emit_(i)
  \/ \E a \in Annotations : HelloWorld_run(a)
  \/ analyseFunc

SpSpec == SpInit /\ [][SpNext]_spvars

-----------------------------------------------------------------------------
(* Properties.                                                             *)

\* A store that can reach memory outside the function's stack has its
\* checkMemory call, on the same pointer, right before it, in every function
\* that does not carry DontAutoLogStr: what writesToStackLocation skips is
\* never a store to persistent memory, in whatever order the blocks are laid
\* out.
StoresChecked ==
  (it > 0 /\ annotation # DontAutoLogStr) =>
    \A k \in DOMAIN out :
      out[k].op = "store" /\ ~ (PointsTo[out[k].ptr] \subseteq Locals) =>
        /\ k > 1
        /\ out[k - 1].op = "checkMemory" /\ out[k - 1].ptr = out[k].ptr
=============================================================================
