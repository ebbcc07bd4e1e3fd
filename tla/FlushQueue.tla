----------------------------- MODULE FlushQueue -----------------------------
(***************************************************************************)
(* The job queues of the background flusher (bgflush.cc) and of the DSA    *)
(* emulation (libdsaemu.cc): a producer and one worker thread share an     *)
(* array and two indices without synchronisation.  kind tells the two      *)
(* apart: bgflush::push fills the slot at the tail, a program of the DSA   *)
(* emulation (examples/dummy.cc) the one at the head.  The worker of both  *)
(* reads the slot at the tail and advances the head.                       *)
(***************************************************************************)
EXTENDS Integers

CONSTANTS QSIZE, MaxJobs    \* slots; bound: jobs put in (below QSIZE)

ASSUME FlushQueueAssumption == QSIZE \in Nat /\ MaxJobs \in 1..(QSIZE - 1)

VARIABLES
  kind, queue,              \* queue: slot -> job, 0 for a slot never written
  queue_head, queue_tail,
  put, mine,                \* how far the producer is, and the slot it puts into
  worker, head_read,        \* how far the worker is, and the head it has read
  ran,                      \* jobs the worker carried out, 0 for an empty slot
  jobs                      \* jobs put in

fqvars == <<kind, queue, queue_head, queue_tail, put, mine, worker, head_read, ran, jobs>>

\* the constructor, and launch() after clear()
FqInit ==
  /\ kind = "bgflush" /\ queue = [i \in 0..(QSIZE - 1) |-> 0]
  /\ queue_head = 0 /\ queue_tail = 0
  /\ put = "idle" /\ mine = 0 /\ worker = "poll" /\ head_read = 0
  /\ ran = {} /\ jobs = 0

ChooseDsa ==
  /\ jobs = 0 /\ put = "idle" /\ kind' = "dsa"
  /\ UNCHANGED <<queue, queue_head, queue_tail, put, mine, worker, head_read, ran, jobs>>

Fill(slot) ==
  /\ queue' = [queue EXCEPT ![slot] = jobs + 1]
  /\ jobs' = jobs + 1

\* push(): the slot, then the index
push ==
  /\ kind = "bgflush"
  /\ \/ put = "idle" /\ jobs < MaxJobs /\ Fill(queue_tail) /\ put' = "filled"
        /\ UNCHANGED queue_tail
     \/ put = "filled" /\ put' = "idle" /\ queue_tail' = queue_tail + 1
        /\ UNCHANGED <<queue, jobs>>
  /\ UNCHANGED <<kind, queue_head, mine, worker, head_read, ran>>

\* a program of the DSA emulation, queue[queue_head++] = job: it reads the
\* head, which the worker counts up as well, writes it back plus one, and
\* fills the slot last.  It stops at the end of the array.
submit ==
  /\ kind = "dsa"
  /\ \/ put = "idle" /\ jobs < MaxJobs /\ queue_head < QSIZE
        /\ mine' = queue_head /\ put' = "read"
        /\ UNCHANGED <<queue, queue_head, jobs>>
     \/ put = "read" /\ queue_head' = mine + 1 /\ put' = "counted"
        /\ UNCHANGED <<queue, mine, jobs>>
     \/ put = "counted" /\ Fill(mine) /\ put' = "idle" /\ UNCHANGED <<queue_head, mine>>
  /\ UNCHANGED <<kind, queue_tail, worker, head_read, ran>>

\* flush (and copy, for the DSA emulation) what the slot at the tail says now
TakeJob ==
  /\ worker = "poll" /\ queue_head # queue_tail /\ queue_tail < QSIZE
  /\ ran' = ran \cup {queue[queue_tail]} /\ worker' = "took"
  /\ UNCHANGED <<kind, queue, queue_head, queue_tail, put, mine, head_read, jobs>>

\* mutant: the head stays
CountJob_NoAdvance ==
  /\ worker = "took" /\ worker' = "poll"
  /\ UNCHANGED <<kind, queue, queue_head, queue_tail, put, mine, head_read, ran, jobs>>
\* queue_head++, which is no atomic step; the head is capped at QSIZE, past
\* which nothing looks at it
CountJob ==
  /\ \/ worker = "took" /\ worker' = "read" /\ head_read' = queue_head /\ UNCHANGED queue_head
     \/ worker = "read" /\ worker' = "poll" /\ UNCHANGED head_read
        /\ queue_head' = IF head_read < QSIZE THEN head_read + 1 ELSE head_read
  /\ UNCHANGED <<kind, queue, queue_tail, put, mine, ran, jobs>>

Worker == TakeJob \/ CountJob
FqNext == ChooseDsa \/ push \/ submit \/ Worker

-----------------------------------------------------------------------------
(* Properties.                                                             *)
\* drain() returns: once bgflush's producer pauses, the flusher's head reaches
\* the tail, and it never passes it.  And the first job given to the DSA
\* emulation is carried out (what the assertion of dummy.cc waits for), although
\* the worker may find its slot still empty and although both sides count the
\* head up.  Which jobs the flusher carries out is not said here: it looks at
\* the slot behind the one filled last.
JobsServed ==
  /\ (kind = "bgflush" /\ queue_head # queue_tail) ~> (queue_head = queue_tail)
  /\ (kind = "dsa" /\ jobs > 0) ~> (1 \in ran)
=============================================================================
