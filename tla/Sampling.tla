------------------------------ MODULE Sampling ------------------------------
(***************************************************************************)
(* MemBWDist: the reader of the ring buffer in which the kernel puts       *)
(* records of last-level cache misses.  Positions count words of 8 bytes;  *)
(* a sample is a header, an instruction pointer and an address.  The       *)
(* kernel (external) appends records while the reader runs.                *)
(***************************************************************************)
EXTENDS Integers, Sequences

CONSTANTS
  DataWords,    \* data_size: not a multiple of a sample's size, as in the code
  MAX_SAMPLES,
  Pages         \* pages a miss may be in

ASSUME SamplingAssumption ==
  /\ DataWords \in Nat /\ DataWords >= 3
  /\ MAX_SAMPLES \in Nat /\ Pages \subseteq Nat

VARIABLES
  records,      \* what lies between data_tail and data_head
  tailpos,      \* data_tail % data_size
  reader,       \* "off", "unset" (no sample_buf), "idle", "dist" (get_dist),
                \* "samples", or "fault"
  bounds,       \* start_pg and end_pg of the get_dist in progress
  dist,         \* its result
  sample_cnt,   \* samples it has counted
  batch,        \* history: pages of the samples it took, in order
  torn,         \* history: it took a sample that crosses the end of the ring
  skipped       \* history: it dropped records it had not looked at

smvars == <<records, tailpos, reader, bounds, dist, sample_cnt, batch, torn, skipped>>

Words(r) == IF r.type = "throttle" THEN 4 ELSE 3
Used == LET sum[i \in 0..Len(records)] ==
              IF i = 0 THEN 0 ELSE sum[i - 1] + Words(records[i])
        IN  sum[Len(records)]

SmInit ==
  /\ records = <<>> /\ tailpos = 0 /\ reader = "off" /\ bounds = <<0, 0>>
  /\ dist = {} /\ sample_cnt = 0 /\ batch = <<>> /\ torn = FALSE /\ skipped = FALSE

\* perf_event_open or the mapping may fail: sample_buf stays unset then, and the
\* controller does not look at the result
start_sampling ==
  /\ reader = "off" /\ reader' \in {"idle", "unset"}
  /\ UNCHANGED <<records, tailpos, bounds, dist, sample_cnt, batch, torn, skipped>>

\* the kernel does not overwrite what was not read
Emit(r) ==
  /\ reader \notin {"off", "unset"} /\ Used + Words(r) <= DataWords
  /\ records' = Append(records, r)
  /\ UNCHANGED <<tailpos, reader, bounds, dist, sample_cnt, batch, torn, skipped>>

BeginCall(call, s, e) ==
  /\ reader = "idle" /\ reader' = call /\ bounds' = <<s, e>>
  /\ dist' = {} /\ sample_cnt' = 0 /\ batch' = <<>> /\ torn' = FALSE /\ skipped' = FALSE
  /\ UNCHANGED <<records, tailpos>>

\* get_dist or get_samples through the unset sample_buf
CallUnset ==
  /\ reader = "unset" /\ reader' = "fault"
  /\ UNCHANGED <<records, tailpos, bounds, dist, sample_cnt, batch, torn, skipped>>

\* the header is one word; the address is two words further, past the mapping
\* when the sample crosses the end of the ring: any page may be read there
Crosses == tailpos + 2 >= DataWords
PageRead == IF Crosses THEN Pages ELSE {records[1].page}

AdvanceTail == records' = Tail(records) /\ tailpos' = (tailpos + Words(records[1])) % DataWords

\* mutant: no limit on the samples of one call
GetDist_NoLimit(p) ==
  /\ reader = "dist" /\ records # <<>> /\ records[1].type = "sample" /\ p \in PageRead
  /\ dist' = IF bounds[1] <= p /\ p < bounds[2] THEN dist \cup {p - bounds[1]} ELSE dist
  /\ sample_cnt' = (sample_cnt + 1) % (MAX_SAMPLES + 1)
  /\ batch' = <<>> /\ torn' = TRUE
  /\ AdvanceTail /\ UNCHANGED <<reader, bounds, skipped>>
\* mutant: the last page is taken for the end of the range
GetDist_Closed(p) ==
  /\ reader = "dist" /\ records # <<>> /\ records[1].type = "sample" /\ p \in PageRead
  /\ dist' = IF bounds[1] <= p /\ p <= bounds[2] THEN dist \cup {p - bounds[1]} ELSE dist
  /\ sample_cnt' = sample_cnt + 1
  /\ sample_cnt < MAX_SAMPLES
  /\ batch' = Append(batch, p) /\ torn' = (torn \/ Crosses)
  /\ AdvanceTail /\ UNCHANGED <<reader, bounds, skipped>>
\* one sample in the loop of get_dist; past the limit the rest is dropped,
\* whatever has been added to it by then
GetDist(p) ==
  /\ reader = "dist" /\ records # <<>> /\ records[1].type = "sample" /\ p \in PageRead
  /\ dist' = IF bounds[1] <= p /\ p < bounds[2] THEN dist \cup {p - bounds[1]} ELSE dist
  /\ sample_cnt' = sample_cnt + 1
  /\ batch' = Append(batch, p) /\ torn' = (torn \/ Crosses)
  /\ IF sample_cnt' > MAX_SAMPLES
     THEN /\ records' = <<>> /\ tailpos' = (tailpos + Used) % DataWords
          /\ reader' = "idle" /\ skipped' = (Len(records) > 1)
     ELSE AdvanceTail /\ UNCHANGED <<reader, skipped>>
  /\ UNCHANGED bounds

\* one sample in the loop of get_samples, which has no limit
GetSamples(p) ==
  /\ reader = "samples" /\ records # <<>> /\ records[1].type = "sample" /\ p \in PageRead
  /\ AdvanceTail
  /\ UNCHANGED <<reader, bounds, dist, sample_cnt, batch, torn, skipped>>

\* the read past the mapping may also fault
Fault ==
  /\ reader \in {"dist", "samples"} /\ records # <<>>
  /\ records[1].type = "sample" /\ Crosses
  /\ reader' = "fault"
  /\ UNCHANGED <<records, tailpos, bounds, dist, sample_cnt, batch, torn, skipped>>

\* tail = head: the call returns
Return ==
  /\ reader \in {"dist", "samples"} /\ records = <<>>
  /\ reader' = "idle"
  /\ UNCHANGED <<records, tailpos, bounds, dist, sample_cnt, batch, torn, skipped>>

Reader == Return \/ Fault \/ \E p \in Pages : GetDist(p) \/ GetSamples(p)

SmNext ==
  \/ start_sampling \/ CallUnset \/ Reader
  \/ \E type \in {"sample", "throttle"}, p \in Pages : Emit([type |-> type, page |-> p])
  \/ \E s, e \in Pages : s <= e /\ BeginCall("dist", s, e)
  \/ BeginCall("samples", 0, 0)

SmSpec == SmInit /\ [][SmNext]_smvars

-----------------------------------------------------------------------------
(* Properties.                                                             *)

Ref(b, s, e) == {b[i] - s : i \in {j \in DOMAIN b : s <= b[j] /\ b[j] < e}}

\* What get_dist returns is exactly the pages of its range among the samples it
\* took, as offsets from the range's start, for any position of the ring at the
\* start of the call and whatever the kernel adds meanwhile (a sample across
\* the end of the ring excepted); records are dropped unread only when the call
\* took one sample more than MAX_SAMPLES.
DistExact ==
  /\ ~ torn => dist = Ref(batch, bounds[1], bounds[2])
  /\ skipped => Len(batch) = MAX_SAMPLES + 1

\* get_dist returns even if the kernel adds samples as fast as they are read:
\* MAX_SAMPLES bounds the loop.  The exceptions are a record that is not a
\* sample, which the loop never steps over, and a fault.
DistReturns ==
  (reader = "dist") ~> \/ reader \in {"idle", "fault"}
                       \/ records # <<>> /\ records[1].type # "sample"
=============================================================================
