---------------------------- MODULE RemoteStream ----------------------------
(***************************************************************************)
(* The queue of a remote stream source: the client thread appends the      *)
(* acquisitions it receives, the block's processBulk copies their samples, *)
(* as many as its output has room for, and publishes their triggers as     *)
(* tags.                                                                   *)
(*                                                                         *)
(* processBulk holds the queue's mutex from its first chunk to its last,   *)
(* so that nothing is received in between: one step per turn of its loop.  *)
(*                                                                         *)
(* A sample is its number in the order of reception, counted from 1, and a *)
(* trigger its number likewise; a trigger's YAML map carries the number of *)
(* the trigger it was serialised for.  The conversion of the values and    *)
(* the channel's metadata are left out.                                    *)
(***************************************************************************)
EXTENDS Naturals, Sequences, Selections

CONSTANTS
  Skips,        \* TRUE: the client may warn of skipped updates
  MaxOutput,    \* the largest output span
  MaxSamples,   \* bound on the samples received
  MaxQueue,     \* bound on the acquisitions in the queue
  MaxSize,      \* bound on the samples of an acquisition
  MaxTriggers   \* bound on the triggers of an acquisition

ASSUME StreamAssumption ==
  /\ Skips \in BOOLEAN
  /\ MaxOutput \in Nat \ {0} /\ MaxSamples \in Nat /\ MaxQueue \in Nat
  /\ MaxSize \in Nat \ {0} /\ MaxTriggers \in Nat

VARIABLES
  queue,      \* _queue->data
  bulkPc,     \* "copy" while processBulk runs
  size,       \* output.size()
  written,    \* written
  out,        \* the samples written to the output so far
  tags,       \* the tags published so far
  received,   \* how many samples were received
  sampleOf    \* per trigger received, the sample it belongs to

streamVars == <<queue, bulkPc, size, written, out, tags, received, sampleOf>>

-----------------------------------------------------------------------------
Min2(x, y) == IF x < y THEN x ELSE y

\* A queued acquisition: n samples from the given one on, of which read have
\* been written; its triggers and their YAML maps are separate vectors.
Acquisition(first, n, triggers, yaml) ==
  [first |-> first, n |-> n, read |-> 0, triggers |-> triggers, yaml |-> yaml]

StreamInit ==
  /\ queue = <<>>
  /\ bulkPc = "idle" /\ size = 0 /\ written = 0
  /\ out = <<>> /\ tags = <<>>
  /\ received = 0 /\ sampleOf = <<>>

-----------------------------------------------------------------------------
(* copyRestResponseDataIntoQueue, on the client thread.                    *)

\* The indices of the triggers of an acquisition of n samples, in time order.
TriggerIndices(n) ==
  {s \in UNION {[1..k -> 0..(n - 1)] : k \in 0..MaxTriggers} :
     \A i, j \in DOMAIN s : i < j => s[i] <= s[j]}

\* Appends n samples with triggers at the given indices; the warning of skipped
\* updates is inserted in front of all trigger vectors but the YAML maps.
Enqueue(n, indices, warning) ==
  LET known    == Len(sampleOf)
      triggers == [k \in 1..Len(indices) |->
                     [index |-> indices[k], name |-> known + k]]
      yaml     == [k \in 1..Len(indices) |-> known + k]
      skipped  == IF warning
                  THEN <<[index |-> 0, name |-> known + Len(indices) + 1]>>
                  ELSE <<>>
  IN /\ queue' = Append(queue, Acquisition(received + 1, n,
                                           skipped \o triggers, yaml))
     /\ received' = received + n
     /\ sampleOf' = sampleOf
                      \o [k \in 1..Len(indices) |-> received + 1 + indices[k]]
                      \o (IF warning THEN <<received + 1>> ELSE <<>>)
     /\ UNCHANGED <<bulkPc, size, written, out, tags>>

Receive(n, indices, warning) ==
  /\ bulkPc = "idle"
  /\ received + n <= MaxSamples
  /\ Len(queue) < MaxQueue
  /\ warning => Skips
  /\ Enqueue(n, indices, warning)

\* An error of the subscription is marked by one sample with a trigger.
Interrupt ==
  /\ bulkPc = "idle"
  /\ received < MaxSamples
  /\ Len(queue) < MaxQueue
  /\ Enqueue(1, <<0>>, FALSE)

-----------------------------------------------------------------------------
(* processBulk, on the block thread.                                       *)

ProcessBulk(n) ==
  /\ bulkPc = "idle"
  /\ queue # <<>>
  /\ bulkPc' = "copy"
  /\ size' = n
  /\ written' = 0
  /\ UNCHANGED <<queue, out, tags, received, sampleOf>>

\* The triggers are zipped with their YAML maps, as far as both go.
Zipped(d) ==
  [k \in 1..Min2(Len(d.triggers), Len(d.yaml)) |->
     [index |-> d.triggers[k].index, name |-> d.triggers[k].name,
      yaml |-> d.yaml[k]]]

\* Mutant of PublishedTags: the triggers of later samples are published as well.
TagsWithoutUpperBound(d, n) ==
  LET due    == {k \in DOMAIN Zipped(d) : Zipped(d)[k].index >= d.read}
      chosen == Selected(Zipped(d), due)
  IN [k \in DOMAIN chosen |->
        [at   |-> Len(out) + 1 + chosen[k].index - d.read,
         name |-> chosen[k].name, yaml |-> chosen[k].yaml]]

\* The tags that are published with the next n samples of d: those of earlier
\* samples have been, and those of later ones will be.
PublishedTags(d, n) ==
  LET base   == Len(out) - written
      due    == {k \in DOMAIN Zipped(d) :
                   Zipped(d)[k].index >= d.read /\ Zipped(d)[k].index - d.read < n}
      chosen == Selected(Zipped(d), due)
  IN [k \in DOMAIN chosen |->
        [at   |-> base + 1 + written + chosen[k].index - d.read,
         name |-> chosen[k].name, yaml |-> chosen[k].yaml]]

\* What a turn of the loop writes of d, the first n samples that are left.
WriteChunk(d, n) ==
  /\ out' = out \o [k \in 1..n |-> d.first + d.read + k - 1]
  /\ tags' = tags \o PublishedTags(d, n)
  /\ written' = written + n
  /\ UNCHANGED <<bulkPc, size, received, sampleOf>>

\* How much of d is written in this turn.
ChunkSize(d) == Min2(size - written, d.n - d.read)

\* An acquisition without samples is skipped, but it stays at the front.
SkipEmpty ==
  /\ bulkPc = "copy"
  /\ written < size /\ queue # <<>>
  /\ Head(queue).n = 0
  /\ UNCHANGED streamVars

\* Mutant of CopyChunk: an acquisition is written in one piece or not at all.
CopyWholeOnly ==
  /\ bulkPc = "copy"
  /\ written < size /\ queue # <<>>
  /\ LET d == Head(queue)
     IN /\ d.n # 0 /\ ChunkSize(d) = d.n
        /\ WriteChunk(d, d.n) /\ queue' = Tail(queue)

\* One turn of the loop; an acquisition is removed when it is written.
CopyChunk ==
  /\ bulkPc = "copy"
  /\ written < size /\ queue # <<>>
  /\ LET d == Head(queue)
         n == ChunkSize(d)
     IN /\ d.n # 0
        /\ WriteChunk(d, n)
        /\ queue' = IF d.read + n = d.n THEN Tail(queue)
                    ELSE <<[d EXCEPT !.read = @ + n]>> \o Tail(queue)

\* The loop ends when the output is full or the queue is empty.
Publish ==
  /\ bulkPc = "copy"
  /\ written = size \/ queue = <<>>
  /\ bulkPc' = "idle"
  /\ size' = 0
  /\ written' = 0
  /\ UNCHANGED <<queue, out, tags, received, sampleOf>>

-----------------------------------------------------------------------------
\* Everything is received and written.
Done ==
  /\ bulkPc = "idle" /\ queue = <<>> /\ received = MaxSamples
  /\ UNCHANGED streamVars

SourceBlock ==
  \/ \E n \in 1..MaxOutput : ProcessBulk(n)
  \/ SkipEmpty
  \/ CopyChunk
  \/ Publish

StreamNext ==
  \/ \E n \in 0..MaxSize : \E indices \in TriggerIndices(n), w \in BOOLEAN :
       Receive(n, indices, w)
  \/ Interrupt
  \/ SourceBlock
  \/ Done

StreamSpec == StreamInit /\ [][StreamNext]_streamVars

\* The scheduler keeps processing the block, and the loop goes on.
StreamFairness == WF_streamVars(SourceBlock)

-----------------------------------------------------------------------------
(* Properties.                                                             *)

StreamTypeOK ==
  /\ \A k \in DOMAIN queue :
       LET d == queue[k]
       IN /\ d.first \in 1..(received + 1) /\ d.n \in 0..MaxSize
          /\ d.read = 0 \/ d.read \in 0..(d.n - 1)
          /\ k > 1 => d.read = 0
  /\ bulkPc \in {"idle", "copy"}
  /\ size \in 0..MaxOutput /\ written \in 0..size
  /\ received \in 0..MaxSamples
  /\ \A k \in DOMAIN sampleOf : sampleOf[k] \in 1..(received + 1)

\* A sample with its triggers, in their order, and the maps they are given.
Sample(k, marks) == [sample |-> k, triggers |-> marks]

\* The samples that are queued, with the triggers they were received with.
Queued ==
  LET left(d) == (d.first + d.read)..(d.first + d.n - 1)
      samples == Ascending(UNION {left(queue[k]) : k \in DOMAIN queue})
      of(s)   == Ascending({t \in DOMAIN sampleOf : sampleOf[t] = s})
  IN [k \in DOMAIN samples |->
        Sample(samples[k], [j \in DOMAIN of(samples[k]) |->
                              <<of(samples[k])[j], of(samples[k])[j]>>])]

\* The samples that are written, with the tags that were published for them.
Written ==
  [k \in DOMAIN out |->
     LET marks == Selected(tags, {t \in DOMAIN tags : tags[t].at = k})
     IN Sample(out[k], [j \in DOMAIN marks |->
                          <<marks[j].name, marks[j].yaml>>])]

Lossless == INSTANCE LosslessStream WITH pending <- Queued, delivered <- Written

\* The queue implements the lossless stream, however the acquisitions and the
\* output spans overlap: no sample is lost, repeated or overtaken, and each is
\* written together with all of its triggers, each trigger once and with its own
\* YAML map.  At the border of two chunks a tag "was already handled in a previous
\* call OR it will be published in the next call".
ImplementsLosslessStream == Lossless!StreamSpec

\* An acquisition without samples is at the front, and processBulk turns forever.
Stuck == bulkPc = "copy" /\ queue # <<>> /\ Head(queue).n = 0

\* Every sample that is received is written, unless the block gets stuck.
SamplesAreWritten ==
  \A k \in 1..MaxSamples : received >= k ~> (Len(out) >= k \/ Stuck)

\* Every trigger of a sample that is written has been published: what has not
\* been "will be published in the next call".
NoTriggerIsLost ==
  \A t \in DOMAIN sampleOf :
    sampleOf[t] <= Len(out) => \E k \in DOMAIN tags : tags[k].name = t
=============================================================================
