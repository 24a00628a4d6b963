------------------------------ MODULE InfluxDB ------------------------------
(***************************************************************************)
(* The client of influxdb-cxx: class influxdb::InfluxDB, its batch of      *)
(* points, and the calls it makes to Transport::send.                      *)
(*                                                                         *)
(* The library is synchronous: one call of the application runs at a time. *)
(* A call is not atomic here, because it is cut by every Transport::send   *)
(* it makes, which may return or throw; pc says where in its call the      *)
(* client is.                                                              *)
(*                                                                         *)
(* Points are numbered in the order the application hands them over, and a *)
(* line of text stands for the point it was formatted from.                *)
(***************************************************************************)
EXTENDS Integers, Sequences, SequencesExt

CONSTANTS
    Tags,         \* the global tags the application may add
    BatchSizes,   \* the arguments of batchOf
    MaxVector,    \* bound: length of a vector of points
    MaxPoints,    \* bound: points written
    MaxTags,      \* bound: global tags added
    MaxFailures   \* bound: calls of Transport::send that throw

ASSUME BoundsAreNaturals ==
    /\ BatchSizes \subseteq Nat
    /\ MaxVector \in Nat
    /\ MaxPoints \in Nat
    /\ MaxTags \in Nat
    /\ MaxFailures \in Nat

VARIABLES
    mPointBatch,            \* points kept in the client
    mIsBatchingActivated,
    mBatchSize,
    mGlobalTags,            \* formatted when a line is, not when a point is written
    pc,                     \* where the client is in the call in progress
    todo,                   \* points a batched write has not come to yet
    sending                 \* the argument of the Transport::send in progress

\* History: no action of the client depends on these.
VARIABLES
    issued,                 \* points handed to write so far
    fate,                   \* what has become of each of them
    tagsAt,                 \* the global tags set when each was written
    acked,                  \* points of the sends that returned, in that order
    lastSent,               \* the latest send that ended
    retried,                \* points that were in a send that threw
    shrunk,                 \* batchOf left the batch at or above its size
    failures                \* sends that threw

client  == <<mPointBatch, mIsBatchingActivated, mBatchSize, mGlobalTags>>
control == <<pc, todo, sending>>
history == <<issued, fate, tagsAt, acked, lastSent, retried, shrunk, failures>>
vars    == <<client, control, history>>

-----------------------------------------------------------------------------
Payload(points, tags, batched) ==
    [points |-> points, tags |-> tags, batched |-> batched]

NoPayload == Payload(<<>>, <<>>, FALSE)

\* How a send ended: ok says whether it returned or threw.
Outcome(payload, ok) ==
    [points |-> payload.points, batched |-> payload.batched, ok |-> ok]

reversedBatch(batch)    == Payload(Reverse(batch), mGlobalTags, TRUE)
batchButLast(batch)     == Payload(Front(batch), mGlobalTags, TRUE)
batchWithoutTags(batch) == Payload(batch, <<>>, TRUE)

\* joinLineProtocolBatch: the lines carry the global tags of this moment.
joinLineProtocolBatch(batch) == Payload(batch, mGlobalTags, TRUE)

fromZero(n) == [i \in 1..n |-> issued + i - 1]

\* The points of the next write: the n numbers after the last one given out.
Fresh(n) == [i \in 1..n |-> issued + i]

\* The points of set ps have met their end f.
Settle(ps, f) == [p \in 1..issued |-> IF p \in ps THEN f ELSE fate[p]]

Init ==
    /\ mPointBatch = <<>>
    /\ mIsBatchingActivated = FALSE
    /\ mBatchSize = 0
    /\ mGlobalTags = <<>>
    /\ pc = "idle"
    /\ todo = <<>>
    /\ sending = NoPayload
    /\ issued = 0
    /\ fate = <<>>
    /\ tagsAt = <<>>
    /\ acked = <<>>
    /\ lastSent = Outcome(NoPayload, TRUE)
    /\ retried = {}
    /\ shrunk = FALSE
    /\ failures = 0

-----------------------------------------------------------------------------
(* Calls that end at once.                                                 *)

\* Batching is never switched off again, 0 is taken, and a batch that is
\* already as long as the new size is not flushed.
batchOf(size) ==
    /\ pc = "idle"
    /\ mBatchSize' = size
    /\ mIsBatchingActivated' = TRUE
    /\ shrunk' = (mPointBatch # <<>> /\ Len(mPointBatch) >= size)
    /\ UNCHANGED <<mPointBatch, mGlobalTags, control, issued, fate, tagsAt,
                   acked, lastSent, retried, failures>>

clearBatch ==
    /\ pc = "idle"
    /\ mPointBatch' = <<>>
    /\ fate' = Settle(Range(mPointBatch), "cleared")
    /\ UNCHANGED <<mIsBatchingActivated, mBatchSize, mGlobalTags, control,
                   issued, tagsAt, acked, lastSent, retried, shrunk, failures>>

addGlobalTag(tag) ==
    /\ pc = "idle"
    /\ Len(mGlobalTags) < MaxTags
    /\ mGlobalTags' = Append(mGlobalTags, tag)
    /\ UNCHANGED <<mPointBatch, mIsBatchingActivated, mBatchSize, control,
                   history>>

\* The class has no destructor of its own: what is in the batch goes with it.
Destroy ==
    /\ pc = "idle"
    /\ pc' = "destroyed"
    /\ mPointBatch' = <<>>
    /\ fate' = Settle(Range(mPointBatch), "dropped")
    /\ UNCHANGED <<mIsBatchingActivated, mBatchSize, mGlobalTags, todo,
                   sending, issued, tagsAt, acked, lastSent, retried, shrunk,
                   failures>>

-----------------------------------------------------------------------------
(* Calls that send.                                                        *)

\* The call is now inside Transport::send.
transmit(payload) ==
    /\ pc' = "sending"
    /\ sending' = payload

hasFullBatch == mIsBatchingActivated /\ Len(mPointBatch) >= mBatchSize

\* flushBatch has something to send.
hasPending == mIsBatchingActivated /\ mPointBatch # <<>>

\* A call with batching off or an empty batch changes nothing.
flushBatch ==
    /\ pc = "idle"
    /\ hasPending
    /\ transmit(joinLineProtocolBatch(mPointBatch))
    /\ UNCHANGED <<client, todo, history>>

\* The application hands over n points: with batching they go through
\* addPointToBatch one by one, without they are formatted and sent at once.
Hand(n) ==
    /\ pc = "idle"
    /\ issued + n <= MaxPoints
    /\ issued' = issued + n
    /\ fate' = [p \in 1..(issued + n) |->
                   IF p <= issued THEN fate[p] ELSE "held"]
    /\ tagsAt' = [p \in 1..(issued + n) |->
                   IF p <= issued THEN tagsAt[p] ELSE mGlobalTags]
    /\ \/ /\ mIsBatchingActivated
          /\ pc' = "adding"
          /\ todo' = Fresh(n)
          /\ UNCHANGED sending
       \/ /\ ~mIsBatchingActivated
          /\ transmit(Payload(Fresh(n), mGlobalTags, FALSE))
          /\ UNCHANGED todo
    /\ UNCHANGED <<client, acked, lastSent, retried, shrunk, failures>>

writePoint == Hand(1)

writeVector == \E n \in 1..MaxVector : Hand(n)

\* write of an empty vector.  With batching nothing happens.  Without, the
\* last character of an empty string is erased, which is undefined: what
\* follows is a crash, or a send of bytes that are no point of the
\* application.
writeEmptyVector ==
    /\ pc = "idle"
    /\ ~mIsBatchingActivated
    /\ \/ /\ pc' = "crashed"
          /\ UNCHANGED sending
       \/ transmit(NoPayload)
    /\ UNCHANGED <<client, todo, history>>

beyondSize(batch) == Len(batch) > mBatchSize

\* The batch has reached the size at which it is flushed.
isFull(batch) == Len(batch) >= mBatchSize

\* One turn of the loop of write: the point joins the batch, and a batch
\* that has reached its size is flushed.
addPointToBatch ==
    /\ pc = "adding"
    /\ todo # <<>>
    /\ mPointBatch' = Append(mPointBatch, Head(todo))
    /\ todo' = Tail(todo)
    /\ shrunk' = FALSE
    /\ \/ /\ isFull(mPointBatch')
          /\ transmit(joinLineProtocolBatch(mPointBatch'))
       \/ /\ ~isFull(mPointBatch')
          /\ pc' = IF Len(todo) = 1 THEN "idle" ELSE "adding"
          /\ UNCHANGED sending
    /\ UNCHANGED <<mIsBatchingActivated, mBatchSize, mGlobalTags, issued,
                   fate, tagsAt, acked, lastSent, retried, failures>>

clearedInAnyCase(ok) == IF sending.batched THEN <<>> ELSE mPointBatch
neverCleared(ok)     == mPointBatch
keptForRetry(ok)     ==
    IF sending.batched
      THEN (IF ok THEN <<>> ELSE mPointBatch)
      ELSE (IF ok THEN mPointBatch ELSE mPointBatch \o sending.points)

\* What flushBatch leaves in the batch: it is cleared behind transmit, so not
\* when transmit throws.
batchAfter(ok) == IF ok /\ sending.batched THEN <<>> ELSE mPointBatch

\* Where a call goes on when its send has returned: a loop has its next turn.
afterSend == IF todo = <<>> THEN "idle" ELSE "adding"

\* Transport::send has returned.
sendReturns ==
    /\ pc = "sending"
    /\ mPointBatch' = batchAfter(TRUE)
    /\ pc' = afterSend
    /\ sending' = NoPayload
    /\ fate' = Settle(Range(sending.points), "acked")
    /\ acked' = acked \o sending.points
    /\ lastSent' = Outcome(sending, TRUE)
    /\ UNCHANGED <<mIsBatchingActivated, mBatchSize, mGlobalTags, todo,
                   issued, tagsAt, retried, shrunk, failures>>

\* Transport::send has thrown, and the exception leaves the call.  The batch
\* stays as it is; the points the loop had not come to and those of an
\* unbatched write are gone.
sendThrows ==
    /\ pc = "sending"
    /\ failures < MaxFailures
    /\ mPointBatch' = batchAfter(FALSE)
    /\ pc' = "idle"
    /\ todo' = <<>>
    /\ sending' = NoPayload
    /\ fate' = IF sending.batched
                 THEN Settle(Range(todo), "abandoned")
                 ELSE Settle(Range(sending.points), "lost")
    /\ lastSent' = Outcome(sending, FALSE)
    /\ retried' = retried \union Range(sending.points)
    /\ failures' = failures + 1
    /\ UNCHANGED <<mIsBatchingActivated, mBatchSize, mGlobalTags, issued,
                   tagsAt, acked, shrunk>>

\* Nothing follows the end of the object or of the process.
Ended ==
    /\ pc \in {"destroyed", "crashed"}
    /\ UNCHANGED vars

-----------------------------------------------------------------------------
Next ==
    \/ \E size \in BatchSizes : batchOf(size)
    \/ clearBatch
    \/ \E tag \in Tags : addGlobalTag(tag)
    \/ Destroy
    \/ flushBatch
    \/ writePoint
    \/ writeVector
    \/ writeEmptyVector
    \/ addPointToBatch
    \/ sendReturns
    \/ sendThrows
    \/ Ended

Spec == Init /\ [][Next]_vars

-----------------------------------------------------------------------------
Points == Nat \ {0}

Fates == {"held", "acked", "lost", "abandoned", "cleared", "dropped"}

Payloads == [points : Seq(Points), tags : Seq(Tags), batched : BOOLEAN]

Outcomes == [points : Seq(Points), batched : BOOLEAN, ok : BOOLEAN]

\* The values of the variables, each on its own.
TypeOK ==
    /\ mPointBatch \in Seq(Points)
    /\ mIsBatchingActivated \in BOOLEAN
    /\ mBatchSize \in Nat
    /\ mGlobalTags \in Seq(Tags)
    /\ pc \in {"idle", "adding", "sending", "destroyed", "crashed"}
    /\ todo \in Seq(Points)
    /\ sending \in Payloads
    /\ issued \in Nat
    /\ fate \in [1..issued -> Fates]
    /\ tagsAt \in [1..issued -> Seq(Tags)]
    /\ acked \in Seq(Points)
    /\ lastSent \in Outcomes
    /\ retried \in SUBSET Points
    /\ shrunk \in BOOLEAN
    /\ failures \in Nat

\* The points of an unbatched write whose send is in progress.
Direct == IF sending.batched THEN <<>> ELSE sending.points

\* No point is lost sight of and none is in two places: the client holds a
\* point (in the batch, in the loop of a write, or in an unbatched send)
\* exactly when nothing final has happened to it, and a point counts as
\* accepted exactly when a send that carried it returned.
Conservation ==
    \A p \in 1..issued :
        /\ fate[p] = "held" <=>
               p \in Range(mPointBatch) \union Range(todo) \union Range(Direct)
        /\ fate[p] = "acked" <=> p \in Range(acked)

Increasing(s) == \A i, j \in DOMAIN s : i < j => s[i] < s[j]

Before(s, t) == \A i \in DOMAIN s, j \in DOMAIN t : s[i] < t[j]

\* Points are accepted in the order they were written, each once, over any
\* mixture of failed sends, retries, unbatched and batched writes: what has
\* been accepted comes before what is in the batch, and that before what the
\* write in progress has yet to add or is sending.
FirstInFirstOut ==
    /\ Increasing(acked)
    /\ Increasing(mPointBatch)
    /\ Before(acked, mPointBatch)
    /\ \A s \in {todo, Direct} :
          Increasing(s) /\ Before(acked, s) /\ Before(mPointBatch, s)

\* A batch whose send threw is all kept, at the front of the batch and in
\* its order, so that the next send repeats it whole; or it is all thrown
\* away, by clearBatch or with the client.
FailedBatchKeptWhole ==
    (lastSent.batched /\ ~lastSent.ok) =>
        \/ IsPrefix(lastSent.points, mPointBatch)
        \/ \A p \in Range(lastSent.points) : fate[p] \in {"cleared", "dropped"}

\* "This can also happen when the buffer is full" (InfluxDB.h): between calls
\* a batch at or above its size has been tried as it stands, and the transport
\* refused it; the one exception is a batch that batchOf has just overtaken.
FullBatchWasTried ==
    (pc = "idle" /\ mPointBatch # <<>> /\ Len(mPointBatch) >= mBatchSize) =>
        \/ shrunk
        \/ ~lastSent.ok /\ lastSent.points = mPointBatch

\* The points of a vector that a failed write gives up are those behind a
\* point whose send threw: none is given up in front of it or without it.
AbandonedBehindFailure ==
    \A p \in 1..issued :
        fate[p] = "abandoned" =>
            p > 1 /\ (p - 1 \in retried \/ fate[p - 1] = "abandoned")

\* A line is sent with at least the global tags that were set when its point
\* was written, and an unbatched one with no others.
TagsOfWriteAreSent ==
    \A p \in Range(sending.points) :
        /\ IsPrefix(tagsAt[p], sending.tags)
        /\ ~sending.batched => tagsAt[p] = sending.tags

\* Every transmission carries a point: write "Writes a vector of point"
\* (InfluxDB.h:62), so a vector of none has nothing to transmit.
EveryTransmissionCarriesAPoint ==
    pc = "sending" => sending.points # <<>>

-----------------------------------------------------------------------------
\* The last point that is queued, delivered or given up: all but those the
\* call in progress has in hand.
Newest == issued - Len(todo) - Len(Direct)

\* The client is a BufferedWriter.
Writer == INSTANCE BufferedWriter WITH
              newest <- Newest, queue <- mPointBatch, delivered <- acked

\* Seen from outside, every step of the client is one the abstract writer can
\* take.
IsBufferedWriter == Writer!Spec
=============================================================================
