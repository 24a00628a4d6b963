-------------------------- MODULE WritePathProofs ---------------------------
(***************************************************************************)
(* Theorems about the client of module InfluxDB and about the write path   *)
(* that module WritePath composes it to, for any number of points, sizes,  *)
(* tags and failures, any server that accepts or refuses as WritePath      *)
(* says, and every order in which requests and datagrams come in.          *)
(*                                                                         *)
(* The first half is about the client by itself. Its later theorems, about *)
(* what a step may not do to what earlier ones have done, build on the     *)
(* invariant IInv of its first.                                            *)
(*                                                                         *)
(* The second half has three inductive invariants, each with the one       *)
(* before as a conjunct: PInv has what the client, a request and an answer *)
(* must agree on; HInv adds what became of every point and request, for    *)
(* what is stored twice and under which tags; OInv adds the order of the   *)
(* store.                                                                  *)
(***************************************************************************)
EXTENDS WritePath, FiniteSetTheorems, SequenceTheorems, TLAPS

-----------------------------------------------------------------------------
(* Lemmas about the operators of the model.                                *)

\* The points of the next write are the n numbers after the last one issued.
LEMMA FreshProperties ==
    ASSUME NEW n \in Nat, issued \in Nat
    PROVE  /\ Fresh(n) \in Seq(Points)
           /\ Len(Fresh(n)) = n
           /\ \A i \in 1..n : Fresh(n)[i] = issued + i
<1>1. Fresh(n) \in [1..n -> Points]
    BY DEF Fresh, Points
<1>2. Fresh(n) \in Seq(Points)
    BY <1>1, SeqDef
<1>3. Len(Fresh(n)) = n
    BY <1>1, <1>2, LenProperties DEF Fresh
<1> QED
    BY <1>2, <1>3 DEF Fresh

\* A sequence of points is empty exactly when its length is 0.
LEMMA LengthOfPoints ==
    ASSUME NEW s \in Seq(Points)
    PROVE  Len(s) \in Nat /\ (Len(s) = 0 <=> s = <<>>)
BY EmptySeq, LenProperties

\* What is left of a sequence of points behind its head.
LEMMA TailOfPoints ==
    ASSUME NEW s \in Seq(Points), s # <<>>
    PROVE  /\ Head(s) \in Points /\ Head(s) = s[1]
           /\ Tail(s) \in Seq(Points)
           /\ Len(Tail(s)) = Len(s) - 1
           /\ Tail(s) = <<>> <=> Len(s) = 1
           /\ \A i \in 1..Len(Tail(s)) : Tail(s)[i] = s[i + 1]
<1>1. Tail(s) \in Seq(Points) /\ Len(Tail(s)) = Len(s) - 1
    BY HeadTailProperties
<1>2. Tail(s) = <<>> <=> Len(s) = 1
    <2>1. Len(Tail(s)) = 0 <=> Tail(s) = <<>>
        BY <1>1, LengthOfPoints
    <2>2. Len(s) - 1 = 0 <=> Len(s) = 1
        BY LengthOfPoints
    <2> QED
        BY <1>1, <2>1, <2>2
<1>3. Head(s) \in Points /\ Head(s) = s[1]
    BY LengthOfPoints
<1> QED
    BY <1>1, <1>2, <1>3, HeadTailProperties

\* Settling a set of points gives those points the new fate and leaves the
\* others theirs.
LEMMA SettleProperties ==
    ASSUME NEW ps, NEW f \in Fates, fate \in [1..issued -> Fates]
    PROVE  /\ Settle(ps, f) \in [1..issued -> Fates]
           /\ \A p \in 1..issued :
                 Settle(ps, f)[p] = IF p \in ps THEN f ELSE fate[p]
BY DEF Settle

\* A payload is made of points, of tags and of the mode it was written in.
LEMMA PayloadType ==
    ASSUME NEW points \in Seq(Points), NEW tags \in Seq(Tags),
           NEW batched \in BOOLEAN
    PROVE  Payload(points, tags, batched) \in Payloads
BY DEF Payload, Payloads

LEMMA NoPayloadType == NoPayload \in Payloads
<1>1. <<>> \in Seq(Points) /\ <<>> \in Seq(Tags)
    OBVIOUS
<1> QED
    BY <1>1, PayloadType DEF NoPayload

\* The outcome of a send keeps the points and the mode of its payload.
LEMMA OutcomeType ==
    ASSUME NEW payload \in Payloads, NEW ok \in BOOLEAN
    PROVE  Outcome(payload, ok) \in Outcomes
BY DEF Outcome, Payloads, Outcomes

-----------------------------------------------------------------------------
(* Type correctness.                                                       *)

\* The variables of the client start with values of their types.
LEMMA TypeOKInit == Init => TypeOK
<1> SUFFICES ASSUME Init PROVE TypeOK
    OBVIOUS
<1>1. fate \in [1..issued -> Fates] /\ tagsAt \in [1..issued -> Seq(Tags)]
    BY DEF Init
<1>2. Outcome(NoPayload, TRUE) \in Outcomes
    BY NoPayloadType, OutcomeType
<1>3. <<>> \in Seq(Points) /\ <<>> \in Seq(Tags)
    OBVIOUS
<1> QED
    BY <1>1, <1>2, <1>3, NoPayloadType DEF Init, TypeOK

\* Handing over n points keeps the types: the new points get a fate and the
\* tags of the moment, the old ones keep theirs.
LEMMA TypeOKHand ==
    ASSUME TypeOK, NEW n \in Nat, Hand(n)
    PROVE  TypeOK'
<1>1. Fresh(n) \in Seq(Points)
    BY FreshProperties DEF TypeOK
<1>2. issued' \in Nat /\ issued' = issued + n
    BY DEF TypeOK, Hand
<1>3. fate' \in [1..issued' -> Fates]
    BY <1>2 DEF TypeOK, Hand, Fates
<1>4. tagsAt' \in [1..issued' -> Seq(Tags)]
    BY <1>2 DEF TypeOK, Hand
<1>5. pc' \in {"adding", "sending"} /\ todo' \in Seq(Points)
    BY <1>1 DEF TypeOK, Hand, transmit
<1>6. sending' \in Payloads
    BY <1>1, PayloadType DEF TypeOK, Hand, transmit
<1> QED
    BY <1>2, <1>3, <1>4, <1>5, <1>6 DEF TypeOK, Hand, client

\* No step of the client breaks the types.
LEMMA TypeOKNext == TypeOK /\ [Next]_vars => TypeOK'
<1> SUFFICES ASSUME TypeOK, [Next]_vars PROVE TypeOK'
    OBVIOUS
<1> USE BoundsAreNaturals
<1>1. CASE UNCHANGED vars
    BY <1>1 DEF TypeOK, vars, client, control, history
<1>2. ASSUME NEW size \in BatchSizes, batchOf(size) PROVE TypeOK'
    BY <1>2 DEF TypeOK, batchOf, control
<1>3. CASE clearBatch
    <2>1. fate' \in [1..issued -> Fates]
        BY <1>3, SettleProperties DEF TypeOK, clearBatch, Fates
    <2> QED
        BY <1>3, <2>1 DEF TypeOK, clearBatch, control
<1>4. ASSUME NEW tag \in Tags, addGlobalTag(tag) PROVE TypeOK'
    <2>1. mGlobalTags' \in Seq(Tags)
        BY <1>4, AppendProperties DEF TypeOK, addGlobalTag
    <2> QED
        BY <1>4, <2>1 DEF TypeOK, addGlobalTag, control, history
<1>5. CASE Destroy
    <2>1. fate' \in [1..issued -> Fates]
        BY <1>5, SettleProperties DEF TypeOK, Destroy, Fates
    <2> QED
        BY <1>5, <2>1 DEF TypeOK, Destroy
<1>6. CASE flushBatch
    BY <1>6, PayloadType
    DEF TypeOK, flushBatch, transmit, joinLineProtocolBatch, client, history
<1>7. CASE writePoint
    BY <1>7, TypeOKHand DEF writePoint
<1>8. CASE writeVector
    BY <1>8, TypeOKHand DEF writeVector
<1>9. CASE writeEmptyVector
    BY <1>9, NoPayloadType
    DEF TypeOK, writeEmptyVector, transmit, client, history
<1>10. CASE addPointToBatch
    <2>1. Head(todo) \in Points /\ todo' \in Seq(Points)
        BY <1>10, HeadTailProperties DEF TypeOK, addPointToBatch
    <2>2. mPointBatch' \in Seq(Points)
        BY <1>10, <2>1, AppendProperties DEF TypeOK, addPointToBatch
    <2>3. pc' \in {"idle", "adding", "sending"}
        BY <1>10 DEF addPointToBatch, transmit
    <2>4. sending' \in Payloads
        BY <1>10, <2>2, PayloadType
        DEF TypeOK, addPointToBatch, transmit, joinLineProtocolBatch
    <2> QED
        BY <1>10, <2>1, <2>2, <2>3, <2>4 DEF TypeOK, addPointToBatch
<1>11. CASE sendReturns
    <2>1. fate' \in [1..issued -> Fates]
        BY <1>11, SettleProperties DEF TypeOK, sendReturns, Fates
    <2>2. acked' \in Seq(Points)
        BY <1>11, ConcatProperties DEF TypeOK, Payloads, sendReturns
    <2>3. lastSent' \in Outcomes
        BY <1>11, OutcomeType DEF TypeOK, sendReturns
    <2>4. mPointBatch' \in Seq(Points)
        BY <1>11 DEF TypeOK, sendReturns, batchAfter
    <2> QED
        BY <1>11, <2>1, <2>2, <2>3, <2>4, NoPayloadType
        DEF TypeOK, sendReturns, afterSend
<1>12. CASE sendThrows
    <2>1. fate' \in [1..issued -> Fates]
        BY <1>12, SettleProperties DEF TypeOK, sendThrows, Fates
    <2>2. retried' \in SUBSET Points
        <3>1. Range(sending.points) \in SUBSET Points
            BY RangeOfSeq DEF TypeOK, Payloads
        <3> QED
            BY <1>12, <3>1 DEF TypeOK, sendThrows
    <2>3. lastSent' \in Outcomes
        BY <1>12, OutcomeType DEF TypeOK, sendThrows
    <2>4. todo' \in Seq(Points)
        BY <1>12 DEF sendThrows
    <2>5. issued' = issued /\ tagsAt' = tagsAt /\ acked' = acked
        BY <1>12 DEF sendThrows
    <2>6. client' = client /\ shrunk' = shrunk /\ sending' = NoPayload
        BY <1>12 DEF sendThrows, batchAfter, client
    <2>7. failures' \in Nat /\ pc' = "idle"
        BY <1>12 DEF TypeOK, sendThrows
    <2> QED
        BY <2>1, <2>2, <2>3, <2>4, <2>5, <2>6, <2>7, NoPayloadType
        DEF TypeOK, client
<1>13. CASE Ended
    BY <1>13, <1>1 DEF Ended
<1> QED
    BY <1>1, <1>2, <1>3, <1>4, <1>5, <1>6, <1>7, <1>8, <1>9, <1>10, <1>11,
       <1>12, <1>13 DEF Next

\* TypeOK holds in every reachable state of the client.
THEOREM TypeCorrect == Spec => []TypeOK
<1>1. Init => TypeOK
    BY TypeOKInit
<1>2. TypeOK /\ [Next]_vars => TypeOK'
    BY TypeOKNext
<1> QED
    BY <1>1, <1>2, PTL DEF Spec

-----------------------------------------------------------------------------
(* The inductive invariant.  FirstInFirstOut and Conservation are not      *)
(* inductive: they need to know that a batched send carries exactly the    *)
(* batch, that an unbatched one finds the batch empty, and which points    *)
(* the call in progress has in hand.                                       *)

\* What each point of the control flow of a call means for the data.
CallState ==
    /\ pc = "adding" => mIsBatchingActivated /\ todo # <<>>
    /\ pc = "sending" =>
          /\ sending.batched => mIsBatchingActivated
          /\ sending.batched => sending.points = mPointBatch
          /\ ~sending.batched => ~mIsBatchingActivated
    /\ pc # "sending" => sending = NoPayload
    /\ pc \notin {"adding", "sending"} => todo = <<>>
    /\ ~mIsBatchingActivated => mPointBatch = <<>> /\ todo = <<>>

\* Sequence s holds the last Len(s) of the first n points.
LastOf(s, n) ==
    /\ Len(s) <= n
    /\ \A i \in 1..Len(s) : s[i] = n - Len(s) + i

\* The points of the call in progress are the last ones issued.
InHand == LastOf(todo, issued) /\ LastOf(Direct, issued)

\* No point of s comes after n.
UpTo(s, n) == \A i \in 1..Len(s) : s[i] <= n

Order ==
    /\ Increasing(acked)
    /\ Increasing(mPointBatch)
    /\ Before(acked, mPointBatch)
    /\ UpTo(acked, Newest)
    /\ UpTo(mPointBatch, Newest)

IInv == TypeOK /\ CallState /\ InHand /\ Order /\ Conservation

-----------------------------------------------------------------------------
\* What the fields of a payload are.
LEMMA PayloadFields ==
    /\ \A points, tags, batched :
          /\ Payload(points, tags, batched).points = points
          /\ Payload(points, tags, batched).batched = batched
    /\ NoPayload.points = <<>>
    /\ NoPayload.batched = FALSE
BY DEF Payload, NoPayload

\* Outside a send there is no unbatched write in progress.
LEMMA DirectType ==
    ASSUME TypeOK
    PROVE  /\ sending.points \in Seq(Points)
           /\ sending.batched \in BOOLEAN
           /\ Direct \in Seq(Points)
           /\ (CallState /\ pc # "sending") => Direct = <<>>
<1>1. sending.points \in Seq(Points) /\ sending.batched \in BOOLEAN
    BY DEF TypeOK, Payloads
<1> QED
    BY <1>1, PayloadFields DEF Direct, CallState

\* Each step leads to a control point whose data is as CallState says.
LEMMA CallStateNext ==
    ASSUME TypeOK, CallState, [Next]_vars
    PROVE  CallState'
<1> USE PayloadFields
<1>1. CASE UNCHANGED vars
    BY <1>1 DEF CallState, vars, client, control
<1>2. ASSUME NEW size \in BatchSizes, batchOf(size) PROVE CallState'
    BY <1>2 DEF CallState, batchOf, control
<1>3. CASE clearBatch
    BY <1>3 DEF CallState, clearBatch, control
<1>4. ASSUME NEW tag \in Tags, addGlobalTag(tag) PROVE CallState'
    BY <1>4 DEF CallState, addGlobalTag, control
<1>5. CASE Destroy
    BY <1>5 DEF CallState, Destroy
<1>6. CASE flushBatch
    BY <1>6
    DEF CallState, flushBatch, hasPending, transmit, joinLineProtocolBatch, client
<1>7. ASSUME NEW n \in Nat \ {0}, Hand(n) PROVE CallState'
    <2>1. Fresh(n) # <<>>
        BY FreshProperties, LengthOfPoints DEF TypeOK
    <2>2. CASE mIsBatchingActivated
        BY <1>7, <2>1, <2>2 DEF CallState, Hand, client
    <2>3. CASE ~mIsBatchingActivated
        <3>1. pc = "idle" /\ pc' = "sending" /\ todo' = todo
            BY <1>7, <2>3 DEF Hand, transmit
        <3>2. sending' = Payload(Fresh(n), mGlobalTags, FALSE)
            BY <1>7, <2>3 DEF Hand, transmit
        <3>3. ~sending'.batched
            BY <3>2
        <3>4. mPointBatch' = mPointBatch /\ ~mIsBatchingActivated'
            BY <1>7, <2>3 DEF Hand, client
        <3> QED
            BY <2>3, <3>1, <3>3, <3>4 DEF CallState
    <2> QED
        BY <2>2, <2>3 DEF TypeOK
<1>8. CASE writePoint
    BY <1>7, <1>8 DEF writePoint
<1>9. CASE writeVector
    BY <1>7, <1>9, BoundsAreNaturals DEF writeVector
<1>10. CASE writeEmptyVector
    BY <1>10 DEF CallState, writeEmptyVector, transmit, client
<1>11. CASE addPointToBatch
    <2>1. Tail(todo) = <<>> <=> Len(todo) = 1
        BY <1>11, TailOfPoints DEF TypeOK, addPointToBatch
    <2>2. CASE transmit(joinLineProtocolBatch(mPointBatch'))
        BY <1>11, <2>2
        DEF CallState, addPointToBatch, transmit, joinLineProtocolBatch
    <2>3. CASE UNCHANGED sending /\ pc' \in {"idle", "adding"}
                /\ (pc' = "idle" <=> Len(todo) = 1)
        BY <1>11, <2>1, <2>3 DEF CallState, addPointToBatch
    <2> QED
        BY <1>11, <2>2, <2>3 DEF addPointToBatch
<1>12. CASE sendReturns
    BY <1>12 DEF CallState, sendReturns, batchAfter, afterSend
<1>13. CASE sendThrows
    BY <1>13 DEF CallState, sendThrows, batchAfter, client
<1>14. CASE Ended
    BY <1>1, <1>14 DEF Ended
<1> QED
    BY <1>1, <1>2, <1>3, <1>4, <1>5, <1>6, <1>8, <1>9, <1>10, <1>11, <1>12,
       <1>13, <1>14 DEF Next

\* The empty sequence holds the last 0 points of any number, and the points
\* just issued are the last ones of the new number.
LEMMA LastOfBasics ==
    /\ \A n \in Nat : LastOf(<<>>, n)
    /\ issued \in Nat =>
          \A n \in Nat : LastOf(Fresh(n), issued + n)
<1>1. ASSUME NEW n \in Nat PROVE LastOf(<<>>, n)
    <2>1. Len(<<>>) = 0
        OBVIOUS
    <2>2. 1..Len(<<>>) = {}
        BY <2>1
    <2> QED
        BY <2>1, <2>2 DEF LastOf
<1>2. ASSUME issued \in Nat, NEW n \in Nat
      PROVE  LastOf(Fresh(n), issued + n)
    <2>1. /\ Len(Fresh(n)) = n
          /\ \A i \in 1..n : Fresh(n)[i] = (issued + n) - n + i
        BY <1>2, FreshProperties
    <2> QED
        BY <1>2, <2>1 DEF LastOf
<1> QED
    BY <1>1, <1>2

\* What remains behind the head still holds the last points.
LEMMA LastOfTail ==
    ASSUME NEW s \in Seq(Points), NEW n \in Nat, s # <<>>, LastOf(s, n)
    PROVE  LastOf(Tail(s), n) /\ Head(s) = n - Len(s) + 1
<1>1. Len(s) \in Nat /\ Len(s) # 0
    BY LengthOfPoints
<1>2. Head(s) = n - Len(s) + 1
    BY <1>1, TailOfPoints DEF LastOf
<1>3. ASSUME NEW i \in 1..Len(Tail(s))
      PROVE  Tail(s)[i] = n - Len(Tail(s)) + i
    <2>1. i + 1 \in 1..Len(s)
        BY <1>1, <1>3, TailOfPoints
    <2> QED
        BY <1>1, <1>3, <2>1, TailOfPoints DEF LastOf
<1>4. Len(Tail(s)) <= n
    BY <1>1, TailOfPoints DEF LastOf
<1> QED
    BY <1>2, <1>3, <1>4 DEF LastOf

\* The points a call has in hand are always the last ones issued: a call hands
\* over fresh points, takes them from the front, and drops the rest when it
\* ends.
LEMMA InHandNext ==
    ASSUME TypeOK, CallState, InHand, [Next]_vars
    PROVE  InHand'
<1> USE PayloadFields
<1>a. issued \in Nat /\ LastOf(<<>>, issued)
    BY LastOfBasics DEF TypeOK
<1>b. ASSUME todo' = todo, sending' = sending, issued' = issued
      PROVE  InHand'
    BY <1>b DEF InHand, Direct
<1>c. ASSUME sending'.batched \/ sending' = NoPayload
      PROVE  Direct' = <<>>
    BY <1>c DEF Direct
<1>1. CASE UNCHANGED vars
    BY <1>1, <1>b DEF vars, control, history
<1>2. ASSUME NEW size \in BatchSizes, batchOf(size) PROVE InHand'
    BY <1>2, <1>b DEF batchOf, control
<1>3. CASE clearBatch
    BY <1>3, <1>b DEF clearBatch, control
<1>4. ASSUME NEW tag \in Tags, addGlobalTag(tag) PROVE InHand'
    BY <1>4, <1>b DEF addGlobalTag, control, history
<1>5. CASE Destroy
    BY <1>5, <1>b DEF Destroy
<1>6. CASE flushBatch
    <2>1. Direct' = <<>>
        BY <1>6, <1>c DEF flushBatch, transmit, joinLineProtocolBatch
    <2>2. todo' = todo /\ issued' = issued
        BY <1>6 DEF flushBatch, history
    <2> QED
        BY <1>a, <2>1, <2>2 DEF InHand
<1>7. ASSUME NEW n \in Nat \ {0}, Hand(n) PROVE InHand'
    <2>1. LastOf(Fresh(n), issued') /\ LastOf(<<>>, issued')
        BY <1>a, <1>7, LastOfBasics DEF Hand
    <2>2. pc = "idle" /\ todo = <<>> /\ sending = NoPayload
        BY <1>7 DEF Hand, CallState
    <2>3. CASE mIsBatchingActivated
        <3>1. todo' = Fresh(n) /\ Direct' = <<>>
            BY <1>7, <1>c, <2>2, <2>3 DEF Hand
        <3> QED
            BY <2>1, <3>1 DEF InHand
    <2>4. CASE ~mIsBatchingActivated
        <3>1. todo' = <<>> /\ sending' = Payload(Fresh(n), mGlobalTags, FALSE)
            BY <1>7, <2>2, <2>4 DEF Hand, transmit
        <3>2. Direct' = Fresh(n)
            BY <3>1 DEF Direct
        <3> QED
            BY <2>1, <3>1, <3>2 DEF InHand
    <2> QED
        BY <2>3, <2>4
<1>8. CASE writePoint
    BY <1>7, <1>8 DEF writePoint
<1>9. CASE writeVector
    BY <1>7, <1>9, BoundsAreNaturals DEF writeVector
<1>10. CASE writeEmptyVector
    <2>1. sending' = NoPayload
        BY <1>10 DEF writeEmptyVector, transmit, CallState
    <2>2. todo' = todo /\ issued' = issued
        BY <1>10 DEF writeEmptyVector, history
    <2> QED
        BY <1>a, <1>c, <2>1, <2>2 DEF InHand
<1>11. CASE addPointToBatch
    <2>1. todo # <<>> /\ todo' = Tail(todo) /\ issued' = issued
        BY <1>11 DEF addPointToBatch
    <2>2. Direct' = <<>>
        <3>1. sending = NoPayload
            BY <1>11 DEF addPointToBatch, CallState
        <3>2. CASE transmit(joinLineProtocolBatch(mPointBatch'))
            BY <1>c, <3>2 DEF transmit, joinLineProtocolBatch
        <3>3. CASE UNCHANGED sending
            BY <1>c, <3>1, <3>3
        <3> QED
            BY <1>11, <3>2, <3>3 DEF addPointToBatch
    <2>3. LastOf(todo', issued')
        BY <1>a, <2>1, LastOfTail DEF InHand, TypeOK
    <2> QED
        BY <1>a, <2>1, <2>2, <2>3 DEF InHand
<1>12. CASE sendReturns
    BY <1>12, <1>a, <1>c DEF sendReturns, InHand
<1>13. CASE sendThrows
    BY <1>13, <1>a, <1>c DEF sendThrows, InHand
<1>14. CASE Ended
    BY <1>1, <1>14 DEF Ended
<1> QED
    BY <1>1, <1>2, <1>3, <1>4, <1>5, <1>6, <1>8, <1>9, <1>10, <1>11, <1>12,
       <1>13, <1>14 DEF Next

-----------------------------------------------------------------------------
(* The order of points.                                                    *)

\* A point appended behind all others keeps the sequence increasing.
LEMMA IncreasingAppend ==
    ASSUME NEW s \in Seq(Points), NEW n \in Nat, Increasing(s), UpTo(s, n)
    PROVE  /\ Increasing(Append(s, n + 1))
           /\ UpTo(Append(s, n + 1), n + 1)
<1> DEFINE t == Append(s, n + 1)
<1>1. n + 1 \in Points
    BY DEF Points
<1>2. /\ t \in Seq(Points)
      /\ Len(s) \in Nat /\ Len(t) = Len(s) + 1
      /\ t[Len(s) + 1] = n + 1
      /\ \A i \in 1..Len(s) : t[i] = s[i]
    BY <1>1, AppendProperties, LengthOfPoints
<1>3. \A i \in 1..Len(t) : i \in 1..Len(s) \/ i = Len(s) + 1
    BY <1>2
<1>4. DOMAIN t = 1..Len(t) /\ DOMAIN s = 1..Len(s)
    BY <1>2, LenProperties
<1>5. \A i \in 1..Len(s) : s[i] \in Nat
    BY <1>4, ElementOfSeq DEF Points
<1>6. UpTo(t, n + 1)
    BY <1>2, <1>3, <1>5 DEF UpTo
<1>7. ASSUME NEW i \in 1..Len(t), NEW j \in 1..Len(t), i < j
      PROVE  t[i] < t[j]
    <2>1. i \in 1..Len(s)
        BY <1>2, <1>3, <1>7
    <2>2. CASE j \in 1..Len(s)
        BY <1>2, <1>4, <1>7, <2>1, <2>2 DEF Increasing
    <2>3. CASE j = Len(s) + 1
        <3>1. t[i] <= n /\ t[i] \in Nat
            BY <1>2, <1>5, <2>1 DEF UpTo
        <3> QED
            BY <1>2, <2>3, <3>1
    <2> QED
        BY <1>3, <2>2, <2>3
<1> QED
    BY <1>4, <1>6, <1>7 DEF Increasing

\* A sequence followed by a later one is increasing if both are.
LEMMA IncreasingConcat ==
    ASSUME NEW s \in Seq(Points), NEW t \in Seq(Points), NEW n \in Nat,
           Increasing(s), Increasing(t), Before(s, t), UpTo(s, n), UpTo(t, n)
    PROVE  Increasing(s \o t) /\ UpTo(s \o t, n)
<1> DEFINE u == s \o t
<1>1. /\ u \in Seq(Points)
      /\ Len(s) \in Nat /\ Len(t) \in Nat /\ Len(u) = Len(s) + Len(t)
      /\ \A i \in 1..Len(s) : u[i] = s[i]
    BY ConcatProperties, LengthOfPoints
<1>2. ASSUME NEW i \in 1..Len(u), i \notin 1..Len(s)
      PROVE  i - Len(s) \in 1..Len(t) /\ u[i] = t[i - Len(s)]
    BY <1>1, <1>2, ConcatProperties
<1>3. DOMAIN u = 1..Len(u) /\ DOMAIN s = 1..Len(s) /\ DOMAIN t = 1..Len(t)
    BY <1>1, LenProperties
<1>4. UpTo(u, n)
    BY <1>1, <1>2 DEF UpTo
<1>5. ASSUME NEW i \in 1..Len(u), NEW j \in 1..Len(u), i < j
      PROVE  u[i] < u[j]
    <2>1. CASE i \in 1..Len(s) /\ j \in 1..Len(s)
        BY <1>1, <1>3, <1>5, <2>1 DEF Increasing
    <2>2. CASE i \in 1..Len(s) /\ j \notin 1..Len(s)
        BY <1>1, <1>2, <1>3, <2>2 DEF Before
    <2>3. CASE i \notin 1..Len(s)
        <3>1. j \notin 1..Len(s)
            BY <1>1, <1>5, <2>3
        <3>2. i - Len(s) < j - Len(s)
            BY <1>1, <1>5
        <3> QED
            BY <1>2, <1>3, <2>3, <3>1, <3>2 DEF Increasing
    <2> QED
        BY <2>1, <2>2, <2>3
<1> QED
    BY <1>3, <1>4, <1>5 DEF Increasing

\* What holds the last points of a number is increasing and comes after every
\* sequence that goes no further than the point before its first.
LEMMA LastOfIncreasing ==
    ASSUME NEW s \in Seq(Points), NEW n \in Nat, LastOf(s, n)
    PROVE  /\ Increasing(s) /\ UpTo(s, n)
           /\ \A r \in Seq(Points) : UpTo(r, n - Len(s)) => Before(r, s)
<1>1. Len(s) \in Nat /\ DOMAIN s = 1..Len(s)
    BY LengthOfPoints, LenProperties
<1>2. Increasing(s) /\ UpTo(s, n)
    BY <1>1 DEF LastOf, Increasing, UpTo
<1>3. ASSUME NEW r \in Seq(Points), UpTo(r, n - Len(s))
      PROVE  Before(r, s)
    <2>1. \A i \in DOMAIN r : r[i] \in Nat /\ r[i] <= n - Len(s)
        BY <1>3, LenProperties, ElementOfSeq DEF UpTo, Points
    <2> QED
        BY <1>1, <2>1 DEF LastOf, Before
<1> QED
    BY <1>2, <1>3

\* A point appended to the later of two sequences comes after the earlier one
\* too, when that goes no further than the point before.
LEMMA BeforeAppend ==
    ASSUME NEW r \in Seq(Points), NEW s \in Seq(Points), NEW n \in Nat,
           Before(r, s), UpTo(r, n)
    PROVE  Before(r, Append(s, n + 1))
<1> DEFINE t == Append(s, n + 1)
<1>1. n + 1 \in Points
    BY DEF Points
<1>2. /\ t \in Seq(Points)
      /\ Len(s) \in Nat /\ Len(t) = Len(s) + 1
      /\ t[Len(s) + 1] = n + 1
      /\ \A i \in 1..Len(s) : t[i] = s[i]
    BY <1>1, AppendProperties, LengthOfPoints
<1>3. DOMAIN t = 1..Len(t) /\ DOMAIN s = 1..Len(s) /\ DOMAIN r = 1..Len(r)
    BY <1>2, LenProperties
<1>4. ASSUME NEW i \in DOMAIN r, NEW j \in DOMAIN t
      PROVE  r[i] < t[j]
    <2>1. CASE j \in 1..Len(s)
        BY <1>2, <1>3, <2>1 DEF Before
    <2>2. CASE j = Len(s) + 1
        BY <1>2, <1>3, <2>2, ElementOfSeq DEF UpTo, Points
    <2> QED
        BY <1>2, <1>3, <2>1, <2>2
<1> QED
    BY <1>4 DEF Before

\* A bound on a sequence of points may be raised.
LEMMA UpToMonotone ==
    ASSUME NEW s \in Seq(Points), NEW m \in Nat, NEW n \in Nat, m <= n,
           UpTo(s, m)
    PROVE  UpTo(s, n)
<1>1. \A i \in 1..Len(s) : s[i] \in Nat
    BY ElementOfSeq DEF Points
<1> QED
    BY <1>1 DEF UpTo

\* The empty sequence is in order with everything.
LEMMA EmptyIsOrdered ==
    /\ Increasing(<<>>)
    /\ \A n : UpTo(<<>>, n)
    /\ \A s : Before(s, <<>>) /\ Before(<<>>, s)
<1>1. DOMAIN <<>> = {} /\ 1..Len(<<>>) = {}
    OBVIOUS
<1> QED
    BY <1>1 DEF Increasing, UpTo, Before

\* Newest is a number, and what it is at each control point.
LEMMA NewestValue ==
    ASSUME TypeOK, CallState, InHand
    PROVE  /\ Newest \in Nat /\ Newest <= issued
           /\ pc \notin {"adding", "sending"} => Newest = issued
           /\ Direct = <<>> => Newest = issued - Len(todo)
           /\ (pc = "sending" /\ ~sending.batched) =>
                 Newest = issued - Len(sending.points)
<1>1. issued \in Nat /\ Len(todo) \in Nat /\ Len(Direct) \in Nat
    BY LengthOfPoints, DirectType DEF TypeOK
<1>2. Len(todo) <= issued /\ Len(Direct) <= issued
    BY DEF InHand, LastOf
<1>3. todo = <<>> => Len(todo) = 0
    BY LengthOfPoints DEF TypeOK
<1>4. Direct = <<>> => Len(Direct) = 0
    BY LengthOfPoints, DirectType
<1>5. Direct = <<>> \/ todo = <<>>
    BY DirectType DEF CallState, Direct
<1>6. (pc = "sending" /\ ~sending.batched) =>
          todo = <<>> /\ Direct = sending.points
    BY DEF CallState, Direct
<1>7. pc \notin {"adding", "sending"} => todo = <<>> /\ Direct = <<>>
    BY DirectType DEF CallState
<1> QED
    BY <1>1, <1>2, <1>3, <1>4, <1>5, <1>6, <1>7 DEF Newest

\* Points become settled one at a time as a write queues them, and all at once
\* when an unbatched send ends or a send throws.
LEMMA NewestNext ==
    ASSUME TypeOK, CallState, InHand
    PROVE  /\ UNCHANGED vars => Newest' = Newest
           /\ (Next /\ pc \notin {"adding", "sending"}) => Newest' = Newest
           /\ addPointToBatch => Newest' = Newest + 1
           /\ sendReturns => Newest' = Newest + Len(Direct)
           /\ sendThrows => Newest' = issued
<1> USE PayloadFields
<1>a. /\ issued \in Nat /\ Len(todo) \in Nat /\ Len(Direct) \in Nat
      /\ Len(<<>>) = 0
    BY LengthOfPoints, DirectType DEF TypeOK
<1>b. ASSUME todo' = todo, sending' = sending, issued' = issued
      PROVE  Newest' = Newest
    BY <1>b DEF Newest, Direct
<1>c. ASSUME sending'.batched \/ sending' = NoPayload
      PROVE  Direct' = <<>>
    BY <1>c DEF Direct
<1>1. ASSUME UNCHANGED vars PROVE Newest' = Newest
    BY <1>1, <1>b DEF vars, control, history
<1>2. ASSUME Next, pc \notin {"adding", "sending"} PROVE Newest' = Newest
    <2>1. todo = <<>> /\ Direct = <<>> /\ sending = NoPayload
        BY <1>2, DirectType DEF CallState
    <2>2. ASSUME NEW n \in Nat, Hand(n) PROVE Newest' = Newest
        <3>1. Len(Fresh(n)) = n /\ issued' = issued + n
            BY <1>a, <2>2, FreshProperties DEF Hand
        <3>2. CASE mIsBatchingActivated
            <4>1. todo' = Fresh(n) /\ Direct' = <<>>
                BY <1>c, <2>1, <2>2, <3>2 DEF Hand
            <4> QED
                BY <1>a, <2>1, <3>1, <4>1 DEF Newest
        <3>3. CASE ~mIsBatchingActivated
            <4>1. todo' = <<>>
                BY <2>1, <2>2, <3>3 DEF Hand
            <4>2. sending' = Payload(Fresh(n), mGlobalTags, FALSE)
                BY <2>2, <3>3 DEF Hand, transmit
            <4>3. Direct' = Fresh(n)
                BY <4>2 DEF Direct
            <4> QED
                BY <1>a, <2>1, <3>1, <4>1, <4>3 DEF Newest
        <3> QED
            BY <3>2, <3>3
    <2>3. CASE flushBatch
        <3>1. Direct' = <<>>
            BY <1>c, <2>3 DEF flushBatch, transmit, joinLineProtocolBatch
        <3> QED
            BY <2>1, <2>3, <3>1 DEF flushBatch, history, Newest
    <2>4. CASE writeEmptyVector
        <3>1. Direct' = <<>>
            BY <1>c, <2>1, <2>4 DEF writeEmptyVector, transmit
        <3> QED
            BY <2>1, <2>4, <3>1 DEF writeEmptyVector, history, Newest
    <2>5. ~addPointToBatch /\ ~sendReturns /\ ~sendThrows
        BY <1>2 DEF addPointToBatch, sendReturns, sendThrows
    <2>6. CASE \E size \in BatchSizes : batchOf(size)
        BY <1>b, <2>6 DEF batchOf, control
    <2>7. CASE clearBatch
        BY <1>b, <2>7 DEF clearBatch, control
    <2>8. CASE \E tag \in Tags : addGlobalTag(tag)
        BY <1>b, <2>8 DEF addGlobalTag, control, history
    <2>9. CASE Destroy
        BY <1>b, <2>9 DEF Destroy
    <2>10. CASE writePoint \/ writeVector
        BY <2>2, <2>10, BoundsAreNaturals DEF writePoint, writeVector
    <2>11. CASE Ended
        BY <1>1, <2>11 DEF Ended
    <2> QED
        BY <1>2, <2>3, <2>4, <2>5, <2>6, <2>7, <2>8, <2>9, <2>10, <2>11
        DEF Next
<1>3. ASSUME addPointToBatch PROVE Newest' = Newest + 1
    <2>1. Direct = <<>> /\ sending = NoPayload
        BY <1>3, DirectType DEF addPointToBatch, CallState
    <2>4. Direct' = <<>>
        <3>1. CASE transmit(joinLineProtocolBatch(mPointBatch'))
            BY <1>c, <3>1 DEF transmit, joinLineProtocolBatch
        <3>2. CASE UNCHANGED sending
            BY <1>c, <2>1, <3>2
        <3> QED
            BY <1>3, <3>1, <3>2 DEF addPointToBatch
    <2>5. todo # <<>> /\ todo' = Tail(todo) /\ issued' = issued
        BY <1>3 DEF addPointToBatch
    <2>6. Len(todo') = Len(todo) - 1
        BY <2>5, TailOfPoints DEF TypeOK
    <2> QED
        BY <1>a, <2>1, <2>4, <2>5, <2>6 DEF Newest
<1>4. ASSUME sendReturns PROVE Newest' = Newest + Len(Direct)
    <2>1. Direct' = <<>> /\ todo' = todo /\ issued' = issued
        BY <1>4, <1>c DEF sendReturns
    <2> QED
        BY <1>a, <2>1 DEF Newest
<1>5. ASSUME sendThrows PROVE Newest' = issued
    <2>1. Direct' = <<>> /\ todo' = <<>> /\ issued' = issued
        BY <1>5, <1>c DEF sendThrows
    <2> QED
        BY <1>a, <2>1 DEF Newest
<1> QED
    BY <1>1, <1>2, <1>3, <1>4, <1>5

\* Every step keeps the accepted points before the batch, and both no further
\* than the newest settled point.
LEMMA OrderNext ==
    ASSUME TypeOK, CallState, InHand, Order, [Next]_vars
    PROVE  Order'
<1>a. Newest \in Nat /\ Newest <= issued /\ issued \in Nat
    BY NewestValue DEF TypeOK
<1>b. mPointBatch \in Seq(Points) /\ acked \in Seq(Points)
    BY DEF TypeOK
<1>c. ASSUME acked' = acked, mPointBatch' \in {mPointBatch, <<>>},
             Newest' \in Nat, Newest <= Newest'
      PROVE  Order'
    <2>1. UpTo(acked, Newest') /\ UpTo(mPointBatch, Newest')
        BY <1>a, <1>b, <1>c, UpToMonotone DEF Order
    <2>2. CASE mPointBatch' = mPointBatch
        BY <1>c, <2>1, <2>2 DEF Order
    <2>3. CASE mPointBatch' = <<>>
        BY <1>c, <2>1, <2>3, EmptyIsOrdered DEF Order
    <2> QED
        BY <1>c, <2>2, <2>3
<1>1. CASE UNCHANGED vars
    BY <1>1, <1>a, <1>c, NewestNext DEF vars, client, history
<1>2. CASE Next /\ pc \notin {"adding", "sending"}
    <2>1. ~addPointToBatch /\ ~sendReturns /\ ~sendThrows
        BY <1>2 DEF addPointToBatch, sendReturns, sendThrows
    <2>2. acked' = acked /\ mPointBatch' \in {mPointBatch, <<>>}
        BY <1>2, <2>1
        DEF Next, batchOf, clearBatch, addGlobalTag, Destroy, flushBatch,
            writePoint, writeVector, Hand, writeEmptyVector, Ended,
            vars, client, history
    <2> QED
        BY <1>2, <1>a, <1>c, <2>2, NewestNext
<1>3. CASE addPointToBatch
    <2>1. Newest' = Newest + 1 /\ Direct = <<>>
        BY <1>3, NewestNext, DirectType DEF addPointToBatch, CallState
    <2>2. Head(todo) = Newest + 1
        BY <1>3, <1>a, <2>1, NewestValue, LastOfTail, LengthOfPoints
        DEF addPointToBatch, InHand, TypeOK
    <2>3. mPointBatch' = Append(mPointBatch, Newest + 1) /\ acked' = acked
        BY <1>3, <2>2 DEF addPointToBatch
    <2>4. Increasing(mPointBatch') /\ UpTo(mPointBatch', Newest')
        BY <1>a, <1>b, <2>1, <2>3, IncreasingAppend DEF Order
    <2>5. UpTo(acked', Newest')
        BY <1>a, <1>b, <2>1, <2>3, UpToMonotone DEF Order
    <2>6. Before(acked', mPointBatch')
        BY <1>a, <1>b, <2>3, BeforeAppend DEF Order
    <2> QED
        BY <2>3, <2>4, <2>5, <2>6 DEF Order
<1>4. CASE sendReturns
    <2>1. CASE sending.batched
        <3>1. acked' = acked \o mPointBatch /\ mPointBatch' = <<>>
            BY <1>4, <2>1 DEF sendReturns, batchAfter, CallState
        <3>2. Newest' = Newest
            <4>1. Direct = <<>> /\ Len(Direct) = 0
                BY <2>1 DEF Direct
            <4> QED
                BY <1>4, <1>a, <4>1, NewestNext
        <3>3. Increasing(acked') /\ UpTo(acked', Newest')
            BY <1>a, <1>b, <3>1, <3>2, IncreasingConcat DEF Order
        <3> QED
            BY <3>1, <3>3, EmptyIsOrdered DEF Order
    <2>2. CASE ~sending.batched
        <3>1. Direct = sending.points /\ todo = <<>> /\ mPointBatch = <<>>
            BY <1>4, <2>2 DEF sendReturns, CallState, Direct
        <3>2. acked' = acked \o Direct /\ mPointBatch' = <<>>
            BY <1>4, <2>2, <3>1 DEF sendReturns, batchAfter
        <3>3. Direct \in Seq(Points) /\ Len(Direct) \in Nat
            BY DirectType, LengthOfPoints
        <3>4. Newest = issued - Len(Direct) /\ Newest' = issued
            BY <1>4, <1>a, <2>2, <3>1, <3>3, NewestValue, NewestNext
            DEF sendReturns
        <3>5. /\ Increasing(Direct) /\ UpTo(Direct, issued)
              /\ Before(acked, Direct)
            BY <1>a, <1>b, <3>3, <3>4, LastOfIncreasing DEF InHand, Order
        <3>6. UpTo(acked, issued)
            BY <1>a, <1>b, UpToMonotone DEF Order
        <3>7. Increasing(acked') /\ UpTo(acked', Newest')
            BY <1>a, <1>b, <3>2, <3>3, <3>4, <3>5, <3>6, IncreasingConcat
            DEF Order
        <3> QED
            BY <3>2, <3>7, EmptyIsOrdered DEF Order
    <2> QED
        BY <2>1, <2>2
<1>5. CASE sendThrows
    <2>1. acked' = acked /\ mPointBatch' = mPointBatch
        BY <1>5 DEF sendThrows, batchAfter, client
    <2> QED
        BY <1>5, <1>a, <1>c, <2>1, NewestNext
<1>6. CASE Next /\ pc \in {"adding", "sending"}
    <2>1. addPointToBatch \/ sendReturns \/ sendThrows
        BY <1>6
        DEF Next, batchOf, clearBatch, addGlobalTag, Destroy, flushBatch,
            writePoint, writeVector, Hand, writeEmptyVector, Ended
    <2> QED
        BY <2>1, <1>3, <1>4, <1>5
<1> QED
    BY <1>1, <1>2, <1>6

-----------------------------------------------------------------------------
(* What has become of each point.                                          *)

\* The members of sequences built by the steps of the client.
LEMMA RangeProperties ==
    ASSUME NEW s \in Seq(Points)
    PROVE  /\ Range(<<>>) = {}
           /\ \A e \in Points : Range(Append(s, e)) = Range(s) \union {e}
           /\ s # <<>> => Range(s) = {Head(s)} \union Range(Tail(s))
<1>1. Range(<<>>) = {}
    BY DEF Range
<1>2. Len(s) \in Nat /\ DOMAIN s = 1..Len(s)
    BY LengthOfPoints, LenProperties
<1>3. ASSUME NEW e \in Points
      PROVE  Range(Append(s, e)) = Range(s) \union {e}
    <2> DEFINE t == Append(s, e)
    <2>1. DOMAIN t = 1..(Len(s) + 1) /\ t[Len(s) + 1] = e
        BY AppendProperties, LenProperties
    <2>2. \A i \in 1..Len(s) : t[i] = s[i]
        BY AppendProperties
    <2>3. \A i \in 1..(Len(s) + 1) : i \in 1..Len(s) \/ i = Len(s) + 1
        BY <1>2
    <2>4. Len(s) + 1 \in 1..(Len(s) + 1) /\ 1..Len(s) \subseteq 1..(Len(s) + 1)
        BY <1>2
    <2> HIDE DEF t
    <2> QED
        BY <1>2, <2>1, <2>2, <2>3, <2>4 DEF Range, t
<1>4. ASSUME s # <<>>
      PROVE  Range(s) = {Head(s)} \union Range(Tail(s))
    <2> DEFINE t == Tail(s)
    <2>1. t \in Seq(Points) /\ Len(t) = Len(s) - 1 /\ Head(s) = s[1]
        BY <1>4, TailOfPoints
    <2>2. \A i \in 1..Len(t) : t[i] = s[i + 1]
        BY <1>4, TailOfPoints
    <2>3. DOMAIN t = 1..Len(t)
        BY <2>1, LenProperties
    <2>4. 1 \in 1..Len(s) /\ \A i \in 1..Len(t) : i + 1 \in 1..Len(s)
        BY <1>2, <1>4, <2>1, LengthOfPoints
    <2>5. \A i \in 1..Len(s) : i = 1 \/ i - 1 \in 1..Len(t)
        BY <1>2, <2>1
    <2> HIDE DEF t
    <2>6. ASSUME NEW i \in 1..Len(s)
          PROVE  s[i] \in {Head(s)} \union Range(t)
        <3>1. CASE i = 1
            BY <2>1, <3>1
        <3>2. CASE i - 1 \in 1..Len(t)
            <4>1. t[i - 1] = s[i]
                BY <2>2, <3>2
            <4> QED
                BY <2>3, <3>2, <4>1 DEF Range
        <3> QED
            BY <2>5, <3>1, <3>2
    <2>7. Range(t) \subseteq Range(s) /\ Head(s) \in Range(s)
        BY <1>2, <2>1, <2>2, <2>3, <2>4 DEF Range
    <2> QED
        BY <1>2, <2>6, <2>7 DEF Range, t
<1> QED
    BY <1>1, <1>3, <1>4

\* Where the members of the sequences of the client lie.
LEMMA RangeBounds ==
    ASSUME NEW s \in Seq(Points), NEW n \in Nat
    PROVE  /\ UpTo(s, n) => \A p \in Range(s) : p \in 1..n
           /\ LastOf(s, n) =>
                 \A p \in 1..n : p \in Range(s) <=> p > n - Len(s)
           /\ LastOf(s, n) => \A p \in Range(s) : p \in 1..n
<1>1. Len(s) \in Nat /\ DOMAIN s = 1..Len(s)
    BY LengthOfPoints, LenProperties
<1>2. \A p \in Range(s) : p \in Points /\ \E i \in 1..Len(s) : p = s[i]
    BY <1>1, RangeOfSeq DEF Range
<1>3. ASSUME UpTo(s, n), NEW p \in Range(s) PROVE p \in 1..n
    BY <1>1, <1>2, <1>3 DEF UpTo, Points
<1>4. ASSUME LastOf(s, n), NEW p \in Range(s)
      PROVE  p \in 1..n /\ p > n - Len(s)
    BY <1>1, <1>2, <1>4 DEF LastOf
<1>5. ASSUME LastOf(s, n), NEW p \in 1..n, p > n - Len(s)
      PROVE  p \in Range(s)
    <2>1. p - (n - Len(s)) \in 1..Len(s)
        BY <1>1, <1>5
    <2>2. s[p - (n - Len(s))] = p
        BY <1>1, <1>5, <2>1 DEF LastOf
    <2> QED
        BY <1>1, <2>1, <2>2 DEF Range
<1> QED
    BY <1>3, <1>4, <1>5

\* Every step leaves every point in exactly one place, and in the place its
\* fate says.
LEMMA ConservationNext ==
    ASSUME TypeOK, CallState, InHand, Order, Conservation, [Next]_vars
    PROVE  Conservation'
<1> DEFINE Held == Range(mPointBatch) \union Range(todo) \union Range(Direct)
<1>a. /\ issued \in Nat /\ Newest \in Nat /\ Newest <= issued
      /\ mPointBatch \in Seq(Points) /\ acked \in Seq(Points)
      /\ todo \in Seq(Points) /\ Direct \in Seq(Points)
      /\ sending.points \in Seq(Points)
    BY NewestValue, DirectType DEF TypeOK
<1>b. Range(<<>>) = {}
    BY RangeProperties, <1>a
<1>c. \A p \in Range(mPointBatch) \union Range(acked) : p \in 1..Newest
    BY <1>a, RangeBounds DEF Order
<1>d. ASSUME issued' = issued, fate' = fate, acked' = acked, Held' = Held
      PROVE  Conservation'
    BY <1>d DEF Conservation
<1>e. pc \notin {"adding", "sending"} => todo = <<>> /\ Direct = <<>>
    BY DirectType DEF CallState
<1>f. ASSUME sending'.batched \/ sending' = NoPayload
      PROVE  Direct' = <<>>
    BY <1>f, PayloadFields DEF Direct
<1>g. ASSUME mPointBatch' = mPointBatch, todo' = todo, sending' = sending
      PROVE  Held' = Held
    BY <1>g DEF Direct
<1>h. \A ps : \A f \in Fates : \A p \in 1..issued :
          Settle(ps, f)[p] = IF p \in ps THEN f ELSE fate[p]
    BY SettleProperties DEF TypeOK
<1>1. CASE UNCHANGED vars
    BY <1>1, <1>d, <1>g DEF vars, client, control, history
<1>2. ASSUME NEW size \in BatchSizes, batchOf(size) PROVE Conservation'
    BY <1>2, <1>d, <1>g DEF batchOf, control
<1>3. ASSUME NEW f \in {"cleared", "dropped"}, pc = "idle",
             fate' = Settle(Range(mPointBatch), f), mPointBatch' = <<>>,
             todo' = todo, sending' = sending, issued' = issued,
             acked' = acked
      PROVE  Conservation'
    <2>1. Held = Range(mPointBatch) /\ Held' = {}
        BY <1>b, <1>e, <1>3 DEF Direct
    <2>2. \A p \in 1..issued :
              fate'[p] = IF p \in Range(mPointBatch) THEN f ELSE fate[p]
        BY <1>3, <1>h DEF Fates
    <2> HIDE DEF Held
    <2>3. \A p \in 1..issued : (fate[p] = "held" <=> p \in Held)
                               /\ (fate[p] = "acked" <=> p \in Range(acked))
        BY DEF Conservation, Held
    <2>4. ASSUME NEW p \in 1..issued'
          PROVE  /\ fate'[p] = "held" <=> p \in Held'
                 /\ fate'[p] = "acked" <=> p \in Range(acked')
        BY <1>3, <2>1, <2>2, <2>3
    <2> QED
        BY <2>4 DEF Conservation, Held
<1>4. CASE clearBatch
    BY <1>3, <1>4 DEF clearBatch, control
<1>5. ASSUME NEW tag \in Tags, addGlobalTag(tag) PROVE Conservation'
    BY <1>5, <1>d, <1>g DEF addGlobalTag, control, history
<1>6. CASE Destroy
    BY <1>3, <1>6 DEF Destroy
<1>7. CASE flushBatch
    <2>1. Direct = <<>> /\ Direct' = <<>>
        BY <1>7, <1>e, <1>f, PayloadFields
        DEF flushBatch, transmit, joinLineProtocolBatch
    <2> QED
        BY <1>7, <1>d, <2>1 DEF flushBatch, client, history
<1>8. ASSUME NEW n \in Nat, Hand(n) PROVE Conservation'
    <2>1. /\ todo = <<>> /\ Direct = <<>> /\ sending = NoPayload
          /\ Held = Range(mPointBatch)
        BY <1>8, <1>b, <1>e DEF Hand, CallState
    <2>2. Held' = Range(mPointBatch) \union Range(Fresh(n))
        <3>1. mPointBatch' = mPointBatch
            BY <1>8 DEF Hand, client
        <3>2. CASE mIsBatchingActivated
            <4>1. todo' = Fresh(n) /\ Direct' = <<>>
                BY <1>8, <1>f, <2>1, <3>2 DEF Hand
            <4> QED
                BY <1>b, <3>1, <4>1
        <3>3. CASE ~mIsBatchingActivated
            <4>1. todo' = <<>>
                BY <1>8, <2>1, <3>3 DEF Hand
            <4>2. sending' = Payload(Fresh(n), mGlobalTags, FALSE)
                BY <1>8, <3>3 DEF Hand, transmit
            <4>3. Direct' = Fresh(n)
                BY <4>2, PayloadFields DEF Direct
            <4> QED
                BY <1>b, <3>1, <4>1, <4>3
        <3> QED
            BY <3>2, <3>3
    <2>3. \A p \in 1..(issued + n) : p \in Range(Fresh(n)) <=> p > issued
        <3>1. LastOf(Fresh(n), issued + n) /\ Fresh(n) \in Seq(Points)
              /\ Len(Fresh(n)) = n
            BY <1>a, LastOfBasics, FreshProperties
        <3>2. \A p \in 1..(issued + n) :
                  p \in Range(Fresh(n)) <=> p > issued + n - n
            BY <1>a, <3>1, RangeBounds
        <3> QED
            BY <1>a, <3>2
    <2>4. issued' = issued + n /\ acked' = acked
        BY <1>8 DEF Hand
    <2>5. \A p \in 1..(issued + n) :
              fate'[p] = IF p <= issued THEN fate[p] ELSE "held"
        BY <1>8 DEF Hand
    <2> HIDE DEF Held
    <2>6. ASSUME NEW p \in 1..issued'
          PROVE  /\ fate'[p] = "held" <=> p \in Held'
                 /\ fate'[p] = "acked" <=> p \in Range(acked')
        <3>1. CASE p <= issued
            <4>1. p \in 1..issued /\ fate'[p] = fate[p]
                BY <1>a, <2>4, <2>5, <3>1
            <4>2. p \in Held' <=> p \in Held
                BY <1>a, <2>1, <2>2, <2>3, <2>4, <3>1
            <4> QED
                BY <2>4, <4>1, <4>2 DEF Conservation, Held
        <3>2. CASE ~(p <= issued)
            <4>1. p > issued /\ p \notin Range(acked)
                BY <1>a, <1>c, <2>4, <3>2
            <4>2. fate'[p] = "held"
                BY <2>4, <2>5, <3>2
            <4>3. p \in Held'
                BY <2>2, <2>3, <2>4, <4>1
            <4> QED
                BY <2>4, <4>1, <4>2, <4>3
        <3> QED
            BY <3>1, <3>2
    <2> QED
        BY <2>6 DEF Conservation, Held
<1>9. CASE writePoint \/ writeVector
    BY <1>8, <1>9, BoundsAreNaturals DEF writePoint, writeVector
<1>10. CASE writeEmptyVector
    <2>1. Direct = <<>> /\ Direct' = <<>>
        <3>1. Direct = <<>> /\ sending = NoPayload
            BY <1>10, <1>e DEF writeEmptyVector, CallState
        <3>2. sending' = NoPayload
            BY <1>10, <3>1 DEF writeEmptyVector, transmit
        <3> QED
            BY <1>f, <3>1, <3>2
    <2> QED
        BY <1>10, <1>d, <2>1 DEF writeEmptyVector, client, history
<1>11. CASE addPointToBatch
    <2>1. Direct = <<>> /\ sending = NoPayload
        BY <1>11, DirectType DEF addPointToBatch, CallState
    <2>2. Direct' = <<>>
        <3>1. CASE transmit(joinLineProtocolBatch(mPointBatch'))
            BY <1>f, <3>1, PayloadFields DEF transmit, joinLineProtocolBatch
        <3>2. CASE UNCHANGED sending
            BY <1>f, <2>1, <3>2
        <3> QED
            BY <1>11, <3>1, <3>2 DEF addPointToBatch
    <2>3. todo # <<>> /\ todo' = Tail(todo)
          /\ mPointBatch' = Append(mPointBatch, Head(todo))
        BY <1>11 DEF addPointToBatch
    <2>4. /\ Range(mPointBatch') = Range(mPointBatch) \union {Head(todo)}
          /\ Range(todo) = {Head(todo)} \union Range(todo')
        BY <1>a, <2>3, RangeProperties, TailOfPoints
    <2>5. Held' = Held
        BY <2>1, <2>2, <2>4
    <2> QED
        BY <1>11, <1>d, <2>5 DEF addPointToBatch
<1>12. CASE sendReturns
    <2>1. Direct' = <<>> /\ todo' = todo /\ issued' = issued
        BY <1>12, <1>f DEF sendReturns
    <2>2. Range(acked') = Range(acked) \union Range(sending.points)
        BY <1>12, <1>a, RangeConcatenation DEF sendReturns
    <2>3. Held = Range(sending.points) \union Range(todo) /\ Held' = Range(todo)
        <3>1. CASE sending.batched
            BY <1>12, <1>b, <2>1, <3>1
            DEF sendReturns, batchAfter, CallState, Direct
        <3>2. CASE ~sending.batched
            BY <1>12, <1>b, <2>1, <3>2
            DEF sendReturns, batchAfter, CallState, Direct
        <3> QED
            BY <3>1, <3>2
    <2>4. \A p \in Range(sending.points) : p \notin Range(todo)
        <3>1. CASE sending.batched
            <4>1. sending.points = mPointBatch /\ Direct = <<>>
                BY <1>12, <3>1 DEF sendReturns, CallState, Direct
            <4>2. Newest = issued - Len(todo) /\ Len(todo) \in Nat
                BY <1>a, <4>1, NewestValue, LengthOfPoints
            <4>3. \A p \in Range(todo) : p \in 1..issued /\ p > Newest
                BY <1>a, <4>2, RangeBounds DEF InHand
            <4> QED
                BY <1>a, <1>c, <4>1, <4>3
        <3>2. CASE ~sending.batched
            BY <1>12, <1>b, <3>2 DEF sendReturns, CallState
        <3> QED
            BY <3>1, <3>2
    <2>5. \A p \in 1..issued :
              fate'[p] = IF p \in Range(sending.points) THEN "acked" ELSE fate[p]
        BY <1>12, <1>h DEF Fates, sendReturns
    <2> HIDE DEF Held
    <2>6. ASSUME NEW p \in 1..issued'
          PROVE  /\ fate'[p] = "held" <=> p \in Held'
                 /\ fate'[p] = "acked" <=> p \in Range(acked')
        <3>1. /\ fate[p] = "held" <=> p \in Held
              /\ fate[p] = "acked" <=> p \in Range(acked)
            BY <2>1 DEF Conservation, Held
        <3> QED
            BY <2>1, <2>2, <2>3, <2>4, <2>5, <3>1
    <2> QED
        BY <2>6 DEF Conservation, Held
<1>13. CASE sendThrows
    <2> DEFINE Gone == IF sending.batched THEN Range(todo)
                                          ELSE Range(sending.points)
    <2>1. /\ Direct' = <<>> /\ todo' = <<>> /\ issued' = issued
          /\ acked' = acked /\ mPointBatch' = mPointBatch
        BY <1>13, <1>f DEF sendThrows, batchAfter, client
    <2>2. Held = Range(mPointBatch) \union Gone /\ Held' = Range(mPointBatch)
        <3>1. CASE sending.batched
            BY <1>13, <1>b, <2>1, <3>1 DEF sendThrows, CallState, Direct
        <3>2. CASE ~sending.batched
            BY <1>13, <1>b, <2>1, <3>2 DEF sendThrows, CallState, Direct
        <3> QED
            BY <3>1, <3>2
    <2>3. \A p \in Range(mPointBatch) : p \notin Gone
        <3>1. CASE sending.batched
            <4>1. Newest = issued - Len(todo) /\ Len(todo) \in Nat
                BY <1>a, <3>1, NewestValue, LengthOfPoints DEF Direct
            <4>2. \A p \in Range(todo) : p \in 1..issued /\ p > Newest
                BY <1>a, <4>1, RangeBounds DEF InHand
            <4> QED
                BY <1>a, <1>c, <3>1, <4>2
        <3>2. CASE ~sending.batched
            BY <1>13, <1>b, <3>2 DEF sendThrows, CallState
        <3> QED
            BY <3>1, <3>2
    <2>4. PICK f \in {"abandoned", "lost"} : fate' = Settle(Gone, f)
        BY <1>13 DEF sendThrows
    <2>5. \A p \in 1..issued : fate'[p] = IF p \in Gone THEN f ELSE fate[p]
        BY <2>4, <1>h DEF Fates
    <2> HIDE DEF Held, Gone
    <2>6. ASSUME NEW p \in 1..issued'
          PROVE  /\ fate'[p] = "held" <=> p \in Held'
                 /\ fate'[p] = "acked" <=> p \in Range(acked')
        <3>1. /\ fate[p] = "held" <=> p \in Held
              /\ fate[p] = "acked" <=> p \in Range(acked)
            BY <2>1 DEF Conservation, Held
        <3> QED
            BY <2>1, <2>2, <2>3, <2>5, <3>1
    <2> QED
        BY <2>6 DEF Conservation, Held
<1>14. CASE Ended
    BY <1>1, <1>14 DEF Ended
<1> QED
    BY <1>1, <1>2, <1>4, <1>5, <1>6, <1>7, <1>9, <1>10, <1>11, <1>12, <1>13,
       <1>14 DEF Next

-----------------------------------------------------------------------------
(* The invariant and what follows from it.                                 *)

\* A new client has no point in hand.
LEMMA NewestInit == Init => Newest = 0 /\ Direct = <<>>
<1> SUFFICES ASSUME Init PROVE Newest = 0 /\ Direct = <<>>
    OBVIOUS
<1>1. Direct = <<>> /\ todo = <<>> /\ issued = 0
    BY PayloadFields DEF Init, Direct
<1>2. \A s : s = <<>> => Len(s) = 0
    OBVIOUS
<1>3. Len(Direct) = 0 /\ Len(todo) = 0 /\ issued = 0
    BY <1>1, <1>2
<1>4. issued - Len(todo) - Len(Direct) = 0
    <2>1. \A i, j, k : i = 0 /\ j = 0 /\ k = 0 => i - j - k = 0
        OBVIOUS
    <2> QED
        BY <1>3, <2>1
<1> QED
    BY <1>1, <1>4 DEF Newest

\* A new client satisfies the inductive invariant.
LEMMA IInvInit == Init => IInv
<1> SUFFICES ASSUME Init PROVE IInv
    OBVIOUS
<1>1. TypeOK
    BY TypeOKInit
<1>2. Direct = <<>> /\ Newest = 0
    BY NewestInit
<1>4. CallState
    BY DEF Init, CallState
<1>5. InHand
    BY <1>2, LastOfBasics DEF Init, InHand
<1>6. Order
    BY EmptyIsOrdered DEF Init, Order
<1>7. Conservation
    BY DEF Init, Conservation
<1> QED
    BY <1>1, <1>4, <1>5, <1>6, <1>7 DEF IInv

LEMMA IInvNext == IInv /\ [Next]_vars => IInv'
BY TypeOKNext, CallStateNext, InHandNext, OrderNext, ConservationNext
DEF IInv

\* The inductive invariant holds in every reachable state.
THEOREM InvariantHolds == Spec => []IInv
<1> QED
    BY IInvInit, IInvNext, PTL DEF Spec

\* No point is lost sight of, and none is in two places, whatever the sizes,
\* vectors and failing sends: Conservation for every number of points.
THEOREM PointsAreConserved == Spec => []Conservation
<1>1. IInv => Conservation
    BY DEF IInv
<1> QED
    BY <1>1, InvariantHolds, PTL

\* The inductive invariant implies the order of points.
LEMMA InOrder == IInv => FirstInFirstOut
<1> SUFFICES ASSUME IInv PROVE FirstInFirstOut
    OBVIOUS
<1>1. /\ todo \in Seq(Points) /\ Direct \in Seq(Points) /\ issued \in Nat
      /\ acked \in Seq(Points) /\ mPointBatch \in Seq(Points)
    BY DirectType DEF IInv, TypeOK
<1>2. Len(<<>>) = 0
    OBVIOUS
<1>3. Direct = <<>> \/ todo = <<>>
    BY DirectType DEF IInv, CallState, Direct
<1>4. Direct = <<>> => Newest = issued - Len(todo)
    BY NewestValue DEF IInv
<1>5. todo = <<>> => Newest = issued - Len(Direct)
    BY <1>1, <1>2, LengthOfPoints DEF Newest
<1>6. ASSUME NEW s \in {todo, Direct}
      PROVE  Increasing(s) /\ Before(acked, s) /\ Before(mPointBatch, s)
    <2>1. CASE s = <<>>
        BY <2>1, EmptyIsOrdered
    <2>2. CASE s # <<>>
        <3>1. Newest = issued - Len(s) /\ LastOf(s, issued) /\ s \in Seq(Points)
            <4>1. CASE s = todo
                BY <1>1, <1>3, <1>4, <2>2, <4>1 DEF IInv, InHand
            <4>2. CASE s = Direct
                BY <1>1, <1>3, <1>5, <2>2, <4>2 DEF IInv, InHand
            <4> QED
                BY <1>6, <4>1, <4>2
        <3>2. UpTo(acked, issued - Len(s)) /\ UpTo(mPointBatch, issued - Len(s))
            BY <3>1 DEF IInv, Order
        <3> QED
            BY <1>1, <3>1, <3>2, LastOfIncreasing
    <2> QED
        BY <2>1, <2>2
<1> QED
    BY <1>6 DEF IInv, Order, FirstInFirstOut

\* Points are accepted in the order they were written and each once.
THEOREM FirstInFirstOutHolds == Spec => []FirstInFirstOut
<1> QED
    BY InOrder, InvariantHolds, PTL

-----------------------------------------------------------------------------
(* The client implements the abstract writer.                              *)

\* Consecutive points behind p are what the abstract writer calls Following.
LEMMA LastOfIsFollowing ==
    ASSUME NEW s \in Seq(Points), NEW n \in Nat, LastOf(s, n)
    PROVE  s = Writer!Following(n - Len(s), Len(s))
<1>1. Len(s) \in Nat /\ DOMAIN s = 1..Len(s) /\ s \in [1..Len(s) -> Points]
    BY LengthOfPoints, LenProperties
<1>2. \A i \in 1..Len(s) : s[i] = (n - Len(s)) + i
    BY <1>1 DEF LastOf
<1> QED
    BY <1>1, <1>2 DEF Writer!Following

\* Every step of the client is a step of the abstract writer, or leaves what
\* the abstract writer shows unchanged.
LEMMA StepRefines == IInv /\ [Next]_vars => [Writer!Next]_(Writer!vars)
<1> SUFFICES ASSUME IInv, [Next]_vars
             PROVE  [Writer!Next]_(Writer!vars)
    OBVIOUS
<1> USE DEF IInv
<1>a. Newest \in Nat /\ Newest <= issued /\ issued \in Nat
    BY NewestValue DEF TypeOK
<1>b. ASSUME Newest' = Newest, mPointBatch' = mPointBatch, acked' = acked
      PROVE  UNCHANGED Writer!vars
    BY <1>b DEF Writer!vars
<1>1. CASE UNCHANGED vars
    BY <1>1, <1>b, NewestNext DEF vars, client, history
<1>2. CASE Next /\ pc \notin {"adding", "sending"}
    <2>1. ~addPointToBatch /\ ~sendReturns /\ ~sendThrows
        BY <1>2 DEF addPointToBatch, sendReturns, sendThrows
    <2>2. acked' = acked /\ mPointBatch' \in {mPointBatch, <<>>}
        BY <1>2, <2>1
        DEF Next, batchOf, clearBatch, addGlobalTag, Destroy, flushBatch,
            writePoint, writeVector, Hand, writeEmptyVector, Ended,
            vars, client, history
    <2>3. Newest' = Newest
        BY <1>2, NewestNext
    <2>4. CASE mPointBatch' = mPointBatch
        BY <1>b, <2>2, <2>3, <2>4
    <2>5. CASE mPointBatch' = <<>>
        <3>1. Writer!Discard
            BY <2>2, <2>3, <2>5 DEF Writer!Discard
        <3> QED
            BY <3>1 DEF Writer!Next
    <2> QED
        BY <2>2, <2>4, <2>5
<1>3. CASE addPointToBatch
    <2>1. Newest' = Newest + 1 /\ Direct = <<>>
        BY <1>3, NewestNext, DirectType DEF addPointToBatch, CallState
    <2>2. Head(todo) = Newest + 1
        BY <1>3, <1>a, <2>1, NewestValue, LastOfTail, LengthOfPoints
        DEF addPointToBatch, InHand, TypeOK
    <2>3. Writer!Enqueue
        BY <1>3, <2>1, <2>2 DEF addPointToBatch, Writer!Enqueue
    <2> QED
        BY <2>3 DEF Writer!Next
<1>4. CASE sendReturns
    <2>1. CASE sending.batched
        <3>1. acked' = acked \o mPointBatch /\ mPointBatch' = <<>>
            BY <1>4, <2>1 DEF sendReturns, batchAfter, CallState
        <3>2. Newest' = Newest
            <4>1. Direct = <<>> /\ Len(Direct) = 0
                BY <2>1 DEF Direct
            <4> QED
                BY <1>4, <1>a, <4>1, NewestNext
        <3>3. Writer!Deliver
            BY <3>1, <3>2 DEF Writer!Deliver
        <3> QED
            BY <3>3 DEF Writer!Next
    <2>2. CASE ~sending.batched
        <3>1. Direct = sending.points /\ todo = <<>> /\ mPointBatch = <<>>
            BY <1>4, <2>2 DEF sendReturns, CallState, Direct
        <3>2. acked' = acked \o Direct /\ mPointBatch' = <<>>
            BY <1>4, <2>2, <3>1 DEF sendReturns, batchAfter
        <3>3. Direct \in Seq(Points) /\ Len(Direct) \in Nat
            BY DirectType, LengthOfPoints
        <3>4. Newest' = Newest + Len(Direct)
            BY <1>4, NewestNext
        <3>5. CASE Direct = <<>>
            <4>1. acked' = acked /\ Len(Direct) = 0
                BY <3>2, <3>5, ConcatEmptySeq DEF TypeOK
            <4> QED
                BY <1>a, <1>b, <3>1, <3>2, <3>4, <4>1
        <3>6. CASE Direct # <<>>
            <4>1. Len(Direct) > 0
                BY <3>3, <3>6, LengthOfPoints
            <4>2. Newest = issued - Len(Direct)
                BY <1>4, <2>2, <3>1, NewestValue DEF sendReturns
            <4>3. Direct = Writer!Following(Newest, Len(Direct))
                BY <1>a, <3>3, <4>2, LastOfIsFollowing DEF InHand
            <4>4. Newest' - Newest = Len(Direct)
                BY <1>a, <3>3, <3>4
            <4>5. acked' = acked \o Writer!Following(Newest, Newest' - Newest)
                BY <3>2, <4>3, <4>4
            <4>6. Newest' \in Nat /\ Newest' > Newest
                BY <1>a, <3>3, <3>4, <4>1
            <4>7. Writer!DeliverDirectly
                BY <3>1, <3>2, <4>5, <4>6 DEF Writer!DeliverDirectly
            <4> QED
                BY <4>7 DEF Writer!Next
        <3> QED
            BY <3>5, <3>6
    <2> QED
        BY <2>1, <2>2
<1>5. CASE sendThrows
    <2>1. acked' = acked /\ mPointBatch' = mPointBatch /\ Newest' = issued
        BY <1>5, NewestNext DEF sendThrows, batchAfter, client
    <2>2. CASE Newest = issued
        BY <1>b, <2>1, <2>2
    <2>3. CASE Newest # issued
        <3>1. Writer!Skip
            BY <1>a, <2>1, <2>3 DEF Writer!Skip
        <3> QED
            BY <3>1 DEF Writer!Next
    <2> QED
        BY <2>2, <2>3
<1>6. CASE Next /\ pc \in {"adding", "sending"}
    <2>1. addPointToBatch \/ sendReturns \/ sendThrows
        <3>1. CASE Ended
            BY <1>6, <3>1 DEF Ended
        <3> QED
            BY <1>6, <3>1
            DEF Next, batchOf, clearBatch, addGlobalTag, Destroy, flushBatch,
                writePoint, writeVector, Hand, writeEmptyVector
    <2> QED
        BY <2>1, <1>3, <1>4, <1>5
<1> QED
    BY <1>1, <1>2, <1>6

\* The client is a BufferedWriter: delivered in order and at most once, the
\* queue as a whole, and losing points only as the abstract writer may.
THEOREM ClientImplementsWriter == Spec => IsBufferedWriter
<1>1. Init => Writer!Init
    <2> SUFFICES ASSUME Init PROVE Writer!Init
        OBVIOUS
    <2> QED
        BY NewestInit DEF Init, Writer!Init
<1> QED
    BY <1>1, StepRefines, InvariantHolds, PTL
    DEF Spec, IsBufferedWriter, Writer!Spec

-----------------------------------------------------------------------------
(* What has become of a point is final.                                    *)

\* The members of the sequences of the client are points issued; those of the
\* batch, of the loop and of an unbatched send are held.
LEMMA MembersOfSequences ==
    ASSUME IInv
    PROVE  /\ \A p \in Range(mPointBatch) \union Range(todo) \union Range(Direct) :
                 p \in 1..issued /\ fate[p] = "held"
           /\ Range(sending.points) \subseteq
                 Range(mPointBatch) \union Range(Direct)
<1>1. /\ issued \in Nat /\ Newest \in Nat /\ Newest <= issued
      /\ mPointBatch \in Seq(Points) /\ todo \in Seq(Points)
      /\ Direct \in Seq(Points)
    BY NewestValue, DirectType DEF IInv, TypeOK
<1>2. \A p \in Range(mPointBatch) : p \in 1..Newest
    BY <1>1, RangeBounds DEF IInv, Order
<1>3. \A p \in Range(todo) \union Range(Direct) : p \in 1..issued
    BY <1>1, RangeBounds DEF IInv, InHand
<1>4. \A p \in Range(mPointBatch) \union Range(todo) \union Range(Direct) :
          p \in 1..issued
    BY <1>1, <1>2, <1>3
<1>5. Range(sending.points) \subseteq Range(mPointBatch) \union Range(Direct)
    <2>1. CASE pc = "sending"
        BY <2>1 DEF IInv, CallState, Direct
    <2>2. CASE pc # "sending"
        BY <2>2, PayloadFields DEF IInv, CallState, Range
    <2> QED
        BY <2>1, <2>2
<1> QED
    BY <1>4, <1>5 DEF IInv, Conservation

\* A step gives a new fate to points that are held, and to no others.
LEMMA FateIsFinal ==
    ASSUME IInv, [Next]_vars
    PROVE  /\ issued \in Nat /\ issued' \in Nat /\ issued <= issued'
           /\ \A p \in 1..issued : fate[p] # "held" => fate'[p] = fate[p]
<1>a. issued \in Nat /\ fate \in [1..issued -> Fates]
    BY DEF IInv, TypeOK
<1>b. \A p \in 1..issued : fate[p] # "held" =>
          p \notin Range(mPointBatch) \union Range(todo) \union Range(sending.points)
    BY MembersOfSequences
<1>c. ASSUME NEW ps, NEW f, fate' = Settle(ps, f), issued' = issued,
             \A p \in 1..issued : fate[p] # "held" => p \notin ps
      PROVE  \A p \in 1..issued : fate[p] # "held" => fate'[p] = fate[p]
    BY <1>c DEF Settle
<1>1. CASE UNCHANGED vars
    BY <1>1, <1>a DEF vars, history
<1>2. ASSUME NEW size \in BatchSizes, batchOf(size)
      PROVE  UNCHANGED <<issued, fate>>
    BY <1>2 DEF batchOf
<1>3. CASE clearBatch
    BY <1>3, <1>a, <1>b, <1>c DEF clearBatch
<1>4. CASE \E tag \in Tags : addGlobalTag(tag)
    BY <1>4, <1>a DEF addGlobalTag, history
<1>5. CASE Destroy
    BY <1>5, <1>a, <1>b, <1>c DEF Destroy
<1>6. CASE flushBatch \/ writeEmptyVector
    BY <1>6, <1>a DEF flushBatch, writeEmptyVector, history
<1>7. ASSUME NEW n \in Nat, Hand(n)
      PROVE  /\ issued' \in Nat /\ issued <= issued'
             /\ \A p \in 1..issued : fate[p] # "held" => fate'[p] = fate[p]
    <2>1. issued' = issued + n
        BY <1>7 DEF Hand
    <2>2. \A p \in 1..issued : p \in 1..(issued + n)
        BY <1>a
    <2>3. \A p \in 1..issued : fate'[p] = fate[p]
        BY <1>7, <1>a, <2>2 DEF Hand
    <2> QED
        BY <1>a, <2>1, <2>3
<1>8. ASSUME writePoint \/ writeVector
      PROVE  \E n \in Nat : Hand(n)
    BY <1>8, BoundsAreNaturals DEF writePoint, writeVector
<1>9. CASE addPointToBatch
    BY <1>9, <1>a DEF addPointToBatch
<1>10. CASE sendReturns
    BY <1>10, <1>a, <1>b, <1>c DEF sendReturns
<1>11. CASE sendThrows
    <2>1. CASE sending.batched
        BY <1>11, <1>a, <1>b, <1>c, <2>1 DEF sendThrows
    <2>2. CASE ~sending.batched
        BY <1>11, <1>a, <1>b, <1>c, <2>2 DEF sendThrows
    <2> QED
        BY <2>1, <2>2
<1>12. CASE Ended
    BY <1>1, <1>12 DEF Ended
<1> QED
    BY <1>1, <1>2, <1>3, <1>4, <1>5, <1>6, <1>7, <1>8, <1>9, <1>10, <1>11, <1>12,
       <1>a DEF Next

-----------------------------------------------------------------------------
(* Full batches.                                                           *)

\* Between calls, a full batch is one that the transport has just refused or
\* that batchOf has overtaken, and every step keeps it so.
LEMMA FullBatchNext ==
    ASSUME IInv, FullBatchWasTried, [Next]_vars
    PROVE  FullBatchWasTried'
<1>1. CASE UNCHANGED vars
    BY <1>1 DEF FullBatchWasTried, vars, client, control, history
<1>2. ASSUME NEW size \in BatchSizes, batchOf(size)
      PROVE  FullBatchWasTried'
    BY <1>2 DEF FullBatchWasTried, batchOf
<1>3. CASE clearBatch \/ Destroy
    BY <1>3 DEF FullBatchWasTried, clearBatch, Destroy
<1>4. CASE \E tag \in Tags : addGlobalTag(tag)
    BY <1>4 DEF FullBatchWasTried, addGlobalTag, control, history
<1>5. CASE flushBatch \/ writeEmptyVector
    BY <1>5 DEF FullBatchWasTried, flushBatch, writeEmptyVector, transmit
<1>6. ASSUME NEW n \in Nat, Hand(n) PROVE FullBatchWasTried'
    BY <1>6 DEF FullBatchWasTried, Hand, transmit
<1>7. CASE writePoint \/ writeVector
    BY <1>6, <1>7, BoundsAreNaturals DEF writePoint, writeVector
<1>8. CASE addPointToBatch
    <2>1. CASE pc' = "sending"
        BY <2>1 DEF FullBatchWasTried
    <2>2. CASE ~isFull(mPointBatch')
        BY <1>8, <2>2 DEF FullBatchWasTried, isFull, addPointToBatch
    <2> QED
        BY <1>8, <2>1, <2>2 DEF addPointToBatch, transmit
<1>9. CASE sendReturns
    <2>1. mPointBatch' = <<>>
        BY <1>9 DEF sendReturns, batchAfter, IInv, CallState
    <2> QED
        BY <2>1 DEF FullBatchWasTried
<1>10. CASE sendThrows
    <2>1. mPointBatch' = mPointBatch
        BY <1>10 DEF sendThrows, batchAfter
    <2>2. CASE sending.batched
        <3>1. lastSent' = Outcome(sending, FALSE)
            BY <1>10 DEF sendThrows
        <3>2. ~lastSent'.ok /\ lastSent'.points = mPointBatch
            BY <1>10, <2>2, <3>1 DEF Outcome, sendThrows, IInv, CallState
        <3> QED
            BY <2>1, <3>2 DEF FullBatchWasTried
    <2>3. CASE ~sending.batched
        <3>1. mPointBatch = <<>>
            BY <1>10, <2>3 DEF sendThrows, IInv, CallState
        <3> QED
            BY <2>1, <3>1 DEF FullBatchWasTried
    <2> QED
        BY <2>2, <2>3
<1>11. CASE Ended
    BY <1>1, <1>11 DEF Ended
<1> QED
    BY <1>1, <1>2, <1>3, <1>4, <1>5, <1>7, <1>8, <1>9, <1>10, <1>11 DEF Next

\* A batch never waits at or above its size without having been tried,
\* whatever the sizes and failures.
THEOREM FullBatchesAreTried == Spec => []FullBatchWasTried
<1>1. Init => FullBatchWasTried
    BY DEF Init, FullBatchWasTried
<1> QED
    BY <1>1, FullBatchNext, InvariantHolds, PTL DEF Spec

-----------------------------------------------------------------------------
(* Global tags.                                                            *)

\* A sequence is a prefix of itself, and stays one when the other grows.
LEMMA PrefixProperties ==
    ASSUME NEW S, NEW s \in Seq(S), NEW t \in Seq(S), NEW e \in S
    PROVE  /\ IsPrefix(s, s)
           /\ IsPrefix(s, t) => IsPrefix(s, Append(t, e))
<1>1. Len(s) \in Nat /\ Len(t) \in Nat
    BY LenProperties
<1>2. IsPrefix(s, s)
    BY <1>1 DEF IsPrefix
<1>3. ASSUME Len(s) <= Len(t)
      PROVE  SubSeq(Append(t, e), 1, Len(s)) = SubSeq(t, 1, Len(s))
    BY <1>1, <1>3
<1>4. Len(Append(t, e)) = Len(t) + 1
    BY AppendProperties
<1> QED
    BY <1>1, <1>2, <1>3, <1>4 DEF IsPrefix

\* What TagsOfWriteAreSent rests on: global tags are only ever added, a send in
\* progress has those of the client, and an unbatched one those of its write.
TagState ==
    /\ \A p \in 1..issued : IsPrefix(tagsAt[p], mGlobalTags)
    /\ sending.points # <<>> => sending.tags = mGlobalTags
    /\ \A p \in Range(Direct) : tagsAt[p] = mGlobalTags

\* Handing over points notes the tags of the moment for them.
LEMMA TagStateHand ==
    ASSUME IInv, TagState, NEW n \in Nat, Hand(n)
    PROVE  TagState'
<1>a. /\ issued \in Nat /\ issued' = issued + n /\ mGlobalTags \in Seq(Tags)
      /\ mGlobalTags' = mGlobalTags
      /\ tagsAt' = [p \in 1..(issued + n) |->
                       IF p <= issued THEN tagsAt[p] ELSE mGlobalTags]
    BY DEF IInv, TypeOK, Hand, client
<1>1. ASSUME NEW p \in 1..issued' PROVE IsPrefix(tagsAt'[p], mGlobalTags')
    <2>1. CASE p <= issued
        <3>1. p \in 1..issued /\ tagsAt'[p] = tagsAt[p]
            BY <1>a, <2>1
        <3> QED
            BY <1>a, <3>1 DEF TagState
    <2>2. CASE ~(p <= issued)
        <3>1. tagsAt'[p] = mGlobalTags
            BY <1>a, <2>2
        <3> QED
            BY <1>a, <3>1 DEF IsPrefix
    <2> QED
        BY <2>1, <2>2
<1>b. Direct = <<>> /\ sending = NoPayload
    BY DirectType DEF IInv, CallState, Hand
<1>2. CASE mIsBatchingActivated
    <2>1. sending' = sending
        BY <1>2 DEF Hand
    <2>2. Direct' = <<>> /\ sending'.points = <<>>
        BY <1>b, <2>1, PayloadFields DEF Direct
    <2> QED
        BY <1>1, <2>2 DEF TagState, Range
<1>3. CASE ~mIsBatchingActivated
    <2>1. sending' = Payload(Fresh(n), mGlobalTags, FALSE)
        BY <1>3 DEF Hand, transmit
    <2>2. Direct' = Fresh(n) /\ sending'.tags = mGlobalTags
        BY <2>1 DEF Direct, Payload
    <2>3. ASSUME NEW p \in Range(Fresh(n))
          PROVE  tagsAt'[p] = mGlobalTags
        <3>1. PICK i \in 1..n : p = issued + i
            BY <1>a, FreshProperties DEF Range, Fresh
        <3>2. p \in 1..(issued + n) /\ ~(p <= issued)
            BY <1>a, <3>1
        <3> QED
            BY <1>a, <3>2
    <2> QED
        BY <1>a, <1>1, <2>2, <2>3 DEF TagState
<1> QED
    BY <1>2, <1>3 DEF IInv, TypeOK

\* Every step keeps the tags of each write in front of those of the client.
LEMMA TagStateNext ==
    ASSUME IInv, TagState, [Next]_vars
    PROVE  TagState'
<1>a. mGlobalTags \in Seq(Tags) /\ \A p \in 1..issued : tagsAt[p] \in Seq(Tags)
    BY DEF IInv, TypeOK
<1>b. ASSUME UNCHANGED <<issued, tagsAt, mGlobalTags>>,
             sending' = sending \/ sending' = NoPayload
      PROVE  TagState'
    <2>1. CASE sending' = sending
        BY <1>b, <2>1 DEF TagState, Direct
    <2>2. CASE sending' = NoPayload
        <3>1. Direct' = <<>> /\ sending'.points = <<>>
            BY <2>2, PayloadFields DEF Direct
        <3> QED
            BY <1>b, <3>1 DEF TagState, Range
    <2> QED
        BY <1>b, <2>1, <2>2
<1>c. ASSUME UNCHANGED <<issued, tagsAt, mGlobalTags>>, NEW batch,
             sending' = joinLineProtocolBatch(batch)
      PROVE  TagState'
    <2>1. Direct' = <<>> /\ sending'.tags = mGlobalTags
        BY <1>c DEF Direct, joinLineProtocolBatch, Payload
    <2> QED
        BY <1>c, <2>1 DEF TagState, Range
<1>1. CASE UNCHANGED vars
    BY <1>1, <1>b DEF vars, client, control, history
<1>2. CASE \E size \in BatchSizes : batchOf(size)
    BY <1>2, <1>b DEF batchOf, control
<1>3. CASE clearBatch
    BY <1>3, <1>b DEF clearBatch, control
<1>4. ASSUME NEW tag \in Tags, addGlobalTag(tag) PROVE TagState'
    <2>1. /\ sending = NoPayload /\ sending' = sending
          /\ issued' = issued /\ tagsAt' = tagsAt
          /\ mGlobalTags' = Append(mGlobalTags, tag)
        BY <1>4 DEF addGlobalTag, control, history, IInv, CallState
    <2>2. Direct' = <<>> /\ sending'.points = <<>>
        BY <2>1, PayloadFields DEF Direct
    <2>3. \A p \in 1..issued : IsPrefix(tagsAt[p], Append(mGlobalTags, tag))
        BY <1>a, PrefixProperties DEF TagState
    <2> QED
        BY <2>1, <2>2, <2>3 DEF TagState, Range
<1>5. CASE Destroy
    BY <1>5, <1>b DEF Destroy
<1>6. CASE flushBatch
    BY <1>6, <1>c DEF flushBatch, transmit, client, history
<1>7. CASE writePoint \/ writeVector
    BY <1>7, TagStateHand, BoundsAreNaturals DEF writePoint, writeVector
<1>8. CASE writeEmptyVector
    BY <1>8, <1>b DEF writeEmptyVector, transmit, client, history
<1>9. CASE addPointToBatch
    <2>1. CASE transmit(joinLineProtocolBatch(mPointBatch'))
        BY <1>9, <1>c, <2>1 DEF addPointToBatch, transmit
    <2>2. CASE UNCHANGED sending
        BY <1>9, <1>b, <2>2 DEF addPointToBatch
    <2> QED
        BY <1>9, <2>1, <2>2 DEF addPointToBatch
<1>10. CASE sendReturns
    BY <1>10, <1>b DEF sendReturns
<1>11. CASE sendThrows
    BY <1>11, <1>b DEF sendThrows
<1>12. CASE Ended
    BY <1>1, <1>12 DEF Ended
<1> QED
    BY <1>1, <1>2, <1>3, <1>4, <1>5, <1>6, <1>7, <1>8, <1>9, <1>10, <1>11,
       <1>12 DEF Next

\* The tags of a line then are those TagsOfWriteAreSent asks for.
LEMMA TagStateSuffices == IInv /\ TagState => TagsOfWriteAreSent
<1> SUFFICES ASSUME IInv, TagState, NEW p \in Range(sending.points)
             PROVE  /\ IsPrefix(tagsAt[p], sending.tags)
                    /\ ~sending.batched => tagsAt[p] = sending.tags
    BY DEF TagsOfWriteAreSent
<1>1. p \in 1..issued
    BY MembersOfSequences
<1>2. sending.points # <<>>
    BY DEF Range
<1>3. ~sending.batched => p \in Range(Direct)
    BY DEF Direct
<1> QED
    BY <1>1, <1>2, <1>3 DEF TagState

\* No line misses a global tag that was set when its point was written,
\* however often it is retried and whatever tags are added in between.
THEOREM TagsAreSent == Spec => []TagsOfWriteAreSent
<1>1. Init => TagState
    <2> SUFFICES ASSUME Init PROVE TagState
        OBVIOUS
    <2>1. issued = 0 /\ sending.points = <<>> /\ Direct = <<>>
        BY NewestInit, PayloadFields DEF Init
    <2> QED
        BY <2>1 DEF TagState, Range
<1> QED
    BY <1>1, TagStateNext, TagStateSuffices, InvariantHolds, PTL DEF Spec

-----------------------------------------------------------------------------
(* Batches that were refused.                                              *)

\* FailedBatchKeptWhole, and that the points of the refused batch are ones the
\* application has handed over, so that their fates are final.
FailedBatch ==
    (lastSent.batched /\ ~lastSent.ok) =>
        /\ Range(lastSent.points) \subseteq 1..issued
        /\ \/ IsPrefix(lastSent.points, mPointBatch)
           \/ \A p \in Range(lastSent.points) : fate[p] \in {"cleared", "dropped"}

\* The members of a prefix are members of the whole.
LEMMA PrefixRange ==
    ASSUME NEW s \in Seq(Points), NEW t \in Seq(Points), IsPrefix(s, t)
    PROVE  Range(s) \subseteq Range(t)
<1>1. /\ DOMAIN s = 1..Len(s) /\ DOMAIN t = 1..Len(t)
      /\ Len(s) \in Nat /\ Len(t) \in Nat
    BY LenProperties
<1>2. Len(s) <= Len(t) /\ SubSeq(s, 1, Len(s)) = SubSeq(t, 1, Len(s))
    BY DEF IsPrefix
<1>3. \A i \in 1..Len(s) : s[i] = t[i]
    BY <1>1, <1>2, SubSeqProperties
<1>4. \A i \in 1..Len(s) : i \in 1..Len(t)
    BY <1>1, <1>2
<1> QED
    BY <1>1, <1>3, <1>4 DEF Range

\* A step that ends no send keeps FailedBatch when it keeps the prefix or gives
\* its points an end the application has asked for.
LEMMA FailedBatchStays ==
    ASSUME IInv, [Next]_vars, FailedBatch, lastSent' = lastSent,
           IsPrefix(lastSent.points, mPointBatch) =>
               \/ IsPrefix(lastSent.points, mPointBatch')
               \/ \A p \in Range(lastSent.points) :
                     fate'[p] \in {"cleared", "dropped"}
    PROVE  FailedBatch'
<1> SUFFICES ASSUME lastSent.batched /\ ~lastSent.ok
             PROVE  FailedBatch'
    BY DEF FailedBatch
<1>1. Range(lastSent.points) \subseteq 1..issued
    BY DEF FailedBatch
<1>2. issued \in Nat /\ issued' \in Nat /\ issued <= issued'
    BY FateIsFinal
<1>3. \A p \in 1..issued : p \in 1..issued'
    BY <1>2
<1>4. ASSUME \A p \in Range(lastSent.points) : fate[p] \in {"cleared", "dropped"}
      PROVE  \A p \in Range(lastSent.points) : fate'[p] \in {"cleared", "dropped"}
    BY <1>1, <1>4, FateIsFinal
<1> QED
    BY <1>1, <1>3, <1>4 DEF FailedBatch

\* Every step leaves a refused batch whole, or ends it as the application asks.
LEMMA FailedBatchNext ==
    ASSUME IInv, FailedBatch, [Next]_vars
    PROVE  FailedBatch'
<1>a. /\ mPointBatch \in Seq(Points) /\ lastSent.points \in Seq(Points)
      /\ issued \in Nat /\ todo \in Seq(Points)
    BY DEF IInv, TypeOK, Outcomes
<1>b. ASSUME mPointBatch' = mPointBatch, lastSent' = lastSent
      PROVE  FailedBatch'
    BY <1>b, FailedBatchStays
<1>c. ASSUME lastSent' = lastSent, issued' = issued,
             NEW f \in {"cleared", "dropped"},
             fate' = Settle(Range(mPointBatch), f)
      PROVE  FailedBatch'
    <2>1. \A p \in Range(mPointBatch) : p \in 1..issued
        BY MembersOfSequences
    <2>2. \A p \in Range(mPointBatch) : fate'[p] = f
        BY <1>c, <2>1 DEF Settle
    <2>3. IsPrefix(lastSent.points, mPointBatch) =>
              Range(lastSent.points) \subseteq Range(mPointBatch)
        BY <1>a, PrefixRange
    <2> QED
        BY <1>c, <2>2, <2>3, FailedBatchStays
<1>1. CASE UNCHANGED vars
    BY <1>1, <1>b DEF vars, client, history
<1>2. CASE \E size \in BatchSizes : batchOf(size)
    BY <1>2, <1>b DEF batchOf
<1>3. CASE clearBatch
    BY <1>3, <1>c DEF clearBatch
<1>4. CASE \E tag \in Tags : addGlobalTag(tag)
    BY <1>4, <1>b DEF addGlobalTag, history
<1>5. CASE Destroy
    BY <1>5, <1>c DEF Destroy
<1>6. CASE flushBatch \/ writeEmptyVector
    BY <1>6, <1>b DEF flushBatch, writeEmptyVector, client, history
<1>7. CASE writePoint \/ writeVector
    BY <1>7, <1>b DEF writePoint, writeVector, Hand, client
<1>8. CASE addPointToBatch
    <2>1. mPointBatch' = Append(mPointBatch, Head(todo)) /\ Head(todo) \in Points
        BY <1>8, <1>a, TailOfPoints DEF addPointToBatch
    <2>2. IsPrefix(lastSent.points, mPointBatch) =>
              IsPrefix(lastSent.points, mPointBatch')
        BY <1>a, <2>1, PrefixProperties
    <2> QED
        BY <1>8, <2>2, FailedBatchStays DEF addPointToBatch
<1>9. CASE sendReturns
    <2>1. lastSent'.ok
        BY <1>9 DEF sendReturns, Outcome
    <2> QED
        BY <2>1 DEF FailedBatch
<1>10. CASE sendThrows
    <2>1. /\ lastSent'.batched = sending.batched
          /\ lastSent'.points = sending.points
          /\ mPointBatch' = mPointBatch /\ issued' = issued
        BY <1>10 DEF sendThrows, Outcome, batchAfter
    <2>2. CASE sending.batched
        <3>1. lastSent'.points = mPointBatch
            BY <1>10, <2>1, <2>2 DEF sendThrows, IInv, CallState
        <3>2. IsPrefix(mPointBatch, mPointBatch)
            BY <1>a DEF IsPrefix
        <3>3. Range(mPointBatch) \subseteq 1..issued
            BY MembersOfSequences
        <3> QED
            BY <2>1, <3>1, <3>2, <3>3 DEF FailedBatch
    <2>3. CASE ~sending.batched
        BY <2>1, <2>3 DEF FailedBatch
    <2> QED
        BY <2>2, <2>3
<1>11. CASE Ended
    BY <1>1, <1>11 DEF Ended
<1> QED
    BY <1>1, <1>2, <1>3, <1>4, <1>5, <1>6, <1>7, <1>8, <1>9, <1>10, <1>11
    DEF Next

\* A batch whose send threw stays whole and in front until it is sent again, or
\* goes whole with clearBatch or the client, for every size and any failures.
THEOREM FailedBatchesAreKept == Spec => []FailedBatchKeptWhole
<1>1. Init => FailedBatch
    BY DEF Init, FailedBatch, Outcome
<1>2. FailedBatch => FailedBatchKeptWhole
    BY DEF FailedBatch, FailedBatchKeptWhole
<1> QED
    BY <1>1, <1>2, FailedBatchNext, InvariantHolds, PTL DEF Spec

-----------------------------------------------------------------------------
(* Points given up.                                                        *)

\* A batched send inside the loop of a write ends with the point in front of
\* those the loop has yet to come to.
LoopSend ==
    (pc = "sending" /\ sending.batched /\ todo # <<>>) =>
        Newest \in Range(mPointBatch)

Abandonment == AbandonedBehindFailure /\ LoopSend

\* A step that gives up no further point keeps AbandonedBehindFailure.
LEMMA AbandonmentStays ==
    ASSUME IInv, [Next]_vars, AbandonedBehindFailure, retried \subseteq retried',
           \A p \in 1..issued' :
               fate'[p] = "abandoned" => p \in 1..issued /\ fate[p] = "abandoned"
    PROVE  AbandonedBehindFailure'
<1> SUFFICES ASSUME NEW p \in 1..issued', fate'[p] = "abandoned"
             PROVE  p > 1 /\ (p - 1 \in retried' \/ fate'[p - 1] = "abandoned")
    BY DEF AbandonedBehindFailure
<1>1. p \in 1..issued /\ fate[p] = "abandoned"
    OBVIOUS
<1>2. p > 1 /\ (p - 1 \in retried \/ fate[p - 1] = "abandoned")
    BY <1>1 DEF AbandonedBehindFailure
<1>3. p - 1 \in 1..issued
    BY <1>1, <1>2, FateIsFinal
<1> QED
    BY <1>2, <1>3, FateIsFinal

\* A send that throws gives up the points behind the batch it carried.
LEMMA AbandonmentThrow ==
    ASSUME IInv, Abandonment, sendThrows
    PROVE  AbandonedBehindFailure'
<1>a. /\ issued \in Nat /\ issued' = issued /\ todo \in Seq(Points)
      /\ Len(todo) \in Nat /\ retried' = retried \union Range(sending.points)
    BY LengthOfPoints DEF IInv, TypeOK, sendThrows
<1>b. [Next]_vars
    BY DEF Next
<1>1. CASE ~sending.batched
    <2>1. fate' = Settle(Range(sending.points), "lost")
        BY <1>1 DEF sendThrows
    <2>2. \A p \in 1..issued' : fate'[p] = "abandoned" => fate[p] = "abandoned"
        BY <1>a, <2>1 DEF Settle
    <2> QED
        BY <1>a, <1>b, <2>2, AbandonmentStays DEF Abandonment
<1>2. CASE sending.batched
    <2>1. fate' = Settle(Range(todo), "abandoned")
        BY <1>2 DEF sendThrows
    <2>2. Newest = issued - Len(todo) /\ Newest \in Nat
        BY <1>2, NewestValue DEF IInv, Direct
    <2>3. \A p \in 1..issued : p \in Range(todo) <=> p > Newest
        BY <1>a, <2>2, RangeBounds DEF IInv, InHand
    <2>4. \A p \in 1..issued : p > Newest => fate'[p] = "abandoned"
        BY <2>1, <2>3 DEF Settle
    <2>5. ASSUME NEW p \in 1..issued, p > Newest
          PROVE  p > 1 /\ (p - 1 \in retried' \/ fate'[p - 1] = "abandoned")
        <3>1. Newest \in Range(mPointBatch)
            <4>1. todo # <<>>
                BY <1>a, <2>2, <2>5, LengthOfPoints
            <4> QED
                BY <1>2, <4>1 DEF Abandonment, LoopSend, sendThrows
        <3>2. Newest \in 1..issued /\ Newest \in retried'
            BY <1>2, <1>a, <3>1, MembersOfSequences
            DEF sendThrows, IInv, CallState
        <3>3. p > 1 /\ p - 1 \in 1..issued
            BY <1>a, <2>5, <3>2
        <3>4. p - 1 = Newest \/ p - 1 > Newest
            BY <2>2, <2>5
        <3> QED
            BY <2>4, <3>2, <3>3, <3>4
    <2>6. ASSUME NEW p \in 1..issued, ~(p > Newest), fate'[p] = "abandoned"
          PROVE  p > 1 /\ (p - 1 \in retried' \/ fate'[p - 1] = "abandoned")
        <3>1. fate[p] = "abandoned"
            BY <2>1, <2>3, <2>6 DEF Settle
        <3>2. p > 1 /\ (p - 1 \in retried \/ fate[p - 1] = "abandoned")
            BY <3>1 DEF Abandonment, AbandonedBehindFailure
        <3>3. p - 1 \in 1..issued
            BY <1>a, <3>2
        <3> QED
            BY <1>a, <1>b, <3>2, <3>3, FateIsFinal
    <2> QED
        BY <1>a, <2>5, <2>6 DEF AbandonedBehindFailure
<1> QED
    BY <1>1, <1>2

\* The loop of a write sends the batch with the point it has just added.
LEMMA LoopSendNext ==
    ASSUME IInv, LoopSend, [Next]_vars
    PROVE  LoopSend'
<1>1. CASE UNCHANGED vars
    <2>1. Newest' = Newest
        BY <1>1, NewestNext DEF IInv
    <2> QED
        BY <1>1, <2>1 DEF LoopSend, vars, client, control
<1>2. CASE addPointToBatch
    <2>1. mPointBatch \in Seq(Points) /\ todo \in Seq(Points) /\ todo # <<>>
        BY <1>2 DEF IInv, TypeOK, addPointToBatch
    <2>2. Head(todo) = issued - Len(todo) + 1 /\ Head(todo) \in Points
        BY <2>1, LastOfTail, TailOfPoints DEF IInv, TypeOK, InHand
    <2>3. Newest = issued - Len(todo) /\ Newest' = Newest + 1
        BY <1>2, NewestValue, NewestNext, DirectType DEF IInv, addPointToBatch
    <2>4. mPointBatch' = Append(mPointBatch, Head(todo))
        BY <1>2 DEF addPointToBatch
    <2>5. Head(todo) \in Range(mPointBatch')
        BY <2>1, <2>2, <2>4, RangeProperties
    <2> QED
        BY <2>2, <2>3, <2>5 DEF LoopSend
<1>3. CASE Next /\ ~addPointToBatch
    <2>1. ASSUME pc' = "sending" PROVE todo' = <<>> \/ ~sending'.batched
        <3>1. CASE flushBatch \/ writeEmptyVector
            BY <3>1 DEF flushBatch, writeEmptyVector, IInv, CallState
        <3>2. ASSUME NEW n \in Nat, Hand(n)
              PROVE  todo' = <<>> \/ ~sending'.batched
            <4>1. CASE mIsBatchingActivated
                BY <2>1, <3>2, <4>1 DEF Hand
            <4>2. CASE ~mIsBatchingActivated
                <5>1. sending' = Payload(Fresh(n), mGlobalTags, FALSE)
                    BY <3>2, <4>2 DEF Hand, transmit
                <5> QED
                    BY <5>1 DEF Payload
            <4> QED
                BY <4>1, <4>2
        <3>3. CASE writePoint \/ writeVector
            BY <3>2, <3>3, BoundsAreNaturals DEF writePoint, writeVector
        <3>4. CASE Ended
            BY <2>1, <3>4 DEF Ended, vars, control
        <3> QED
            BY <1>3, <2>1, <3>1, <3>3, <3>4
            DEF Next, batchOf, clearBatch, addGlobalTag, Destroy, control,
                sendReturns, afterSend, sendThrows
    <2> QED
        BY <2>1 DEF LoopSend
<1> QED
    BY <1>1, <1>2, <1>3

\* Every step gives up only points behind one whose send has thrown.
LEMMA AbandonmentNext ==
    ASSUME IInv, Abandonment, [Next]_vars
    PROVE  Abandonment'
<1> SUFFICES AbandonedBehindFailure'
    BY LoopSendNext DEF Abandonment
<1>a. issued \in Nat /\ fate \in [1..issued -> Fates]
    BY DEF IInv, TypeOK
<1>b. ASSUME retried' = retried, issued' = issued,
             \/ fate' = fate
             \/ \E ps, f : f # "abandoned" /\ fate' = Settle(ps, f)
      PROVE  AbandonedBehindFailure'
    <2>1. \A p \in 1..issued' : fate'[p] = "abandoned" => fate[p] = "abandoned"
        BY <1>b DEF Settle
    <2> QED
        BY <1>b, <2>1, AbandonmentStays DEF Abandonment
<1>1. CASE UNCHANGED vars
    BY <1>1, <1>b DEF vars, history
<1>2. CASE \E size \in BatchSizes : batchOf(size)
    BY <1>2, <1>b DEF batchOf
<1>3. CASE clearBatch
    <2>1. "cleared" # "abandoned"
        OBVIOUS
    <2> QED
        BY <1>3, <2>1, <1>b DEF clearBatch
<1>4. CASE \E tag \in Tags : addGlobalTag(tag)
    BY <1>4, <1>b DEF addGlobalTag, history
<1>5. CASE Destroy
    <2>1. "dropped" # "abandoned"
        OBVIOUS
    <2> QED
        BY <1>5, <2>1, <1>b DEF Destroy
<1>6. CASE flushBatch \/ writeEmptyVector
    BY <1>6, <1>b DEF flushBatch, writeEmptyVector, history
<1>7. ASSUME NEW n \in Nat, Hand(n) PROVE AbandonedBehindFailure'
    <2>1. issued' = issued + n /\ retried' = retried
        BY <1>7 DEF Hand
    <2>2. ASSUME NEW p \in 1..issued', fate'[p] = "abandoned"
          PROVE  p \in 1..issued /\ fate[p] = "abandoned"
        <3>1. fate'[p] = IF p <= issued THEN fate[p] ELSE "held"
            BY <1>7, <2>1 DEF Hand
        <3> QED
            BY <1>a, <2>1, <2>2, <3>1
    <2> QED
        BY <2>1, <2>2, AbandonmentStays DEF Abandonment
<1>8. CASE writePoint \/ writeVector
    BY <1>7, <1>8, BoundsAreNaturals DEF writePoint, writeVector
<1>9. CASE addPointToBatch
    BY <1>9, <1>b DEF addPointToBatch
<1>10. CASE sendReturns
    <2>1. "acked" # "abandoned"
        OBVIOUS
    <2> QED
        BY <1>10, <2>1, <1>b DEF sendReturns
<1>11. CASE sendThrows
    BY <1>11, AbandonmentThrow
<1>12. CASE Ended
    BY <1>1, <1>12 DEF Ended
<1> QED
    BY <1>1, <1>2, <1>3, <1>4, <1>5, <1>6, <1>8, <1>9, <1>10, <1>11, <1>12
    DEF Next

\* A write that fails gives up only what lies behind a point whose send threw,
\* for every length of a vector and wherever in its loop the send threw.
THEOREM AbandonedAreBehind == Spec => []AbandonedBehindFailure
<1>1. Init => Abandonment
    BY DEF Init, Abandonment, AbandonedBehindFailure, LoopSend
<1>2. Abandonment => AbandonedBehindFailure
    BY DEF Abandonment
<1> QED
    BY <1>1, <1>2, AbandonmentNext, InvariantHolds, PTL DEF Spec

-----------------------------------------------------------------------------
(* The answer to a request.                                                *)

\* treatCurlResponse throws one of the exceptions of the library or nothing,
\* and nothing exactly when libcurl succeeded with a status below 400.
LEMMA TreatCurlResponse ==
    ASSUME NEW response, response.curlOk \in BOOLEAN, response.code \in Nat
    PROVE  /\ treatCurlResponse(response) \in Thrown
           /\ treatCurlResponse(response) = "nothing" <=>
                  response.curlOk /\ response.code < 400
<1>1. CASE ~response.curlOk
  BY <1>1 DEF treatCurlResponse, Thrown
<1>2. CASE response.curlOk /\ response.code < 400
  BY <1>2 DEF treatCurlResponse, Thrown
<1>3. CASE response.curlOk /\ response.code >= 400
  <2>1. treatCurlResponse(response) =
            IF parsesErrorMessage(response.body)
              THEN errorOfStatus(response.code) ELSE "InfluxDBException"
    BY <1>3 DEF treatCurlResponse
  <2>2. errorOfStatus(response.code) \in
            {"NonExistentDatabase", "BadRequest", "ServerError"}
    BY <1>3 DEF errorOfStatus
  <2>3. ~(response.code < 400)
    BY <1>3
  <2> QED BY <2>1, <2>2, <2>3 DEF Thrown
<1> QED BY <1>1, <1>2, <1>3

-----------------------------------------------------------------------------
(* The steps of the path are steps of the client.                          *)

\* A call that begins, and a step the transport has no part in, change neither
\* what has been accepted nor anything of the path, and are not made while a
\* send is in progress.
LEMMA ClientSteps ==
    ASSUME Call \/ Local
    PROVE  Next /\ pc # "sending" /\ UNCHANGED acked /\ UNCHANGED path
<1>1. CASE Call
  <2>1. pc = "idle" /\ UNCHANGED acked /\ UNCHANGED path
    BY <1>1 DEF Call, batchOf, clearBatch, addGlobalTag, history, flushBatch,
                writePoint, writeVector, Hand
  <2> QED BY <1>1, <2>1 DEF Call, Next
<1>2. CASE Local
  <2>1. pc # "sending" /\ UNCHANGED acked /\ UNCHANGED path
    BY <1>2 DEF Local, addPointToBatch, Destroy, Ended, vars, history
  <2> QED BY <1>2, <2>1 DEF Local, Next
<1> QED BY <1>1, <1>2

\* Every step of the path is a step of the client or changes nothing of it.
LEMMA PathStepIsStep == [PathNext]_pathVars => [Next]_vars
<1> SUFFICES ASSUME [PathNext]_pathVars PROVE [Next]_vars
  OBVIOUS
<1>1. CASE Call \/ Local
  BY <1>1, ClientSteps
<1>2. CASE post \/ UNCHANGED pathVars
  BY <1>2 DEF post, pathVars
<1>3. ASSUME NEW request, serve(request) \/ deliver(request)
      PROVE  UNCHANGED vars
  BY <1>3 DEF serve, deliver
<1>4. ASSUME NEW response, conclude(response)
      PROVE  Next
  BY <1>4 DEF conclude, Next
<1>5. CASE sendTo
  BY <1>5 DEF sendTo, Next
<1> QED BY <1>1, <1>2, <1>3, <1>4, <1>5 DEF PathNext, answered, broken

-----------------------------------------------------------------------------
(* What the server stores of a request.                                    *)

\* The numbers up to n are n.
LEMMA NumbersUpTo ==
    ASSUME NEW n \in Nat
    PROVE  IsFiniteSet(1..n) /\ Cardinality(1..n) = n
<1>1. 1 \in Int /\ n \in Int
  OBVIOUS
<1>2. IsFiniteSet(1..n)
  BY <1>1, FS_Interval
<1>3. Cardinality(1..n) = IF 1 > n THEN 0 ELSE n - 1 + 1
  BY <1>1, FS_Interval
<1> QED BY <1>2, <1>3

PointsOf(lines) == {line.point : line \in Range(lines)}

\* Storing lines adds their points.
LEMMA PointsOfConcat ==
    ASSUME NEW s \in Seq(Lines), NEW t \in Seq(Lines)
    PROVE  s \o t \in Seq(Lines) /\ PointsOf(s \o t) = PointsOf(s) \union PointsOf(t)
<1>1. Range(s \o t) = Range(s) \union Range(t)
  BY RangeConcatenation
<1> QED BY <1>1, ConcatProperties DEF PointsOf

LEMMA LinesOfRequest ==
    ASSUME NEW r \in Requests
    PROVE  /\ All(r) \in Seq(Lines)
           /\ PointsOf(All(r)) = Range(r.points)
           /\ \A lines \in Perhaps(r) :
                 lines \in Seq(Lines) /\ PointsOf(lines) \subseteq Range(r.points)
<1>1. /\ r.points \in Seq(Points) /\ r.tags \in Seq(Tags)
      /\ Len(r.points) \in Nat /\ DOMAIN r.points = 1..Len(r.points)
      /\ \A i \in DOMAIN r.points : r.points[i] \in Points
  BY ElementOfSeq, LenProperties DEF Requests
<1>2. /\ DOMAIN All(r) = 1..Len(r.points)
      /\ \A i \in DOMAIN r.points :
            All(r)[i] \in Lines /\ All(r)[i].point = r.points[i]
  BY <1>1 DEF All, Line, Lines
<1>3. All(r) \in Seq(Lines)
  <2>1. All(r) \in [1..Len(r.points) -> Lines]
    BY <1>1, <1>2 DEF All
  <2> QED BY <1>1, <2>1, SeqDef
<1>4. PointsOf(All(r)) = Range(r.points)
  BY <1>1, <1>2 DEF PointsOf, Range
<1>5. ASSUME NEW lines \in Good(r)
      PROVE  lines \in Seq(Lines) /\ PointsOf(lines) \subseteq Range(r.points)
  <2> DEFINE good == {i \in DOMAIN r.points : r.points[i] \notin Poison}
  <2>1. IsFiniteSet(good) /\ Cardinality(good) \in Nat
    <3>1. IsFiniteSet(1..Len(r.points))
      BY <1>1, NumbersUpTo
    <3>2. good \subseteq 1..Len(r.points)
      BY <1>1
    <3>3. IsFiniteSet(good)
      BY <3>1, <3>2, FS_Subset
    <3> QED BY <3>3, FS_CardinalityType
  <2>2. PICK f \in [1..Cardinality(good) -> good] :
            lines = [k \in DOMAIN f |-> All(r)[f[k]]]
    BY <1>5 DEF Good
  <2>3. /\ lines = [k \in 1..Cardinality(good) |-> All(r)[f[k]]]
        /\ \A k \in 1..Cardinality(good) : f[k] \in DOMAIN r.points
    BY <2>2
  <2>4. lines \in Seq(Lines)
    <3>1. lines \in [1..Cardinality(good) -> Lines]
      BY <1>2, <2>3
    <3> QED BY <2>1, <3>1, SeqDef
  <2>5. PointsOf(lines) \subseteq Range(r.points)
    BY <1>2, <2>3 DEF PointsOf, Range
  <2> QED BY <2>4, <2>5
<1>6. <<>> \in Seq(Lines) /\ PointsOf(<<>>) = {}
  BY DEF PointsOf, Range
<1> QED BY <1>3, <1>4, <1>5, <1>6 DEF Perhaps

\* A status below 300 says that all points are stored.
LEMMA ServedProperties ==
    ASSUME NEW r \in Requests, NEW s \in Served(r)
    PROVE  /\ s[1] \in Nat
           /\ s[2] \in Seq(Lines)
           /\ PointsOf(s[2]) \subseteq Range(r.points)
           /\ s[1] < 300 => PointsOf(s[2]) = Range(r.points)
<1>1. \A code \in Refusals \union {400} : code \in Nat /\ ~(code < 300)
  BY ServerIsSane
<1>2. <<>> \in Perhaps(r)
  BY DEF Perhaps
<1>3. \/ s[1] = 204 /\ s[2] = All(r)
      \/ s[1] \in Refusals \union {400} /\ s[2] \in Perhaps(r)
  BY <1>2 DEF Served
<1>4. CASE s[1] = 204 /\ s[2] = All(r)
  BY <1>4, LinesOfRequest
<1>5. CASE s[1] \in Refusals \union {400} /\ s[2] \in Perhaps(r)
  <2>1. s[1] \in Nat /\ ~(s[1] < 300)
    BY <1>1, <1>5
  <2> QED BY <1>5, <2>1, LinesOfRequest
<1> QED BY <1>3, <1>4, <1>5

-----------------------------------------------------------------------------
(* The inductive invariant.                                                *)

\* What is on its way are points that were written, and it has a number.
UnderWay ==
    \A r \in network : r.id \in 1..requests /\ Range(r.points) \subseteq 1..issued

\* The call in progress, its request and the answer to it: an answer that does
\* not throw and does not redirect says that the points are stored.
AnswerIsToCall ==
    /\ current = 0 => ~answer.curlOk
    /\ current # 0 =>
          /\ transport = "http" /\ pc = "sending"
          /\ \A r \in network : r.id = current => r.points = sending.points
          /\ answer.curlOk /\ answer.code < 300 =>
                 Range(sending.points) \subseteq StoredPoints

\* What is known of stored and of redirected points, and of datagrams.
StoredWasWritten ==
    /\ StoredPoints \subseteq 1..issued
    /\ redirected \subseteq Range(acked)
    /\ transport = "datagram" =>
           \A r \in network : Range(r.points) \subseteq Range(acked)

PInv == /\ IInv
        /\ PathTypeOK
        /\ UnderWay
        /\ AnswerIsToCall
        /\ StoredWasWritten
        /\ AcceptedIsStored

\* Accepted points have been written, and so have those of a send.
LEMMA WrittenPoints ==
    ASSUME IInv
    PROVE  /\ issued \in Nat
           /\ Range(acked) \subseteq 1..issued
           /\ Range(sending.points) \subseteq 1..issued
           /\ acked \in Seq(Points) /\ sending.points \in Seq(Points)
           /\ sending.tags \in Seq(Tags)
<1>1. /\ acked \in Seq(Points) /\ issued \in Nat
      /\ sending.points \in Seq(Points) /\ sending.tags \in Seq(Tags)
      /\ Newest \in Nat /\ Newest <= issued
  BY NewestValue DEF IInv, TypeOK, Payloads
<1>2. \A p \in Range(acked) : p \in 1..Newest
  BY <1>1, RangeBounds DEF IInv, Order
<1>3. Range(acked) \subseteq 1..issued
  BY <1>1, <1>2
<1>4. Range(sending.points) \subseteq 1..issued
  BY MembersOfSequences
<1> QED BY <1>1, <1>3, <1>4

\* Points that have been written stay so.
LEMMA WrittenStays ==
    ASSUME IInv, [Next]_vars
    PROVE  /\ issued \in Nat /\ issued' \in Nat /\ issued <= issued'
           /\ 1..issued \subseteq 1..issued'
<1>1. issued \in Nat /\ issued' \in Nat /\ issued <= issued'
  BY FateIsFinal
<1> QED BY <1>1

\* What a step of a request that ends does: the points were accepted and are
\* stored, or were accepted after a redirection, or the send threw.
LEMMA HowRequestsEnd ==
    ASSUME PInv, answered \/ broken
    PROVE  /\ transport = "http" /\ pc = "sending"
           /\ current' = 0 /\ answer' = NoAnswer
           /\ UNCHANGED <<transport, requests, network, stored, issued>>
           /\ \/ UNCHANGED <<acked, redirected>>
              \/ /\ acked' = acked \o sending.points
                 /\ Range(acked') = Range(acked) \union Range(sending.points)
                 /\ \/ /\ answer.curlOk /\ answer.code < 300
                       /\ Range(sending.points) \subseteq StoredPoints
                       /\ UNCHANGED redirected
                    \/ /\ answer.curlOk /\ answer.code \in 300..399
                       /\ redirected' = redirected \union Range(sending.points)
<1>1. PICK response \in {answer, NoAnswer} :
          /\ conclude(response)
          /\ response.curlOk => response = answer /\ answer.curlOk
  BY DEF answered, broken, NoAnswer
<1>2. response.curlOk \in BOOLEAN /\ response.code \in Nat
  <2>1. answer.curlOk \in BOOLEAN /\ answer.code \in Nat
    BY DEF PInv, PathTypeOK
  <2>2. NoAnswer.curlOk \in BOOLEAN /\ NoAnswer.code \in Nat
    BY DEF NoAnswer
  <2> QED BY <1>1, <2>1, <2>2
<1>3. /\ transport = "http" /\ pc = "sending"
      /\ current' = 0 /\ answer' = NoAnswer
      /\ UNCHANGED <<transport, requests, network, stored>>
  BY <1>1 DEF conclude
<1>4. CASE treatCurlResponse(response) # "nothing"
  BY <1>1, <1>3, <1>4 DEF conclude, sendThrows
<1>5. CASE treatCurlResponse(response) = "nothing"
  <2>1. sendReturns /\ redirected' = IF response.code \in 300..399
                                       THEN redirected \union Range(sending.points)
                                       ELSE redirected
    BY <1>1, <1>5 DEF conclude
  <2>2. /\ answer.curlOk /\ current # 0
        /\ response = answer /\ response.code < 400
    BY <1>1, <1>2, <1>5, TreatCurlResponse DEF PInv, AnswerIsToCall
  <2>3. acked' = acked \o sending.points /\ UNCHANGED issued
    BY <2>1 DEF sendReturns
  <2>4. Range(acked') = Range(acked) \union Range(sending.points)
    BY <2>3, WrittenPoints, RangeConcatenation DEF PInv
  <2>5. CASE response.code \in 300..399
    BY <1>3, <2>1, <2>2, <2>3, <2>4, <2>5
  <2>6. CASE response.code \notin 300..399
    <3>1. response.code < 300
      BY <1>2, <2>2, <2>6
    <3>2. Range(sending.points) \subseteq StoredPoints
      BY <2>2, <3>1 DEF PInv, AnswerIsToCall
    <3> QED BY <1>3, <2>1, <2>2, <2>3, <2>4, <2>6, <3>1, <3>2
  <2> QED BY <2>5, <2>6
<1> QED BY <1>4, <1>5

\* What serving a request adds to the store.
LEMMA WhatServingStores ==
    ASSUME PInv, NEW r \in network, serve(r) \/ deliver(r)
    PROVE  /\ stored' \in Seq(Lines)
           /\ StoredPoints \subseteq StoredPoints'
           /\ StoredPoints' \subseteq StoredPoints \union Range(r.points)
           /\ network' = network \ {r}
           /\ UNCHANGED <<vars, transport, current, requests, redirected>>
<1>1. r \in Requests /\ stored \in Seq(Lines)
  BY DEF PInv, PathTypeOK
<1>2. PICK lines \in Seq(Lines) :
          /\ PointsOf(lines) \subseteq Range(r.points)
          /\ stored' = stored \o lines
  <2>1. CASE serve(r)
    BY <1>1, <2>1, ServedProperties DEF serve
  <2>2. CASE deliver(r)
    BY <1>1, <2>2, LinesOfRequest DEF deliver
  <2> QED BY <2>1, <2>2
<1>3. stored' \in Seq(Lines) /\ PointsOf(stored') = PointsOf(stored) \union PointsOf(lines)
  BY <1>1, <1>2, PointsOfConcat
<1>4. StoredPoints = PointsOf(stored) /\ StoredPoints' = PointsOf(stored')
  BY DEF StoredPoints, PointsOf
<1>5. /\ network' = network \ {r}
      /\ UNCHANGED <<vars, transport, current, requests, redirected>>
  BY DEF serve, deliver
<1> QED BY <1>2, <1>3, <1>4, <1>5

-----------------------------------------------------------------------------
(* Every step keeps the invariant.                                         *)

\* Steps of the client that leave the path alone.
LEMMA ClientStepKeeps ==
    ASSUME PInv, Call \/ Local
    PROVE  PInv'
<1>1. [Next]_vars /\ pc # "sending" /\ UNCHANGED acked /\ UNCHANGED path
  BY ClientSteps
<1>2. IInv' /\ 1..issued \subseteq 1..issued'
  BY <1>1, IInvNext, WrittenStays DEF PInv
<1>3. PathTypeOK'
  BY <1>1 DEF PInv, PathTypeOK, path
<1>4. UnderWay'
  BY <1>1, <1>2 DEF PInv, UnderWay, path
<1>5. AnswerIsToCall'
  BY <1>1 DEF PInv, AnswerIsToCall, path
<1>6. StoredWasWritten' /\ AcceptedIsStored'
  BY <1>1, <1>2 DEF PInv, StoredWasWritten, AcceptedIsStored, StoredPoints, path
<1> QED BY <1>2, <1>3, <1>4, <1>5, <1>6 DEF PInv

\* What goes out is a request with the points of the call.
LEMMA RequestType ==
    ASSUME PInv
    PROVE  /\ Request \in Requests
           /\ Request.points = sending.points
           /\ Request.id = requests + 1
<1>1. /\ requests \in Nat
      /\ sending.points \in Seq(Points) /\ sending.tags \in Seq(Tags)
  BY WrittenPoints DEF PInv, PathTypeOK
<1> QED BY <1>1 DEF Request, Requests

LEMMA PostKeeps ==
    ASSUME PInv, post
    PROVE  PInv'
<1>1. /\ requests \in Nat /\ requests' = requests + 1 /\ current' = requests'
      /\ network' = network \union {Request} /\ pc = "sending" /\ current = 0
      /\ transport = "http"
      /\ UNCHANGED <<vars, transport, answer, stored, redirected>>
  BY DEF post, PInv, PathTypeOK
<1>2. IInv' /\ UNCHANGED <<issued, acked, pc, sending>>
  BY <1>1, IInvNext DEF PInv, vars, control, history
<1>3. PathTypeOK'
  BY <1>1, RequestType DEF PInv, PathTypeOK
<1>4. Range(sending.points) \subseteq 1..issued
  BY WrittenPoints DEF PInv
<1>5. UnderWay'
  BY <1>1, <1>2, <1>4, RequestType DEF PInv, UnderWay
<1>6. AnswerIsToCall'
  <2>1. \A r \in network : r.id # requests + 1
    BY <1>1 DEF PInv, UnderWay
  <2>2. ~answer.curlOk
    BY <1>1 DEF PInv, AnswerIsToCall
  <2> QED BY <1>1, <1>2, <2>1, <2>2, RequestType DEF AnswerIsToCall
<1>7. StoredWasWritten' /\ AcceptedIsStored'
  BY <1>1, <1>2 DEF PInv, StoredWasWritten, AcceptedIsStored, StoredPoints
<1> QED BY <1>2, <1>3, <1>5, <1>6, <1>7 DEF PInv

\* The server serves a request: of the call in progress, or a late one.
LEMMA ServeKeeps ==
    ASSUME PInv, NEW r \in network, serve(r)
    PROVE  PInv'
<1>1. /\ stored' \in Seq(Lines)
      /\ StoredPoints \subseteq StoredPoints'
      /\ StoredPoints' \subseteq StoredPoints \union Range(r.points)
      /\ network' = network \ {r}
      /\ UNCHANGED <<vars, transport, current, requests, redirected>>
  BY WhatServingStores
<1>2. IInv' /\ UNCHANGED <<issued, acked, pc, sending>>
  BY <1>1, IInvNext DEF PInv, vars, control, history
<1>3. r \in Requests /\ Range(r.points) \subseteq 1..issued /\ transport = "http"
  BY DEF PInv, PathTypeOK, UnderWay, serve
<1>4. PICK served \in Served(r) :
          /\ stored' = stored \o served[2]
          /\ \/ /\ r.id = current
                /\ \E body \in BodiesFor(served[1]) :
                      answer' = Response(served[1], body)
             \/ /\ r.id # current
                /\ UNCHANGED answer
  BY DEF serve
<1>5. /\ served[1] \in Nat /\ served[2] \in Seq(Lines)
      /\ served[1] < 300 => PointsOf(served[2]) = Range(r.points)
  BY <1>3, ServedProperties
<1>6. StoredPoints' = StoredPoints \union PointsOf(served[2])
  <2>1. stored \in Seq(Lines)
    BY DEF PInv, PathTypeOK
  <2>2. StoredPoints = PointsOf(stored) /\ StoredPoints' = PointsOf(stored')
    BY DEF StoredPoints, PointsOf
  <2> QED BY <1>4, <1>5, <2>1, <2>2, PointsOfConcat
<1>7. answer' \in [curlOk : BOOLEAN, code : Nat, body : Bodies]
  <2>1. \A body \in BodiesFor(served[1]) : body \in Bodies
    BY DEF BodiesFor, Bodies
  <2>2. \A code \in Nat, body \in Bodies :
            Response(code, body) \in [curlOk : BOOLEAN, code : Nat, body : Bodies]
    BY DEF Response
  <2>3. answer \in [curlOk : BOOLEAN, code : Nat, body : Bodies]
    BY DEF PInv, PathTypeOK
  <2> QED BY <1>4, <1>5, <2>1, <2>2, <2>3
<1>8. PathTypeOK'
  BY <1>1, <1>7 DEF PInv, PathTypeOK
<1>9. UnderWay'
  BY <1>1, <1>2 DEF PInv, UnderWay
<1>10. AnswerIsToCall'
  <2>1. r.id # 0
    BY DEF PInv, UnderWay
  <2>2. CASE r.id = current
    <3>1. r.points = sending.points /\ current # 0 /\ pc = "sending"
      BY <2>1, <2>2 DEF PInv, AnswerIsToCall
    <3>2. answer'.code = served[1]
      BY <1>4, <2>2 DEF Response
    <3>3. answer'.code < 300 => Range(sending.points) \subseteq StoredPoints'
      BY <1>5, <1>6, <3>1, <3>2
    <3> QED BY <1>1, <1>2, <3>1, <3>3 DEF PInv, AnswerIsToCall
  <2>3. CASE r.id # current
    BY <1>1, <1>2, <1>4, <2>3 DEF PInv, AnswerIsToCall
  <2> QED BY <2>2, <2>3
<1>11. StoredWasWritten' /\ AcceptedIsStored'
  BY <1>1, <1>2, <1>3 DEF PInv, StoredWasWritten, AcceptedIsStored
<1> QED BY <1>2, <1>8, <1>9, <1>10, <1>11 DEF PInv

\* A request ends.
LEMMA ConcludeKeeps ==
    ASSUME PInv, answered \/ broken
    PROVE  PInv'
<1>1. IInv' /\ 1..issued \subseteq 1..issued'
  BY PathStepIsStep, IInvNext, WrittenStays DEF PInv, PathNext
<1>2. NoAnswer \in [curlOk : BOOLEAN, code : Nat, body : Bodies]
  BY DEF NoAnswer, Bodies
<1>3. redirected' \in SUBSET Points
  <2>1. Range(sending.points) \subseteq Points
    BY WrittenPoints, RangeOfSeq DEF PInv
  <2> QED BY <2>1, HowRequestsEnd DEF PInv, PathTypeOK
<1>4. PathTypeOK'
  BY <1>2, <1>3, HowRequestsEnd DEF PInv, PathTypeOK
<1>5. UnderWay'
  BY <1>1, HowRequestsEnd DEF PInv, UnderWay
<1>6. AnswerIsToCall'
  BY HowRequestsEnd DEF AnswerIsToCall, NoAnswer
<1>7. StoredPoints' = StoredPoints
  BY HowRequestsEnd DEF StoredPoints
<1>8. StoredWasWritten' /\ AcceptedIsStored'
  BY <1>1, <1>7, HowRequestsEnd DEF PInv, StoredWasWritten, AcceptedIsStored
<1> QED BY <1>1, <1>4, <1>5, <1>6, <1>8 DEF PInv

\* A datagram is sent, or is not.
LEMMA SendToSteps ==
    ASSUME PInv, sendTo
    PROVE  /\ transport = "datagram" /\ current = 0
           /\ UNCHANGED <<transport, current, answer, stored, redirected, issued>>
           /\ \/ UNCHANGED <<acked, requests, network>>
              \/ /\ Range(acked') = Range(acked) \union Range(sending.points)
                 /\ requests' = requests + 1
                 /\ network' = network \union {Request}
<1>1. /\ transport = "datagram"
      /\ UNCHANGED <<transport, current, answer, stored, redirected>>
  BY DEF sendTo
<1>2. current = 0
  BY <1>1 DEF PInv, AnswerIsToCall
<1>3. CASE sendThrows /\ UNCHANGED <<requests, network>>
  BY <1>1, <1>2, <1>3 DEF sendThrows
<1>4. CASE sendReturns /\ requests' = requests + 1 /\ network' = network \union {Request}
  <2>1. acked' = acked \o sending.points /\ UNCHANGED issued
    BY <1>4 DEF sendReturns
  <2>2. Range(acked') = Range(acked) \union Range(sending.points)
    BY <2>1, WrittenPoints, RangeConcatenation DEF PInv
  <2> QED BY <1>1, <1>2, <1>4, <2>1, <2>2
<1> QED BY <1>3, <1>4 DEF sendTo

LEMMA SendToKeeps ==
    ASSUME PInv, sendTo
    PROVE  PInv'
<1>1. IInv'
  BY PathStepIsStep, IInvNext DEF PInv, PathNext
<1>2. PathTypeOK'
  BY SendToSteps, RequestType DEF PInv, PathTypeOK
<1>3. UnderWay'
  <2>1. Range(sending.points) \subseteq 1..issued /\ requests \in Nat
    BY WrittenPoints DEF PInv, PathTypeOK
  <2> QED BY <2>1, SendToSteps, RequestType DEF PInv, UnderWay
<1>4. AnswerIsToCall'
  BY SendToSteps DEF PInv, AnswerIsToCall
<1>5. StoredPoints' = StoredPoints
  BY SendToSteps DEF StoredPoints
<1>6. StoredWasWritten' /\ AcceptedIsStored'
  BY <1>5, SendToSteps, RequestType DEF PInv, StoredWasWritten, AcceptedIsStored
<1> QED BY <1>1, <1>2, <1>3, <1>4, <1>6 DEF PInv

\* A datagram comes in, or is lost.
LEMMA DeliverKeeps ==
    ASSUME PInv, NEW r \in network, deliver(r)
    PROVE  PInv'
<1>1. /\ stored' \in Seq(Lines)
      /\ StoredPoints' \subseteq StoredPoints \union Range(r.points)
      /\ network' = network \ {r}
      /\ UNCHANGED <<vars, transport, current, requests, redirected>>
  BY WhatServingStores
<1>2. IInv' /\ UNCHANGED <<issued, acked, pc, sending>>
  BY <1>1, IInvNext DEF PInv, vars, control, history
<1>3. /\ Range(r.points) \subseteq 1..issued /\ transport = "datagram"
      /\ UNCHANGED answer
  BY DEF PInv, UnderWay, deliver
<1>4. PathTypeOK' /\ UnderWay'
  BY <1>1, <1>2, <1>3 DEF PInv, PathTypeOK, UnderWay
<1>5. AnswerIsToCall'
  BY <1>1, <1>3 DEF PInv, AnswerIsToCall
<1>6. StoredWasWritten' /\ AcceptedIsStored'
  BY <1>1, <1>2, <1>3 DEF PInv, StoredWasWritten, AcceptedIsStored
<1> QED BY <1>2, <1>4, <1>5, <1>6 DEF PInv

LEMMA PInvInit == PathInit => PInv
<1> SUFFICES ASSUME PathInit PROVE PInv
  OBVIOUS
<1>1. IInv
  BY IInvInit DEF PathInit
<1>2. NoAnswer \in [curlOk : BOOLEAN, code : Nat, body : Bodies] /\ ~NoAnswer.curlOk
  BY DEF NoAnswer, Bodies
<1>3. PathTypeOK
  BY <1>2 DEF PathInit, PathTypeOK
<1>4. UnderWay /\ AnswerIsToCall
  BY <1>2 DEF PathInit, UnderWay, AnswerIsToCall
<1>5. acked = <<>> /\ stored = <<>> /\ redirected = {} /\ network = {}
  BY DEF PathInit, Init
<1>6. StoredPoints = {} /\ Range(acked) = {}
  BY <1>5 DEF StoredPoints, Range
<1>7. StoredWasWritten /\ AcceptedIsStored
  BY <1>5, <1>6 DEF StoredWasWritten, AcceptedIsStored
<1> QED BY <1>1, <1>3, <1>4, <1>7 DEF PInv

LEMMA PInvNext == PInv /\ [PathNext]_pathVars => PInv'
<1> SUFFICES ASSUME PInv, [PathNext]_pathVars PROVE PInv'
  OBVIOUS
<1>1. CASE UNCHANGED pathVars
  <2>1. IInv'
    BY <1>1, IInvNext DEF PInv, pathVars
  <2> QED BY <1>1, <2>1
          DEF PInv, pathVars, path, vars, control, history, PathTypeOK, UnderWay,
              AnswerIsToCall, StoredWasWritten, AcceptedIsStored, StoredPoints
<1> QED BY <1>1, ClientStepKeeps, PostKeeps, ServeKeeps, ConcludeKeeps, SendToKeeps,
           DeliverKeeps DEF PathNext

\* What is on its way, what has been answered and what is stored fit the call in
\* progress and what it has been told, in every reachable state.
THEOREM PathInvariantHolds == PathSpec => []PInv
BY PInvInit, PInvNext, PTL DEF PathSpec

\* Requests, answers, lines and what is counted of them keep to their types.
THEOREM PathTypeCorrect == PathSpec => []PathTypeOK
<1>1. PInv => PathTypeOK
  BY DEF PInv
<1> QED BY <1>1, PathInvariantHolds, PTL

\* Over HTTP every point whose write or flush returned is stored, unless it was
\* redirected, whichever requests and answers are lost or late; over datagrams
\* no point is stored whose send did not return.
THEOREM AcceptedPointsAreStored == PathSpec => []AcceptedIsStored
<1>1. PInv => AcceptedIsStored
  BY DEF PInv
<1> QED BY <1>1, PathInvariantHolds, PTL

-----------------------------------------------------------------------------
(* The batch that has outgrown the datagram.                               *)

Stuck == \A p \in Range(mPointBatch) : fate'[p] \in {"held", "cleared", "dropped"}

\* No point is in the batch and in the loop of a write.
LEMMA BatchAndLoopAreApart ==
    ASSUME IInv, NEW p \in Range(mPointBatch)
    PROVE  p \notin Range(todo)
<1> SUFFICES ASSUME p \in Range(todo) PROVE FALSE
  OBVIOUS
<1>1. PICK i \in DOMAIN mPointBatch : p = mPointBatch[i]
  BY DEF Range
<1>2. PICK j \in DOMAIN todo : p = todo[j]
  BY DEF Range
<1>3. p < p
  BY <1>1, <1>2, InOrder DEF FirstInFirstOut, Before
<1>4. p \in Nat
  BY MembersOfSequences
<1> QED BY <1>3, <1>4

LEMMA OutgrownStep ==
    ASSUME IInv, [PathNext]_pathVars,
           transport = "datagram", Len(mPointBatch) > MaxDatagram
    PROVE  Stuck
<1>1. \A p \in Range(mPointBatch) : p \in 1..issued /\ fate[p] = "held"
  BY MembersOfSequences
<1>2. CASE UNCHANGED fate
  BY <1>1, <1>2 DEF Stuck
<1>3. CASE Call
  <2>1. CASE clearBatch
    BY <1>1, <2>1 DEF clearBatch, Settle, Stuck
  <2>2. CASE writePoint \/ writeVector
    <3>1. PICK n \in Nat : Hand(n)
      BY <2>2, BoundsAreNaturals DEF writePoint, writeVector
    <3>2. \A p \in 1..issued : fate'[p] = fate[p]
      BY <3>1 DEF Hand, IInv, TypeOK
    <3> QED BY <1>1, <3>2 DEF Stuck
  <2>3. ASSUME \/ flushBatch
               \/ \E size \in BatchSizes : batchOf(size)
               \/ \E tag \in Tags : addGlobalTag(tag)
        PROVE  UNCHANGED fate
    BY <2>3 DEF flushBatch, batchOf, addGlobalTag, history
  <2> QED BY <1>2, <1>3, <2>1, <2>2, <2>3 DEF Call
<1>4. CASE Local
  <2>1. CASE Destroy
    BY <1>1, <2>1 DEF Destroy, Settle, Stuck
  <2>2. addPointToBatch \/ Ended => UNCHANGED fate
    BY DEF addPointToBatch, Ended, vars, history
  <2> QED BY <1>2, <1>4, <2>1, <2>2 DEF Local
<1>5. CASE sendTo
  <2>1. pc = "sending"
    BY <1>5 DEF sendTo
  <2>2. CASE sending.batched
    <3>1. sending.points = mPointBatch
      BY <2>1, <2>2 DEF IInv, CallState
    <3>2. ~(Len(sending.points) <= MaxDatagram)
      <4>1. Len(mPointBatch) \in Nat
        BY LengthOfPoints DEF IInv, TypeOK
      <4> QED BY <3>1, <4>1, TransportsAreKnown
    <3>3. fate' = Settle(Range(todo), "abandoned")
      BY <1>5, <2>2, <3>2 DEF sendTo, sendThrows
    <3> QED BY <1>1, <3>3, BatchAndLoopAreApart DEF Settle, Stuck
  <2>3. CASE ~sending.batched
    <3>1. mPointBatch = <<>>
      BY <2>1, <2>3 DEF IInv, CallState
    <3> QED BY <3>1 DEF Stuck, Range
  <2> QED BY <2>2, <2>3
<1>6. CASE post \/ UNCHANGED pathVars
  BY <1>2, <1>6 DEF post, pathVars, vars, history
<1>7. ASSUME NEW request, serve(request) \/ deliver(request)
      PROVE  UNCHANGED fate
  BY <1>7 DEF serve, deliver, vars, history
<1>8. ~answered /\ ~broken
  BY DEF answered, broken, conclude
<1> QED BY <1>2, <1>3, <1>4, <1>5, <1>6, <1>7, <1>8 DEF PathNext

\* A batch longer than a datagram is never sent, in parts neither, for every
\* size of a batch and of a datagram.
THEOREM OutgrownBatchesAreStuck == PathSpec => OutgrownBatchIsStuck
<1>1. PInv => IInv
  BY DEF PInv
<1>2. IInv /\ [PathNext]_pathVars =>
          [transport = "datagram" /\ Len(mPointBatch) > MaxDatagram =>
              \A p \in Range(mPointBatch) :
                  fate'[p] \in {"held", "cleared", "dropped"}]_pathVars
  BY OutgrownStep DEF Stuck
<1> QED BY <1>1, <1>2, PathInvariantHolds, PTL DEF PathSpec, OutgrownBatchIsStuck

-----------------------------------------------------------------------------
(* The path keeps the promise of module Delivery.                          *)

Excused == IF transport = "http" THEN redirected ELSE Range(acked)

\* Calls hand over points, and nothing else is seen of them.
LEMMA ClientStepDelivers ==
    ASSUME PInv, Call \/ Local
    PROVE  Promise!Write \/ UNCHANGED Promise!vars
<1>1. UNCHANGED <<acked, stored, redirected, transport>>
  BY ClientSteps DEF path
<1>2. UNCHANGED <<Range(acked), StoredPoints, Excused>>
  BY <1>1 DEF StoredPoints, Excused
<1>3. issued' > issued \/ UNCHANGED issued
  BY WrittenStays, ClientSteps DEF PInv
<1> QED BY <1>2, <1>3 DEF Promise!Write, Promise!vars, Excused

\* Serving stores points that have been handed over.
LEMMA ServingDelivers ==
    ASSUME PInv, NEW r \in network, serve(r) \/ deliver(r)
    PROVE  Promise!Store
<1>1. /\ StoredPoints \subseteq StoredPoints'
      /\ StoredPoints' \subseteq StoredPoints \union Range(r.points)
      /\ UNCHANGED <<issued, acked, redirected, transport>>
  BY WhatServingStores DEF vars, history
<1>2. Range(r.points) \in SUBSET (1..issued)
  BY DEF PInv, UnderWay
<1>3. StoredPoints' \ StoredPoints \in SUBSET (1..issued)
  BY <1>1, <1>2
<1>4. StoredPoints' = StoredPoints \union (StoredPoints' \ StoredPoints)
  BY <1>1
<1>5. UNCHANGED <<Range(acked), Excused>>
  BY <1>1 DEF Excused
<1> QED BY <1>1, <1>3, <1>4, <1>5 DEF Promise!Store, Excused

\* Over HTTP what is accepted is stored or redirected ...
LEMMA ConcludingDelivers ==
    ASSUME PInv, answered \/ broken
    PROVE  Promise!Accept \/ Promise!Excuse \/ UNCHANGED Promise!vars
<1>1. /\ transport = "http" /\ UNCHANGED <<transport, stored, issued>>
      /\ StoredPoints' = StoredPoints
  BY HowRequestsEnd DEF StoredPoints
<1>2. Excused = redirected /\ Excused' = redirected'
  BY <1>1 DEF Excused
<1>3. Range(sending.points) \in SUBSET (1..issued)
  BY WrittenPoints DEF PInv
<1>4. CASE UNCHANGED <<acked, redirected>>
  BY <1>1, <1>2, <1>4 DEF Promise!vars, Excused
<1>5. CASE /\ Range(acked') = Range(acked) \union Range(sending.points)
           /\ Range(sending.points) \subseteq StoredPoints
           /\ UNCHANGED redirected
  BY <1>1, <1>2, <1>5 DEF Promise!Accept, Excused
<1>6. CASE /\ Range(acked') = Range(acked) \union Range(sending.points)
           /\ redirected' = redirected \union Range(sending.points)
  BY <1>1, <1>2, <1>3, <1>6 DEF Promise!Excuse, Excused
<1> QED BY <1>4, <1>5, <1>6, HowRequestsEnd

\* ... and of what goes in a datagram nothing is promised.
LEMMA SendingToDelivers ==
    ASSUME PInv, sendTo
    PROVE  Promise!Excuse \/ UNCHANGED Promise!vars
<1>1. /\ transport = "datagram" /\ transport' = "datagram" /\ UNCHANGED issued
      /\ StoredPoints' = StoredPoints
  BY SendToSteps DEF StoredPoints
<1>2. Excused = Range(acked) /\ Excused' = Range(acked')
  BY <1>1 DEF Excused
<1>3. Range(sending.points) \in SUBSET (1..issued)
  BY WrittenPoints DEF PInv
<1>4. CASE UNCHANGED acked
  BY <1>1, <1>2, <1>4 DEF Promise!vars, Excused
<1>5. CASE Range(acked') = Range(acked) \union Range(sending.points)
  BY <1>1, <1>2, <1>3, <1>5 DEF Promise!Excuse, Excused
<1> QED BY <1>4, <1>5, SendToSteps

LEMMA StepDelivers == PInv /\ [PathNext]_pathVars => [Promise!Next]_(Promise!vars)
<1> SUFFICES ASSUME PInv, [PathNext]_pathVars PROVE [Promise!Next]_(Promise!vars)
  OBVIOUS
<1>1. CASE post \/ UNCHANGED pathVars
  <2>1. UNCHANGED <<issued, acked, stored, redirected, transport>>
    BY <1>1 DEF post, pathVars, path, vars, history
  <2> QED BY <2>1 DEF Promise!vars, StoredPoints
<1> QED BY <1>1, ClientStepDelivers, ServingDelivers, ConcludingDelivers,
           SendingToDelivers DEF PathNext, Promise!Next

\* The write path implements Delivery: over HTTP what is accepted is present or
\* was redirected and stays so, and whatever is present has been written.
THEOREM PathIsDelivery == PathSpec => IsDelivery
<1>1. PathInit => Promise!Init
  <2> SUFFICES ASSUME PathInit PROVE Promise!Init
    OBVIOUS
  <2>1. issued = 0 /\ acked = <<>> /\ stored = <<>> /\ redirected = {}
    BY DEF PathInit, Init
  <2>2. StoredPoints = {} /\ Range(acked) = {}
    BY <2>1 DEF StoredPoints, Range
  <2> QED BY <2>1, <2>2 DEF Promise!Init
<1> QED BY <1>1, StepDelivers, PathInvariantHolds, PTL
        DEF PathSpec, IsDelivery, Promise!Spec

-----------------------------------------------------------------------------
(* The inductive invariant with what became of points and requests.        *)

\* A bad line is in no request that is answered with success, and accepted by a
\* redirection only.
PoisonIsRefused ==
    /\ answer.curlOk /\ answer.code < 300 =>
           Range(sending.points) \cap Poison = {}
    /\ transport = "http" => Range(acked) \cap Poison \subseteq redirected

\* A point whose send threw is none that the call in progress has in hand.
RetriedIsSettled == retried \subseteq 1..Newest

\* Nothing of a point was ever sent a second time.
Once(p) == transport = "datagram" \/ p \notin retried \/ fate[p] = "lost"

InTransit(p) == \E r \in network : p \in Range(r.points)

\* A point that was sent once is on its way, or stored, or neither, but never
\* twice; and one that is still to be sent is neither.
Single ==
    /\ \A r \in network : Increasing(r.points)
    /\ \A i, j \in DOMAIN stored :
          i # j /\ stored[i].point = stored[j].point => ~Once(stored[i].point)
    /\ \A r \in network : \A p \in Range(r.points) :
          Once(p) => p \notin StoredPoints
    /\ \A r, s \in network : \A p \in Range(r.points) \cap Range(s.points) :
          Once(p) => r = s
    /\ \A p \in 1..issued :
          (/\ fate[p] = "held" /\ Once(p)
           /\ ~(current # 0 /\ p \in Range(sending.points)))
          => p \notin StoredPoints /\ ~InTransit(p)

\* The tags of a line are some the client had at a time, not before its write.
Tagged(p, tags) ==
    /\ tags \in Seq(Tags)
    /\ IsPrefix(tagsAt[p], tags)
    /\ IsPrefix(tags, mGlobalTags)

LinesAreTagged ==
    /\ \A i \in DOMAIN stored : Tagged(stored[i].point, stored[i].tags)
    /\ \A r \in network : \A p \in Range(r.points) : Tagged(p, r.tags)

HInv ==
    /\ PInv
    /\ TagState
    /\ PoisonIsRefused
    /\ RetriedIsSettled
    /\ Single
    /\ LinesAreTagged

-----------------------------------------------------------------------------
(* What the server stores of a request, line by line.                      *)

\* Lines that may be stored of a request.
LinesOf(r) == {All(r)} \union Perhaps(r)

\* The element of a concatenation is one of its parts.
LEMMA ConcatCases ==
    ASSUME NEW S, NEW s \in Seq(S), NEW t \in Seq(S), NEW k \in DOMAIN (s \o t)
    PROVE  \/ k \in DOMAIN s /\ (s \o t)[k] = s[k]
           \/ k - Len(s) \in DOMAIN t /\ (s \o t)[k] = t[k - Len(s)]
<1>1. /\ Len(s) \in Nat /\ Len(t) \in Nat
      /\ DOMAIN s = 1..Len(s) /\ DOMAIN t = 1..Len(t)
  BY LenProperties
<1>2. /\ s \o t \in Seq(S)
      /\ Len(s \o t) = Len(s) + Len(t)
      /\ \A i \in 1..(Len(s) + Len(t)) :
            (s \o t)[i] = IF i <= Len(s) THEN s[i] ELSE t[i - Len(s)]
  BY ConcatProperties
<1>3. k \in 1..(Len(s) + Len(t))
  BY <1>2, LenProperties
<1> QED BY <1>1, <1>2, <1>3

\* Each line is of a point of the request and has its tags, and each point has
\* one line at the most.
LEMMA LinesOfProperties ==
    ASSUME NEW r \in Requests, Increasing(r.points), NEW lines \in LinesOf(r)
    PROVE  /\ lines \in Seq(Lines)
           /\ \A k \in DOMAIN lines :
                 lines[k].point \in Range(r.points) /\ lines[k].tags = r.tags
           /\ \A k, m \in DOMAIN lines :
                 k # m => lines[k].point # lines[m].point
<1>1. lines \in Seq(Lines)
  BY LinesOfRequest DEF LinesOf
<1>2. /\ r.points \in Seq(Points) /\ Len(r.points) \in Nat
      /\ DOMAIN r.points = 1..Len(r.points)
      /\ \A i \in DOMAIN r.points : r.points[i] \in Nat
  BY ElementOfSeq, LenProperties DEF Requests, Points
<1>3. \A i, j \in DOMAIN r.points : i # j => r.points[i] # r.points[j]
  BY <1>2 DEF Increasing
<1>4. /\ DOMAIN All(r) = DOMAIN r.points
      /\ \A i \in DOMAIN r.points :
            All(r)[i].point = r.points[i] /\ All(r)[i].tags = r.tags
  BY DEF All, Line
<1>5. CASE lines = All(r)
  BY <1>1, <1>3, <1>4, <1>5 DEF Range
<1>6. CASE lines = <<>>
  BY <1>1, <1>6
<1>7. CASE lines \in Good(r)
  <2> DEFINE good == {i \in DOMAIN r.points : r.points[i] \notin Poison}
  <2>1. PICK f \in [1..Cardinality(good) -> good] :
            /\ \A i, j \in DOMAIN f : i < j => f[i] < f[j]
            /\ lines = [k \in DOMAIN f |-> All(r)[f[k]]]
    BY <1>7 DEF Good
  <2>2. /\ DOMAIN lines = 1..Cardinality(good)
        /\ \A k \in DOMAIN lines :
              f[k] \in DOMAIN r.points /\ lines[k] = All(r)[f[k]]
    BY <2>1
  <2>3. \A k, m \in DOMAIN lines : k # m => f[k] # f[m]
    <3>1. IsFiniteSet(good)
      <4>1. IsFiniteSet(1..Len(r.points))
        BY <1>2, NumbersUpTo
      <4>2. good \subseteq 1..Len(r.points)
        BY <1>2
      <4> QED BY <4>1, <4>2, FS_Subset
    <3>2. Cardinality(good) \in Nat
      BY <3>1, FS_CardinalityType
    <3>3. \A k \in 1..Cardinality(good) : f[k] \in Nat
      BY <1>2, <2>2
    <3> QED BY <2>1, <2>2, <3>2, <3>3
  <2> QED BY <1>1, <1>3, <1>4, <2>2, <2>3 DEF Range
<1> QED BY <1>5, <1>6, <1>7 DEF LinesOf, Perhaps

LEMMA ServedLines ==
    ASSUME NEW r \in Requests, NEW s \in Served(r)
    PROVE  /\ s[2] \in LinesOf(r)
           /\ s[1] < 300 => Range(r.points) \cap Poison = {}
<1>1. \A code \in Refusals \union {400} : code \in Nat /\ ~(code < 300)
  BY ServerIsSane
<1>2. <<>> \in Perhaps(r)
  BY DEF Perhaps
<1>3. \/ s[1] = 204 /\ s[2] = All(r) /\ Range(r.points) \cap Poison = {}
      \/ s[1] \in Refusals \union {400} /\ s[2] \in Perhaps(r)
  BY <1>2 DEF Served
<1> QED BY <1>1, <1>3 DEF LinesOf

\* Serving a request or delivering a datagram stores lines of it.
LEMMA WhatIsStored ==
    ASSUME PInv, NEW r \in network, serve(r) \/ deliver(r)
    PROVE  /\ r \in Requests /\ stored \in Seq(Lines)
           /\ \E lines \in LinesOf(r) : stored' = stored \o lines
           /\ network' = network \ {r}
           /\ UNCHANGED <<vars, transport, current>>
<1>1. r \in Requests /\ stored \in Seq(Lines)
  BY DEF PInv, PathTypeOK
<1>2. CASE serve(r)
  BY <1>1, <1>2, ServedLines DEF serve
<1>3. CASE deliver(r)
  BY <1>1, <1>3 DEF deliver, LinesOf
<1> QED BY <1>1, <1>2, <1>3

-----------------------------------------------------------------------------
(* What the server refuses.                                                *)

LEMMA PoisonNext ==
    ASSUME HInv, [PathNext]_pathVars
    PROVE  PoisonIsRefused'
<1> USE DEF HInv
<1>1. CASE UNCHANGED pathVars
  BY <1>1 DEF PoisonIsRefused, pathVars, path, vars, control, history
<1>2. CASE Call \/ Local
  <2>1. pc # "sending" /\ UNCHANGED acked /\ UNCHANGED path
    BY <1>2, ClientSteps
  <2>2. ~answer.curlOk
    BY <2>1 DEF PInv, AnswerIsToCall
  <2> QED BY <2>1, <2>2 DEF PoisonIsRefused, path
<1>3. CASE post
  BY <1>3 DEF PoisonIsRefused, post, vars, control, history
<1>4. ASSUME NEW r \in network, serve(r)
      PROVE  PoisonIsRefused'
  <2>1. /\ r \in Requests
        /\ UNCHANGED <<sending, acked, transport, redirected>>
    BY <1>4 DEF PInv, PathTypeOK, serve, vars, control, history
  <2>2. PICK served \in Served(r) :
            \/ /\ r.id = current
               /\ \E body \in BodiesFor(served[1]) :
                     answer' = Response(served[1], body)
            \/ /\ r.id # current
               /\ UNCHANGED answer
    BY <1>4 DEF serve
  <2>3. served[1] < 300 => Range(r.points) \cap Poison = {}
    BY <2>1, ServedLines
  <2>4. CASE r.id # current
    BY <2>1, <2>2, <2>4 DEF PoisonIsRefused
  <2>5. CASE r.id = current
    <3>1. r.points = sending.points
      BY <1>4, <2>5 DEF PInv, AnswerIsToCall, UnderWay
    <3>2. answer'.code = served[1]
      BY <2>2, <2>5 DEF Response
    <3> QED BY <2>1, <2>3, <3>1, <3>2 DEF PoisonIsRefused
  <2> QED BY <2>4, <2>5
<1>5. CASE answered \/ broken
  <2>1. ~answer'.curlOk
    BY <1>5, HowRequestsEnd DEF NoAnswer
  <2> QED BY <1>5, <2>1, HowRequestsEnd DEF PoisonIsRefused
<1>6. CASE sendTo
  BY <1>6, SendToSteps DEF PInv, AnswerIsToCall, PoisonIsRefused
<1>7. ASSUME NEW r \in network, deliver(r)
      PROVE  PoisonIsRefused'
  BY <1>7 DEF PoisonIsRefused, deliver, vars, control, history
<1> QED BY <1>1, <1>2, <1>3, <1>4, <1>5, <1>6, <1>7 DEF PathNext

\* A point the client holds comes behind all that were accepted.
LEMMA HeldIsBehind ==
    ASSUME IInv, NEW p \in 1..issued, fate[p] = "held", NEW q \in Range(acked)
    PROVE  q < p
<1>1. p \in Range(mPointBatch) \union Range(todo) \union Range(Direct)
  BY DEF IInv, Conservation
<1>2. \A s \in {mPointBatch, todo, Direct} : Before(acked, s)
  BY InOrder DEF FirstInFirstOut
<1> QED BY <1>1, <1>2 DEF Before, Range

LEMMA PoisonSuffices == HInv => NothingPassesPoison
<1> SUFFICES ASSUME HInv, NEW p \in Poison \cap 1..issued
             PROVE  /\ transport = "http" /\ p \in Range(acked) => p \in redirected
                    /\ fate[p] = "held" => \A q \in p..issued : q \notin Range(acked)
  BY DEF NothingPassesPoison
<1>1. issued \in Nat
  BY DEF HInv, PInv, IInv, TypeOK
<1>2. fate[p] = "held" => \A q \in p..issued : q \notin Range(acked)
  BY <1>1, HeldIsBehind DEF HInv, PInv
<1> QED BY <1>2 DEF HInv, PoisonIsRefused
-----------------------------------------------------------------------------
(* What was sent twice.                                                    *)

\* Every step leaves points whose send threw behind the ones in hand.
LEMMA RetriedNext ==
    ASSUME IInv, RetriedIsSettled, [Next]_vars
    PROVE  RetriedIsSettled'
<1>1. /\ Newest \in Nat /\ Newest <= issued /\ issued \in Nat
      /\ Len(Direct) \in Nat
  BY NewestValue, DirectType, LengthOfPoints DEF IInv, TypeOK
<1>2. CASE sendThrows
  <2>1. retried' = retried \union Range(sending.points) /\ Newest' = issued
    BY <1>2, NewestNext DEF IInv, sendThrows
  <2>2. 1..Newest \subseteq 1..issued
    BY <1>1
  <2> QED BY <2>1, <2>2, WrittenPoints DEF RetriedIsSettled
<1>3. CASE ~sendThrows
  <2>1. retried' = retried
    BY <1>3 DEF Next, vars, history, batchOf, clearBatch, addGlobalTag, Destroy,
                flushBatch, writePoint, writeVector, Hand, writeEmptyVector,
                addPointToBatch, sendReturns, Ended
  <2>2. Newest' \in Nat /\ Newest <= Newest'
    <3>1. pc \in {"adding", "sending"} =>
              UNCHANGED vars \/ addPointToBatch \/ sendReturns
      BY <1>3 DEF Next, batchOf, clearBatch, addGlobalTag, Destroy, flushBatch,
                  writePoint, writeVector, Hand, writeEmptyVector, Ended
    <3> QED BY <1>1, <1>3, <3>1, NewestNext DEF IInv
  <2>3. 1..Newest \subseteq 1..Newest'
    BY <1>1, <2>2
  <2> QED BY <2>1, <2>3 DEF RetriedIsSettled
<1> QED BY <1>2, <1>3

\* A point that has been sent more than once stays one.
LEMMA OnceStays ==
    ASSUME HInv, [PathNext]_pathVars, NEW p \in 1..issued, Once(p)'
    PROVE  Once(p)
<1> USE DEF HInv, PInv
<1>1. [Next]_vars /\ transport' = transport
  BY PathStepIsStep, ClientSteps
  DEF PathNext, pathVars, path, post, serve, answered, broken, conclude, sendTo,
      deliver
<1>2. /\ issued \in Nat /\ fate \in [1..issued -> Fates]
      /\ Newest \in Nat /\ Newest <= issued
  BY NewestValue DEF IInv, TypeOK
<1>3. CASE sendThrows
  <2>1. /\ retried \subseteq retried'
        /\ fate' = IF sending.batched
                      THEN Settle(Range(todo), "abandoned")
                      ELSE Settle(Range(sending.points), "lost")
    BY <1>3 DEF sendThrows
  <2>2. ASSUME p \in retried, fate'[p] = "lost" PROVE fate[p] = "lost"
    <3>1. CASE sending.batched
      BY <1>2, <2>1, <2>2, <3>1, SettleProperties DEF Fates
    <3>2. CASE ~sending.batched
      <4>1. Newest = issued - Len(Direct) /\ Direct = sending.points
        BY <1>3, <3>2, NewestValue DEF IInv, Direct, sendThrows
      <4>2. p <= issued - Len(Direct) /\ Direct \in Seq(Points)
        BY <1>2, <2>2, <4>1, DirectType DEF RetriedIsSettled, IInv
      <4>3. p \notin Range(Direct)
        BY <1>2, <4>2, RangeBounds, LengthOfPoints DEF IInv, InHand
      <4> QED BY <1>2, <2>1, <2>2, <3>2, <4>1, <4>3, SettleProperties DEF Fates
    <3> QED BY <3>1, <3>2
  <2> QED BY <1>1, <2>1, <2>2 DEF Once
<1>4. CASE ~sendThrows
  <2>1. /\ retried' = retried
        /\ \/ fate' = fate
           \/ \E ps, f : f # "lost" /\ fate' = Settle(ps, f)
           \/ \E n \in Nat : Hand(n)
    <3>1. CASE UNCHANGED vars \/ flushBatch \/ writeEmptyVector \/ addPointToBatch
               \/ \E tag \in Tags : addGlobalTag(tag)
      BY <3>1 DEF vars, history, flushBatch, writeEmptyVector, addPointToBatch,
                  addGlobalTag
    <3>2. CASE \E size \in BatchSizes : batchOf(size)
      BY <3>2 DEF batchOf
    <3>3. CASE clearBatch \/ Destroy \/ sendReturns
      BY <3>3 DEF clearBatch, Destroy, sendReturns
    <3>4. CASE writePoint \/ writeVector
      <4>1. PICK n \in Nat : Hand(n)
        BY <3>4, BoundsAreNaturals DEF writePoint, writeVector
      <4>2. retried' = retried
        BY <4>1 DEF Hand
      <4> QED BY <4>1, <4>2
    <3> QED BY <1>1, <1>4, <3>1, <3>2, <3>3, <3>4 DEF Next, Ended
  <2>2. fate'[p] = "lost" => fate[p] = "lost"
    <3>1. ASSUME NEW ps, NEW f, f # "lost", fate' = Settle(ps, f)
          PROVE  fate'[p] = "lost" => fate[p] = "lost"
      BY <1>2, <3>1 DEF Settle
    <3>2. ASSUME NEW n \in Nat, Hand(n) PROVE fate'[p] = fate[p]
      BY <1>2, <3>2 DEF Hand
    <3> QED BY <2>1, <3>1, <3>2
  <2> QED BY <1>1, <2>1, <2>2 DEF Once
<1> QED BY <1>3, <1>4

\* What is on its way or stored is of points that were written.
LEMMA SentWasWritten ==
    ASSUME PInv
    PROVE  /\ \A r \in network : r \in Requests /\ Range(r.points) \subseteq 1..issued
           /\ stored \in Seq(Lines)
           /\ \A i \in DOMAIN stored :
                 stored[i].point \in StoredPoints /\ stored[i].point \in 1..issued
<1>1. \A i \in DOMAIN stored : stored[i].point \in StoredPoints
  BY DEF StoredPoints, Range
<1> QED BY <1>1 DEF PInv, PathTypeOK, UnderWay, StoredWasWritten

\* A step that neither sends nor stores anything keeps Single, when points it
\* leaves held were so, and not in a request of the call.
LEMMA SingleStays ==
    ASSUME HInv, [PathNext]_pathVars, UNCHANGED <<network, stored>>,
           \A p \in 1..issued :
               (/\ fate[p] = "held" /\ fate'[p] = "held" /\ Once(p)'
                /\ current # 0 /\ p \in Range(sending.points))
               => current' # 0 /\ p \in Range(sending'.points)
    PROVE  Single'
<1> USE DEF HInv
<1>1. [Next]_vars
  BY PathStepIsStep
<1>2. /\ StoredPoints' = StoredPoints
      /\ StoredPoints \subseteq 1..issued
      /\ \A p : InTransit(p)' <=> InTransit(p)
      /\ \A p : InTransit(p) => p \in 1..issued
  BY DEF StoredPoints, InTransit, PInv, UnderWay, StoredWasWritten
<1>3. \A p \in 1..issued : Once(p)' => Once(p)
  BY OnceStays
<1>4. \A i, j \in DOMAIN stored :
          i # j /\ stored[i].point = stored[j].point => ~Once(stored[i].point)'
  BY <1>3, SentWasWritten DEF Single
<1>5. /\ \A r \in network : Increasing(r.points)
      /\ \A r \in network : \A p \in Range(r.points) :
            Once(p)' => p \notin StoredPoints
      /\ \A r, s \in network : \A p \in Range(r.points) \cap Range(s.points) :
            Once(p)' => r = s
  BY <1>3, SentWasWritten DEF Single
<1>6. ASSUME NEW p \in 1..issued', fate'[p] = "held", Once(p)',
             ~(current' # 0 /\ p \in Range(sending'.points))
      PROVE  p \notin StoredPoints /\ ~InTransit(p)
  <2>1. CASE p \notin 1..issued
    BY <1>2, <2>1
  <2>2. CASE p \in 1..issued
    <3>1. fate[p] = "held"
      BY <1>1, <1>6, <2>2, FateIsFinal DEF PInv
    <3>2. ~(current # 0 /\ p \in Range(sending.points))
      BY <1>6, <2>2, <3>1
    <3> QED BY <1>3, <1>6, <2>2, <3>1, <3>2 DEF Single
  <2> QED BY <2>1, <2>2
<1> QED BY <1>2, <1>4, <1>5, <1>6 DEF Single

\* What goes out is a batch or the points of a write, none of it on its way yet
\* but what has been sent before.
LEMMA SingleSend ==
    ASSUME HInv, [PathNext]_pathVars, pc = "sending", current = 0,
           network' = network \union {Request}, UNCHANGED stored,
           \A p \in Range(sending.points) :
               fate'[p] = "held" =>
                   current' # 0 /\ p \in Range(sending'.points)
    PROVE  Single'
<1> USE DEF HInv
<1>1. [Next]_vars
  BY PathStepIsStep
<1>2. StoredPoints' = StoredPoints /\ StoredPoints \subseteq 1..issued
  BY DEF StoredPoints, PInv, StoredWasWritten
<1>3. \A p \in 1..issued : Once(p)' => Once(p)
  BY OnceStays
<1>4. Request.points = sending.points
  BY RequestType
<1>5. Increasing(sending.points)
  BY InOrder DEF PInv, IInv, CallState, FirstInFirstOut, Direct
<1>6. ASSUME NEW p \in Range(sending.points)
      PROVE  p \in 1..issued /\ (Once(p)' => p \notin StoredPoints /\ ~InTransit(p))
  <2>1. p \in 1..issued /\ fate[p] = "held"
    BY MembersOfSequences DEF PInv
  <2> QED BY <1>3, <2>1 DEF Single
<1>7. \A r \in network' : Increasing(r.points)
  BY <1>4, <1>5 DEF Single
<1>8. \A i, j \in DOMAIN stored :
          i # j /\ stored[i].point = stored[j].point => ~Once(stored[i].point)'
  BY <1>3, SentWasWritten DEF Single
<1>9. ASSUME NEW r \in network', NEW p \in Range(r.points), Once(p)'
      PROVE  p \notin StoredPoints
  BY <1>3, <1>4, <1>6, <1>9, SentWasWritten DEF Single
<1>10. ASSUME NEW r \in network', NEW s \in network',
              NEW p \in Range(r.points) \cap Range(s.points), Once(p)'
       PROVE  r = s
  <2>1. CASE r \in network /\ s \in network
    BY <1>3, <1>10, <2>1, SentWasWritten DEF Single
  <2>2. CASE r = Request /\ s \in network
    BY <1>4, <1>6, <1>10, <2>2 DEF InTransit
  <2>3. CASE r \in network /\ s = Request
    BY <1>4, <1>6, <1>10, <2>3 DEF InTransit
  <2> QED BY <1>10, <2>1, <2>2, <2>3
<1>11. ASSUME NEW p \in 1..issued', fate'[p] = "held", Once(p)',
              ~(current' # 0 /\ p \in Range(sending'.points))
       PROVE  p \notin StoredPoints /\ ~InTransit(p)'
  <2>1. p \notin Range(sending.points)
    BY <1>11
  <2>2. InTransit(p)' => InTransit(p)
    BY <1>4, <2>1 DEF InTransit
  <2>3. CASE p \notin 1..issued
    BY <1>2, <2>2, <2>3, SentWasWritten DEF InTransit
  <2>4. CASE p \in 1..issued
    BY <1>1, <1>3, <1>11, <2>2, <2>4, FateIsFinal DEF Single, PInv
  <2> QED BY <2>3, <2>4
<1> QED BY <1>2, <1>7, <1>8, <1>9, <1>10, <1>11 DEF Single

\* What is served or delivered is stored, and is on its way no more.
LEMMA SingleServe ==
    ASSUME HInv, NEW r \in network, serve(r) \/ deliver(r)
    PROVE  Single'
<1> USE DEF HInv
<1>1. /\ r \in Requests /\ stored \in Seq(Lines)
      /\ network' = network \ {r}
      /\ StoredPoints' \subseteq StoredPoints \union Range(r.points)
      /\ UNCHANGED <<vars, transport, current>>
  BY WhatIsStored, WhatServingStores
<1>2. PICK lines \in LinesOf(r) : stored' = stored \o lines
  BY WhatIsStored
<1>3. UNCHANGED <<issued, fate, retried, sending>> /\ \A p : Once(p)' <=> Once(p)
  BY <1>1 DEF vars, control, history, Once
<1>4. /\ lines \in Seq(Lines)
      /\ \A k \in DOMAIN lines : lines[k].point \in Range(r.points)
      /\ \A k, m \in DOMAIN lines : k # m => lines[k].point # lines[m].point
  BY <1>1, LinesOfProperties DEF Single
<1>5. \A p \in Range(r.points) : Once(p) => p \notin StoredPoints
  BY DEF Single
<1>6. ASSUME NEW i \in DOMAIN stored', NEW j \in DOMAIN stored', i # j,
             stored'[i].point = stored'[j].point
      PROVE  ~Once(stored'[i].point)
  <2>1. \/ i \in DOMAIN stored /\ stored'[i] = stored[i]
        \/ i - Len(stored) \in DOMAIN lines /\ stored'[i] = lines[i - Len(stored)]
    BY <1>1, <1>2, <1>4, <1>6, ConcatCases
  <2>2. \/ j \in DOMAIN stored /\ stored'[j] = stored[j]
        \/ j - Len(stored) \in DOMAIN lines /\ stored'[j] = lines[j - Len(stored)]
    BY <1>1, <1>2, <1>4, <1>6, ConcatCases
  <2>3. i - Len(stored) # j - Len(stored)
    <3>1. Len(stored) \in Nat /\ stored' \in Seq(Lines)
      BY <1>1, <1>2, <1>4, ConcatProperties, LenProperties
    <3>2. i \in Nat /\ j \in Nat
      BY <3>1, LenProperties
    <3> QED BY <1>6, <3>1, <3>2
  <2>4. \A k \in DOMAIN stored : stored[k].point \in StoredPoints
    BY SentWasWritten
  <2> QED BY <1>4, <1>5, <1>6, <2>1, <2>2, <2>3, <2>4 DEF Single
<1>7. ASSUME NEW q \in network', NEW p \in Range(q.points), Once(p)
      PROVE  p \notin StoredPoints'
  BY <1>1, <1>7 DEF Single
<1>8. ASSUME NEW p \in 1..issued, fate[p] = "held", Once(p),
             ~(current # 0 /\ p \in Range(sending.points))
      PROVE  p \notin StoredPoints' /\ ~InTransit(p)'
  BY <1>1, <1>8 DEF Single, InTransit
<1>9. /\ \A q \in network' : Increasing(q.points)
      /\ \A q, s \in network' : \A p \in Range(q.points) \cap Range(s.points) :
            Once(p) => q = s
  BY <1>1 DEF Single
<1> QED BY <1>1, <1>3, <1>6, <1>7, <1>8, <1>9 DEF Single

LEMMA SingleNext ==
    ASSUME HInv, [PathNext]_pathVars
    PROVE  Single'
<1> USE DEF HInv
<1>1. CASE UNCHANGED pathVars
  BY <1>1, SingleStays DEF pathVars, path, vars, control
<1>2. CASE Call \/ Local
  <2>1. current = 0
    BY <1>2, ClientSteps DEF PInv, AnswerIsToCall
  <2> QED BY <1>2, <2>1, ClientSteps, SingleStays DEF path
<1>3. CASE post
  <2>1. /\ pc = "sending" /\ current = 0 /\ UNCHANGED <<stored, vars>>
        /\ network' = network \union {Request}
        /\ current' = requests + 1 /\ requests \in Nat
    BY <1>3 DEF post, PInv, PathTypeOK
  <2>2. current' # 0 /\ sending' = sending
    BY <2>1 DEF vars, control
  <2> QED BY <2>1, <2>2, SingleSend
<1>4. ASSUME NEW r \in network, serve(r) \/ deliver(r)
      PROVE  Single'
  BY <1>4, SingleServe
<1>5. CASE answered \/ broken
  <2>1. UNCHANGED <<network, stored>> /\ (sendReturns \/ sendThrows)
    BY <1>5 DEF answered, broken, conclude
  <2>2. transport = "http" /\ transport' = transport
    BY <1>5, HowRequestsEnd
  <2>3. ASSUME NEW p \in 1..issued, p \in Range(sending.points)
        PROVE  fate'[p] # "held" \/ ~Once(p)'
    <3>1. CASE sendReturns
      BY <2>3, <3>1 DEF sendReturns, Settle
    <3>2. CASE sendThrows /\ ~sending.batched
      BY <2>3, <3>2 DEF sendThrows, Settle
    <3>3. CASE sendThrows /\ sending.batched
      BY <2>2, <2>3, <3>3 DEF sendThrows, Once
    <3> QED BY <2>1, <3>1, <3>2, <3>3
  <2> QED BY <2>1, <2>3, SingleStays
<1>6. CASE sendTo
  <2>1. current = 0 /\ UNCHANGED stored /\ pc = "sending"
    BY <1>6, SendToSteps DEF sendTo
  <2>2. CASE sendThrows /\ UNCHANGED <<requests, network>>
    BY <2>1, <2>2, SingleStays
  <2>3. CASE sendReturns /\ network' = network \union {Request}
    <3>1. \A p \in Range(sending.points) : fate'[p] # "held"
      <4>1. fate' = Settle(Range(sending.points), "acked")
        BY <2>3 DEF sendReturns
      <4>2. Range(sending.points) \subseteq 1..issued
        BY WrittenPoints DEF PInv
      <4> QED BY <4>1, <4>2 DEF Settle
    <3> QED BY <2>1, <2>3, <3>1, SingleSend
  <2> QED BY <1>6, <2>2, <2>3 DEF sendTo
<1> QED BY <1>1, <1>2, <1>3, <1>4, <1>5, <1>6 DEF PathNext

-----------------------------------------------------------------------------
(* The tags of what is sent and stored.                                    *)

\* Tagged, with the tags of the client after a step.
TaggedThen(p, tags) ==
    /\ tags \in Seq(Tags)
    /\ IsPrefix(tagsAt'[p], tags)
    /\ IsPrefix(tags, mGlobalTags')

\* Global tags are only ever added, and those noted for a write stay.
LEMMA TaggedStays ==
    ASSUME IInv, [Next]_vars, NEW p \in 1..issued, NEW tags, Tagged(p, tags)
    PROVE  TaggedThen(p, tags)
<1>1. mGlobalTags \in Seq(Tags) /\ issued \in Nat
      /\ tagsAt \in [1..issued -> Seq(Tags)]
  BY DEF IInv, TypeOK
<1>2. mGlobalTags' = mGlobalTags
      \/ \E tag \in Tags : mGlobalTags' = Append(mGlobalTags, tag)
  BY DEF Next, vars, client, batchOf, clearBatch, addGlobalTag, Destroy, flushBatch,
         writePoint, writeVector, Hand, writeEmptyVector, addPointToBatch,
         sendReturns, sendThrows, Ended
<1>3. IsPrefix(tags, mGlobalTags')
  BY <1>1, <1>2, PrefixProperties DEF Tagged
<1>4. tagsAt'[p] = tagsAt[p]
  <2>1. tagsAt' = tagsAt \/ \E n \in Nat : Hand(n)
    <3>1. writePoint \/ writeVector => \E n \in Nat : Hand(n)
      BY BoundsAreNaturals DEF writePoint, writeVector
    <3> QED BY <3>1 DEF Next, vars, history, batchOf, clearBatch, addGlobalTag,
                        Destroy, flushBatch, writeEmptyVector, addPointToBatch,
                        sendReturns, sendThrows, Ended
  <2>2. ASSUME NEW n \in Nat, Hand(n) PROVE tagsAt'[p] = tagsAt[p]
    BY <1>1, <2>2 DEF Hand
  <2> QED BY <2>1, <2>2
<1> QED BY <1>3, <1>4 DEF Tagged, TaggedThen

\* What goes out has the tags of the client at that time.
LEMMA RequestIsTagged ==
    ASSUME HInv, NEW p \in Range(Request.points)
    PROVE  Tagged(p, Request.tags)
<1> USE DEF HInv
<1>1. p \in Range(sending.points) /\ Request.tags = sending.tags
  BY RequestType DEF Request
<1>2. p \in 1..issued /\ sending.points # <<>> /\ mGlobalTags \in Seq(Tags)
  <2>1. p \in 1..issued
    BY <1>1, WrittenPoints DEF PInv
  <2>2. mGlobalTags \in Seq(Tags)
    BY DEF PInv, IInv, TypeOK
  <2> QED BY <1>1, <2>1, <2>2 DEF Range
<1>3. sending.tags = mGlobalTags /\ IsPrefix(tagsAt[p], mGlobalTags)
  BY <1>2 DEF TagState
<1>4. IsPrefix(mGlobalTags, mGlobalTags)
  BY <1>2 DEF IsPrefix
<1> QED BY <1>1, <1>2, <1>3, <1>4 DEF Tagged

LEMMA LinesAreTaggedNext ==
    ASSUME HInv, [PathNext]_pathVars
    PROVE  LinesAreTagged'
<1> USE DEF HInv
<1>1. [Next]_vars
  BY PathStepIsStep
<1>2. \A i \in DOMAIN stored : TaggedThen(stored[i].point, stored[i].tags)
  BY <1>1, TaggedStays, SentWasWritten DEF LinesAreTagged, PInv
<1>3. \A r \in network : \A p \in Range(r.points) : TaggedThen(p, r.tags)
  BY <1>1, TaggedStays, SentWasWritten DEF LinesAreTagged, PInv
<1>4. \A p \in Range(Request.points) : TaggedThen(p, Request.tags)
  BY <1>1, RequestIsTagged, TaggedStays, RequestType, WrittenPoints DEF PInv
<1>5. CASE /\ UNCHANGED stored
           /\ network' = network \/ network' = network \union {Request}
  BY <1>2, <1>3, <1>4, <1>5 DEF LinesAreTagged, Tagged, TaggedThen
<1>6. ASSUME NEW r \in network, serve(r) \/ deliver(r)
      PROVE  LinesAreTagged'
  <2>1. /\ stored \in Seq(Lines) /\ r \in Requests
        /\ network' = network \ {r}
    BY <1>6, WhatIsStored
  <2>2. PICK lines \in LinesOf(r) : stored' = stored \o lines
    BY <1>6, WhatIsStored
  <2>3. /\ lines \in Seq(Lines)
        /\ \A k \in DOMAIN lines :
              lines[k].point \in Range(r.points) /\ lines[k].tags = r.tags
    BY <2>1, LinesOfProperties DEF Single
  <2>4. \A k \in DOMAIN lines : TaggedThen(lines[k].point, lines[k].tags)
    BY <1>3, <2>3
  <2>5. ASSUME NEW i \in DOMAIN stored'
        PROVE  TaggedThen(stored'[i].point, stored'[i].tags)
    <3>1. \/ i \in DOMAIN stored /\ stored'[i] = stored[i]
          \/ i - Len(stored) \in DOMAIN lines /\ stored'[i] = lines[i - Len(stored)]
      BY <2>1, <2>2, <2>3, <2>5, ConcatCases
    <3> QED BY <1>2, <2>4, <3>1
  <2> QED BY <1>3, <2>1, <2>5 DEF LinesAreTagged, Tagged, TaggedThen
<1>7. CASE UNCHANGED pathVars \/ Call \/ Local \/ post \/ answered \/ broken \/ sendTo
  <2>1. /\ UNCHANGED stored
        /\ network' = network \/ network' = network \union {Request}
    BY <1>7, ClientSteps, HowRequestsEnd, SendToSteps DEF pathVars, path, post
  <2> QED BY <1>5, <2>1
<1> QED BY <1>6, <1>7 DEF PathNext

-----------------------------------------------------------------------------
(* Every reachable state.                                                  *)

LEMMA HInvInit == PathInit => HInv
<1> SUFFICES ASSUME PathInit PROVE HInv
  OBVIOUS
<1>1. PInv
  BY PInvInit
<1>2. /\ issued = 0 /\ sending.points = <<>> /\ Direct = <<>> /\ Newest = 0
      /\ acked = <<>> /\ retried = {} /\ network = {} /\ stored = <<>>
      /\ ~answer.curlOk
  BY NewestInit, PayloadFields DEF PathInit, Init, NoAnswer
<1>3. TagState /\ RetriedIsSettled
  BY <1>2 DEF TagState, RetriedIsSettled, Range
<1>4. PoisonIsRefused
  BY <1>2 DEF PoisonIsRefused, Range
<1>5. DOMAIN stored = {} /\ 1..issued = {}
  BY <1>2
<1>6. Single /\ LinesAreTagged
  BY <1>2, <1>5 DEF Single, LinesAreTagged
<1> QED BY <1>1, <1>3, <1>4, <1>6 DEF HInv

LEMMA HInvNext == HInv /\ [PathNext]_pathVars => HInv'
<1> SUFFICES ASSUME HInv, [PathNext]_pathVars PROVE HInv'
  OBVIOUS
<1>1. [Next]_vars
  BY PathStepIsStep
<1>2. PInv' /\ TagState' /\ RetriedIsSettled'
  BY <1>1, PInvNext, TagStateNext, RetriedNext DEF HInv, PInv
<1> QED BY <1>2, PoisonNext, SingleNext, LinesAreTaggedNext DEF HInv

THEOREM HistoryInvariantHolds == PathSpec => []HInv
BY HInvInit, HInvNext, PTL DEF PathSpec

\* Over HTTP no point the server refuses counts as accepted, and no point
\* behind one in the batch is, whatever the server stores of the request.
THEOREM PoisonIsNotPassed == PathSpec => []NothingPassesPoison
BY PoisonSuffices, HistoryInvariantHolds, PTL

LEMMA SingleSuffices == HInv => StoredTwiceWasRetried
<1> SUFFICES ASSUME HInv, NEW i \in DOMAIN stored, NEW j \in DOMAIN stored,
                    i # j, stored[i].point = stored[j].point
             PROVE  /\ transport = "http"
                    /\ stored[i].point \in retried
                    /\ fate[stored[i].point] # "lost"
  BY DEF StoredTwiceWasRetried
<1>1. ~Once(stored[i].point)
  BY DEF HInv, Single
<1>2. transport \in {"http", "datagram"}
  BY TransportsAreKnown DEF HInv, PInv, PathTypeOK
<1> QED BY <1>1, <1>2 DEF Once

\* Only points of batches whose HTTP send threw are ever stored twice: never
\* those of an unbatched write, and never those of a datagram.
THEOREM StoredTwiceWereRetried == PathSpec => []StoredTwiceWasRetried
BY SingleSuffices, HistoryInvariantHolds, PTL

\* Of two prefixes of one sequence that differ, the longer one is not in front.
LEMMA PrefixesDiffer ==
    ASSUME NEW S, NEW u \in Seq(S), NEW s \in Seq(S), NEW t \in Seq(S), NEW g \in Seq(S),
           IsPrefix(u, s), IsPrefix(u, t), IsPrefix(s, g), IsPrefix(t, g), s # t
    PROVE  Len(u) < Len(g)
<1>1. /\ Len(u) \in Nat /\ Len(s) \in Nat /\ Len(t) \in Nat /\ Len(g) \in Nat
      /\ Len(u) <= Len(s) /\ Len(s) <= Len(g)
      /\ Len(u) <= Len(t) /\ Len(t) <= Len(g)
  BY LenProperties DEF IsPrefix
<1>2. ASSUME ~(Len(u) < Len(g)) PROVE FALSE
  <2>1. Len(s) = Len(g) /\ Len(t) = Len(g)
    BY <1>1, <1>2
  <2>2. \A i \in 1..Len(g) : s[i] = g[i] /\ t[i] = g[i]
    <3>1. /\ SubSeq(s, 1, Len(g)) = SubSeq(g, 1, Len(g))
          /\ SubSeq(t, 1, Len(g)) = SubSeq(g, 1, Len(g))
      BY <2>1 DEF IsPrefix
    <3> QED BY <1>1, <2>1, <3>1, SubSeqProperties
  <2> QED BY <2>1, <2>2, SeqEqual
<1> QED BY <1>2

LEMMA TaggedSuffices == HInv => SameKeyUnlessTagsAdded
<1> SUFFICES ASSUME HInv, NEW i \in DOMAIN stored, NEW j \in DOMAIN stored,
                    stored[j].point = stored[i].point,
                    stored[i].tags # stored[j].tags
             PROVE  /\ stored[i].point \in retried
                    /\ Len(tagsAt[stored[i].point]) < Len(mGlobalTags)
  BY DEF SameKeyUnlessTagsAdded
<1>1. stored[i].point \in retried
  BY SingleSuffices DEF StoredTwiceWasRetried
<1>2. /\ Tagged(stored[i].point, stored[i].tags)
      /\ Tagged(stored[i].point, stored[j].tags)
  BY DEF HInv, LinesAreTagged
<1>3. tagsAt[stored[i].point] \in Seq(Tags) /\ mGlobalTags \in Seq(Tags)
  BY SentWasWritten DEF HInv, PInv, IInv, TypeOK
<1> QED BY <1>1, <1>2, <1>3, PrefixesDiffer DEF Tagged

\* Two lines of one point have the same tags, so that the second overwrites the
\* first, unless the point was retried and a global tag added since its write.
THEOREM KeysStaySame == PathSpec => []SameKeyUnlessTagsAdded
BY TaggedSuffices, HistoryInvariantHolds, PTL

-----------------------------------------------------------------------------
(* The inductive invariant with the order of the store.                    *)

\* A point that can never be stored any more if it has not been.
Gone(p) == p \notin StoredPoints /\ ~InTransit(p)

\* A request holds all points that are held in front of one of its own.
RequestsAreWhole ==
    \A r \in network : \A q \in Range(r.points) : \A p \in 1..q :
        fate[p] = "held" => p \in Range(r.points)

\* A point the client holds is stored, or no later one is; those the server
\* does not accept never are.
HeldIsStoredFirst ==
    /\ StoredPoints \cap Poison = {}
    /\ \A q \in StoredPoints : \A p \in 1..q :
          fate[p] = "held" /\ p \notin Poison => p \in StoredPoints

\* A point that no send carried, and one whose only send was redirected, are
\* gone.
UnsentIsGone ==
    /\ \A p \in 1..issued : fate[p] = "abandoned" => Gone(p)
    /\ \A p \in redirected \ retried : Gone(p)
    /\ answer.curlOk /\ answer.code \in 300..399 =>
           \A p \in Range(sending.points) \ retried : Gone(p)

OInv ==
    /\ HInv
    /\ StoredInOrder
    /\ transport = "http" =>
          RequestsAreWhole /\ HeldIsStoredFirst /\ UnsentIsGone

-----------------------------------------------------------------------------
(* The first line of a point.                                              *)

\* The place of the first line of a point in s.
FirstOf(s, p) ==
    CHOOSE i \in DOMAIN s : s[i].point = p /\ \A j \in 1..(i - 1) : s[j].point # p

LEMMA FirstProperties ==
    ASSUME NEW s \in Seq(Lines), NEW p \in PointsOf(s)
    PROVE  /\ FirstOf(s, p) \in DOMAIN s
           /\ s[FirstOf(s, p)].point = p
           /\ \A j \in 1..(FirstOf(s, p) - 1) : s[j].point # p
<1> DEFINE places == {i \in DOMAIN s : s[i].point = p}
<1>1. DOMAIN s = 1..Len(s) /\ Len(s) \in Nat
  BY LenProperties
<1>2. places \subseteq Nat /\ places # {}
  BY <1>1 DEF PointsOf, Range
<1>3. PICK i \in places : \A j \in places : ~(<<j, i>> \in OpToRel(<, Nat))
  <2> HIDE DEF places
  <2> QED BY <1>2, NatLessThanWellFounded, WFMin, Zenon
<1>4. \A j \in places : ~(j < i)
  BY <1>2, <1>3 DEF OpToRel
<1>5. \A j \in 1..(i - 1) : s[j].point # p
  BY <1>1, <1>4
<1> QED BY <1>5 DEF FirstOf

\* Lines that come in behind leave the first line of a point where it is.
LEMMA FirstOfConcat ==
    ASSUME stored \in Seq(Lines), NEW lines \in Seq(Lines),
           stored' = stored \o lines, NEW p \in StoredPoints'
    PROVE  /\ First(p)' \in Nat /\ Len(stored) \in Nat
           /\ p \in StoredPoints => First(p)' = First(p)
           /\ p \notin StoredPoints =>
                 /\ First(p)' - Len(stored) \in DOMAIN lines
                 /\ lines[First(p)' - Len(stored)].point = p
<1>1. /\ Len(stored) \in Nat /\ DOMAIN stored = 1..Len(stored)
      /\ Len(lines) \in Nat
      /\ stored' \in Seq(Lines)
      /\ DOMAIN stored' = 1..(Len(stored) + Len(lines))
      /\ \A i \in DOMAIN stored : stored'[i] = stored[i]
  BY LenProperties, ConcatProperties
<1>2. /\ First(p)' \in DOMAIN stored'
      /\ stored'[First(p)'].point = p
      /\ \A j \in 1..(First(p)' - 1) : stored'[j].point # p
  <2>1. First(p)' = FirstOf(stored', p) /\ p \in PointsOf(stored')
    BY DEF First, FirstOf, StoredPoints, PointsOf
  <2>2. stored' \in Seq(Lines)
    BY <1>1
  <2>3. /\ FirstOf(stored', p) \in DOMAIN stored'
        /\ stored'[FirstOf(stored', p)].point = p
        /\ \A j \in 1..(FirstOf(stored', p) - 1) : stored'[j].point # p
    BY ONLY <2>1, <2>2, FirstProperties
  <2> QED BY ONLY <2>1, <2>3
<1>3. CASE p \in StoredPoints
  <2>1. /\ First(p) \in DOMAIN stored
        /\ stored[First(p)].point = p
        /\ \A j \in 1..(First(p) - 1) : stored[j].point # p
    <3>1. First(p) = FirstOf(stored, p) /\ p \in PointsOf(stored)
      BY <1>3 DEF First, FirstOf, StoredPoints, PointsOf
    <3> QED BY <3>1, FirstProperties
  <2>2. ~(First(p)' < First(p)) /\ ~(First(p) < First(p)')
    BY <1>1, <1>2, <2>1
  <2> QED BY <1>1, <1>2, <1>3, <2>1, <2>2
<1>4. CASE p \notin StoredPoints
  <2>1. First(p)' \notin DOMAIN stored
    BY <1>1, <1>2, <1>4 DEF StoredPoints, Range
  <2> QED BY <1>2, <1>4, <2>1, ConcatCases
<1>5. First(p)' \in Nat
  BY <1>1, <1>2
<1> QED BY <1>1, <1>3, <1>4, <1>5

-----------------------------------------------------------------------------
(* The lines of a request.                                                 *)

\* They are in order, and where there is one there are all good ones.
LEMMA LinesInOrder ==
    ASSUME NEW r \in Requests, Increasing(r.points), NEW lines \in LinesOf(r)
    PROVE  /\ \A k, m \in DOMAIN lines : k < m => lines[k].point < lines[m].point
           /\ \A k \in DOMAIN lines : \A p \in Range(r.points) \ Poison :
                 \E m \in DOMAIN lines : lines[m].point = p
<1>1. /\ r.points \in Seq(Points) /\ Len(r.points) \in Nat
      /\ DOMAIN r.points = 1..Len(r.points)
  BY LenProperties DEF Requests
<1>2. /\ DOMAIN All(r) = DOMAIN r.points
      /\ \A i \in DOMAIN r.points : All(r)[i].point = r.points[i]
  BY DEF All, Line
<1>3. CASE lines = All(r)
  BY <1>2, <1>3 DEF Increasing, Range
<1>4. CASE lines = <<>>
  BY <1>4
<1>5. CASE lines \in Good(r)
  <2> DEFINE good == {i \in DOMAIN r.points : r.points[i] \notin Poison}
  <2>1. PICK f \in [1..Cardinality(good) -> good] :
            /\ \A i, j \in DOMAIN f : i < j => f[i] < f[j]
            /\ lines = [k \in DOMAIN f |-> All(r)[f[k]]]
    BY <1>5 DEF Good
  <2>2. IsFiniteSet(good) /\ Cardinality(good) \in Nat
    <3>1. IsFiniteSet(1..Len(r.points))
      BY <1>1, NumbersUpTo
    <3>2. good \subseteq 1..Len(r.points)
      BY <1>1
    <3>3. IsFiniteSet(good)
      BY <3>1, <3>2, FS_Subset
    <3> QED BY <3>3, FS_CardinalityType
  <2>3. /\ DOMAIN lines = 1..Cardinality(good) /\ DOMAIN f = 1..Cardinality(good)
        /\ \A k \in DOMAIN lines :
              f[k] \in DOMAIN r.points /\ lines[k].point = r.points[f[k]]
    BY <1>2, <2>1
  <2>4. \A k, m \in DOMAIN lines : k < m => lines[k].point < lines[m].point
    BY <2>1, <2>3 DEF Increasing
  <2>5. f \in Surjection(1..Cardinality(good), good)
    <3>1. \A k, m \in 1..Cardinality(good) : f[k] = f[m] => k = m
      <4>1. \A k \in 1..Cardinality(good) : f[k] \in Nat
        BY <1>1, <2>3
      <4>2. \A k, m \in 1..Cardinality(good) : k < m => f[k] < f[m]
        BY <2>1, <2>3
      <4> QED BY <2>2, <4>1, <4>2
    <3>2. f \in Injection(1..Cardinality(good), good)
      BY <3>1, <2>1 DEF Injection, IsInjective
    <3>3. Cardinality(1..Cardinality(good)) = Cardinality(good)
      BY <2>2, NumbersUpTo
    <3> HIDE DEF good
    <3> QED BY <2>2, <3>2, <3>3, FS_Injection
  <2>6. ASSUME NEW p \in Range(r.points) \ Poison
        PROVE  \E m \in DOMAIN lines : lines[m].point = p
    <3>1. PICK i \in good : r.points[i] = p
      BY DEF Range
    <3>2. PICK m \in 1..Cardinality(good) : f[m] = i
      BY <2>5 DEF Surjection
    <3> QED BY <2>3, <3>1, <3>2
  <2> QED BY <2>4, <2>6
<1> QED BY <1>3, <1>4, <1>5 DEF LinesOf, Perhaps

\* The server stores no bad line, and nothing with a redirection.
LEMMA ServeStores ==
    ASSUME PInv, NEW r \in network, serve(r)
    PROVE  \E lines \in LinesOf(r) :
               /\ stored' = stored \o lines
               /\ \A k \in DOMAIN lines : lines[k].point \notin Poison
               /\ \/ UNCHANGED answer
                  \/ /\ r.id = current
                     /\ answer'.code \in 300..399 => lines = <<>>
<1>1. r \in Requests
  BY DEF PInv, PathTypeOK
<1>2. PICK served \in Served(r) :
          /\ stored' = stored \o served[2]
          /\ \/ /\ r.id = current
                /\ \E body \in BodiesFor(served[1]) :
                      answer' = Response(served[1], body)
             \/ /\ r.id # current
                /\ UNCHANGED answer
  BY DEF serve
<1>3. served[2] \in LinesOf(r)
  BY <1>1, <1>2, ServedLines
<1>4. \/ served[1] = 204 /\ served[2] = All(r) /\ Range(r.points) \cap Poison = {}
      \/ /\ served[2] \in Perhaps(r)
         /\ served[1] \in 300..399 => served[2] = <<>>
  <2>1. \A code \in Refusals : code \in Nat /\ (code >= 500 => code \notin 300..399)
    BY ServerIsSane
  <2>2. <<>> \in Perhaps(r) /\ 400 \notin 300..399
    BY DEF Perhaps
  <2>3. \/ served[1] = 204 /\ served[2] = All(r) /\ Range(r.points) \cap Poison = {}
        \/ served[1] = 400 /\ served[2] \in Perhaps(r)
        \/ served[2] = <<>>
        \/ served[1] \in Refusals /\ served[1] >= 500 /\ served[2] \in Perhaps(r)
    BY <1>2 DEF Served
  <2> QED BY <2>1, <2>2, <2>3
<1>5. \A k \in DOMAIN served[2] : served[2][k].point \notin Poison
  <2>1. CASE served[2] = All(r) /\ Range(r.points) \cap Poison = {}
    BY <2>1 DEF All, Line, Range
  <2>2. CASE served[2] = <<>>
    BY <2>2
  <2>3. CASE served[2] \in Good(r)
    <3> DEFINE good == {i \in DOMAIN r.points : r.points[i] \notin Poison}
    <3>1. PICK f \in [1..Cardinality(good) -> good] :
              served[2] = [k \in DOMAIN f |-> All(r)[f[k]]]
      BY <2>3 DEF Good
    <3>2. \A i \in DOMAIN r.points : All(r)[i].point = r.points[i]
      BY DEF All, Line
    <3> QED BY <3>1, <3>2
  <2> QED BY <1>4, <2>1, <2>2, <2>3 DEF Perhaps
<1>6. answer'.code = served[1] \/ UNCHANGED answer
  BY <1>2 DEF Response
<1>7. served[1] \in 300..399 => served[2] = <<>>
  <2>1. 204 \notin 300..399
    OBVIOUS
  <2> QED BY <1>4, <2>1
<1> QED BY <1>2, <1>3, <1>5, <1>6, <1>7

-----------------------------------------------------------------------------
(* What a step does to the network and the store, and keeps.               *)

LEMMA NetworkSteps ==
    ASSUME PInv, [PathNext]_pathVars
    PROVE  /\ UNCHANGED transport
           /\ \/ /\ UNCHANGED stored
                 /\ \/ UNCHANGED network
                    \/ network' = network \union {Request} /\ pc = "sending"
              \/ \E r \in network : serve(r) \/ deliver(r)
<1>1. CASE UNCHANGED pathVars \/ Call \/ Local
  BY <1>1, ClientSteps DEF pathVars, path
<1>2. CASE post \/ sendTo
  BY <1>2, SendToSteps DEF post, sendTo
<1>3. CASE answered \/ broken
  BY <1>3, HowRequestsEnd
<1>4. ASSUME NEW r \in network, serve(r) \/ deliver(r)
      PROVE  UNCHANGED transport
  BY <1>4 DEF serve, deliver
<1> QED BY <1>1, <1>2, <1>3, <1>4 DEF PathNext

\* What is gone and not being sent stays gone.
LEMMA GoneStays ==
    ASSUME PInv, [PathNext]_pathVars, NEW p, Gone(p),
           UNCHANGED network \/ p \notin Range(sending.points)
    PROVE  Gone(p)'
<1>1. CASE UNCHANGED <<stored, network>>
  BY <1>1 DEF Gone, StoredPoints, InTransit
<1>2. CASE UNCHANGED stored /\ network' = network \union {Request}
  BY <1>2, RequestType DEF Gone, StoredPoints, InTransit
<1>3. ASSUME NEW r \in network, serve(r) \/ deliver(r)
      PROVE  Gone(p)'
  <2>1. /\ StoredPoints' \subseteq StoredPoints \union Range(r.points)
        /\ network' = network \ {r}
    BY <1>3, WhatServingStores
  <2> QED BY <2>1 DEF Gone, InTransit
<1> QED BY <1>1, <1>2, <1>3, NetworkSteps

\* Points that are held after a step were before it, or are new.
LEMMA HeldWas ==
    ASSUME PInv, [PathNext]_pathVars, NEW p \in 1..issued, fate'[p] = "held"
    PROVE  fate[p] = "held"
BY PathStepIsStep, FateIsFinal DEF PInv

\* A send carries every point that is held in front of one of its own.
LEMMA SendIsWhole ==
    ASSUME IInv, pc = "sending", NEW q \in Range(sending.points), NEW p \in 1..q,
           fate[p] = "held"
    PROVE  p \in Range(sending.points)
<1>1. /\ issued \in Nat /\ Newest \in Nat /\ Newest <= issued
      /\ todo \in Seq(Points) /\ mPointBatch \in Seq(Points)
  BY NewestValue DEF IInv, TypeOK
<1>2. q \in 1..issued /\ p \in 1..issued
  <2>1. q \in 1..issued
    BY WrittenPoints
  <2> QED BY <1>1, <2>1
<1>3. p \in Range(mPointBatch) \union Range(todo) \union Range(Direct)
  BY <1>2 DEF IInv, Conservation
<1>4. CASE sending.batched
  <2>1. sending.points = mPointBatch /\ Direct = <<>>
    BY <1>4 DEF IInv, CallState, Direct
  <2>2. q <= Newest /\ Newest = issued - Len(todo)
    BY <1>1, <2>1, RangeBounds, NewestValue DEF IInv, Order
  <2>3. p \notin Range(todo)
    BY <1>1, <1>2, <2>2, RangeBounds, LengthOfPoints DEF IInv, InHand
  <2> QED BY <1>3, <2>1, <2>3 DEF Range
<1>5. CASE ~sending.batched
  <2>1. sending.points = Direct /\ mPointBatch = <<>> /\ todo = <<>>
    BY <1>5 DEF IInv, CallState, Direct
  <2> QED BY <1>3, <2>1 DEF Range
<1> QED BY <1>4, <1>5

LEMMA RequestsAreWholeNext ==
    ASSUME PInv, RequestsAreWhole, [PathNext]_pathVars
    PROVE  RequestsAreWhole'
<1> SUFFICES ASSUME NEW r \in network', NEW q \in Range(r.points), NEW p \in 1..q,
                    fate'[p] = "held"
             PROVE  p \in Range(r.points)
  BY DEF RequestsAreWhole
<1>1. r \in network \/ (r = Request /\ pc = "sending")
  BY NetworkSteps, WhatServingStores
<1>2. Range(r.points) \subseteq 1..issued /\ issued \in Nat
  BY <1>1, RequestType, WrittenPoints DEF PInv, UnderWay
<1>3. p \in 1..issued
  BY <1>2
<1>4. fate[p] = "held"
  BY <1>3, HeldWas
<1> QED BY <1>1, <1>4, RequestType, SendIsWhole DEF RequestsAreWhole, PInv

LEMMA HeldIsStoredFirstNext ==
    ASSUME HInv, RequestsAreWhole, HeldIsStoredFirst, [PathNext]_pathVars,
           transport = "http"
    PROVE  HeldIsStoredFirst'
<1> USE DEF HInv
<1>1. StoredPoints \subseteq 1..issued /\ issued \in Nat
  BY DEF PInv, StoredWasWritten, IInv, TypeOK
<1>2. CASE UNCHANGED stored
  <2>1. StoredPoints' = StoredPoints
    BY <1>2 DEF StoredPoints
  <2>2. ASSUME NEW q \in StoredPoints, NEW p \in 1..q,
               fate'[p] = "held", p \notin Poison
        PROVE  p \in StoredPoints
    <3>1. p \in 1..issued
      BY <1>1
    <3> QED BY <2>2, <3>1, HeldWas DEF HeldIsStoredFirst
  <2> QED BY <2>1, <2>2 DEF HeldIsStoredFirst
<1>3. ASSUME NEW r \in network, serve(r)
      PROVE  HeldIsStoredFirst'
  <2>1. r \in Requests /\ stored \in Seq(Lines) /\ UNCHANGED fate
    BY <1>3, WhatIsStored DEF vars, history
  <2>2. PICK lines \in LinesOf(r) :
            /\ stored' = stored \o lines
            /\ \A k \in DOMAIN lines : lines[k].point \notin Poison
    BY <1>3, ServeStores
  <2>3. Increasing(r.points)
    BY DEF Single
  <2>4. /\ lines \in Seq(Lines)
        /\ \A k \in DOMAIN lines : lines[k].point \in Range(r.points)
        /\ \A k \in DOMAIN lines : \A p \in Range(r.points) \ Poison :
              \E m \in DOMAIN lines : lines[m].point = p
    BY <2>1, <2>3, LinesOfProperties, LinesInOrder
  <2>5. StoredPoints' = StoredPoints \union PointsOf(lines)
    BY <2>1, <2>2, <2>4, PointsOfConcat DEF StoredPoints, PointsOf
  <2>6. \A q : q \in PointsOf(lines) <=> \E k \in DOMAIN lines : lines[k].point = q
    BY DEF PointsOf, Range
  <2>7. StoredPoints' \cap Poison = {}
    BY <2>2, <2>5, <2>6 DEF HeldIsStoredFirst
  <2>8. ASSUME NEW q \in StoredPoints', NEW p \in 1..q,
               fate[p] = "held", p \notin Poison
        PROVE  p \in StoredPoints'
    <3>1. CASE q \in StoredPoints
      BY <2>5, <2>8, <3>1 DEF HeldIsStoredFirst
    <3>2. CASE q \in PointsOf(lines)
      <4>1. PICK k \in DOMAIN lines : lines[k].point = q
        BY <2>6, <3>2
      <4>2. p \in Range(r.points)
        BY <2>4, <2>8, <4>1 DEF RequestsAreWhole
      <4> QED BY <2>4, <2>5, <2>6, <2>8, <4>1, <4>2
    <3> QED BY <2>5, <3>1, <3>2
  <2> QED BY <2>1, <2>7, <2>8 DEF HeldIsStoredFirst
<1> QED BY <1>2, <1>3, NetworkSteps DEF deliver

\* Only a batched send that throws abandons points: those behind it in the call.
LEMMA AbandonedWas ==
    ASSUME IInv, [Next]_vars, NEW p \in 1..issued', fate'[p] = "abandoned"
    PROVE  /\ p \in 1..issued
           /\ \/ fate[p] = "abandoned"
              \/ sendThrows /\ sending.batched /\ p \in Range(todo)
<1>1. issued \in Nat /\ fate \in [1..issued -> Fates]
  BY DEF IInv, TypeOK
<1>2. CASE \E n \in Nat : Hand(n)
  BY <1>1, <1>2 DEF Hand
<1>3. CASE sendThrows
  BY <1>1, <1>3 DEF sendThrows, Settle
<1>4. CASE clearBatch \/ Destroy \/ sendReturns
  BY <1>1, <1>4 DEF clearBatch, Destroy, sendReturns, Settle
<1>5. CASE UNCHANGED <<issued, fate>>
  BY <1>1, <1>5
<1>6. writePoint \/ writeVector => \E n \in Nat : Hand(n)
  BY BoundsAreNaturals DEF writePoint, writeVector
<1> QED BY <1>2, <1>3, <1>4, <1>5, <1>6
        DEF Next, vars, history, batchOf, addGlobalTag, flushBatch,
            writeEmptyVector, addPointToBatch, Ended

\* Points the loop of a write has not come to have not been sent.
LEMMA LoopIsGone ==
    ASSUME HInv, pc = "sending", sending.batched, NEW p \in Range(todo)
    PROVE  Gone(p) /\ p \notin Range(sending.points)
<1> USE DEF HInv
<1>1. /\ issued \in Nat /\ Newest \in Nat /\ Newest = issued - Len(todo)
      /\ todo \in Seq(Points) /\ mPointBatch \in Seq(Points)
  BY NewestValue DEF PInv, IInv, TypeOK, Direct
<1>2. p \in 1..issued /\ fate[p] = "held"
  BY MembersOfSequences DEF PInv
<1>3. p > Newest
  BY <1>1, <1>2, RangeBounds DEF PInv, IInv, InHand
<1>4. p \notin retried /\ p \notin Range(mPointBatch)
  <2>1. \A x \in Range(mPointBatch) : x \in 1..Newest
    BY <1>1, RangeBounds DEF PInv, IInv, Order
  <2>2. p \notin 1..Newest
    BY <1>1, <1>2, <1>3
  <2> QED BY <2>1, <2>2 DEF RetriedIsSettled
<1>5. p \notin Range(sending.points)
  BY <1>4 DEF PInv, IInv, CallState
<1>6. Once(p)
  BY <1>4 DEF Once
<1> QED BY <1>2, <1>5, <1>6 DEF Single, Gone

LEMMA UnsentIsGoneNext ==
    ASSUME HInv, UnsentIsGone, [PathNext]_pathVars, transport = "http"
    PROVE  UnsentIsGone'
<1> USE DEF HInv
<1>1. [Next]_vars
  BY PathStepIsStep
<1>2. /\ \A p \in Range(sending.points) : p \in 1..issued /\ fate[p] = "held"
      /\ redirected \subseteq Range(acked) /\ Range(acked) \subseteq 1..issued
  BY MembersOfSequences, WrittenPoints DEF PInv, StoredWasWritten
<1>3. retried \subseteq retried'
  BY <1>1 DEF Next, vars, history, batchOf, clearBatch, addGlobalTag, Destroy,
              flushBatch, writePoint, writeVector, Hand, writeEmptyVector,
              addPointToBatch, sendReturns, sendThrows, Ended
<1>4. ASSUME NEW p \in 1..issued', fate'[p] = "abandoned"
      PROVE  Gone(p)'
  <2>1. CASE p \in 1..issued /\ fate[p] = "abandoned"
    BY <1>2, <2>1, GoneStays DEF UnsentIsGone
  <2>2. CASE sendThrows /\ sending.batched /\ p \in Range(todo)
    BY <2>2, LoopIsGone, GoneStays DEF sendThrows
  <2> QED BY <1>1, <1>4, <2>1, <2>2, AbandonedWas DEF PInv
<1>5. ASSUME NEW p \in redirected \ retried
      PROVE  Gone(p)'
  <2>1. Gone(p)
    BY <1>5 DEF UnsentIsGone
  <2>2. p \notin Range(sending.points)
    <3>1. p \in Range(acked) /\ p \in 1..issued
      BY <1>2, <1>5
    <3>2. fate[p] = "acked"
      BY <3>1 DEF PInv, IInv, Conservation
    <3> QED BY <1>2, <3>2
  <2> QED BY <2>1, <2>2, GoneStays
<1>6. \/ redirected' = redirected
      \/ /\ answered \/ broken
         /\ answer.curlOk /\ answer.code \in 300..399
         /\ redirected' = redirected \union Range(sending.points)
         /\ UNCHANGED network
  BY ClientSteps, HowRequestsEnd DEF PathNext, pathVars, path, post, serve, sendTo,
                                     deliver
<1>7. ASSUME NEW p \in redirected' \ retried'
      PROVE  Gone(p)'
  <2>1. p \notin retried
    BY <1>3
  <2>2. CASE p \in redirected
    BY <1>5, <2>1, <2>2
  <2>3. CASE p \notin redirected
    <3>1. Gone(p) /\ UNCHANGED network
      BY <1>6, <1>7, <2>1, <2>3 DEF UnsentIsGone
    <3> QED BY <3>1, GoneStays
  <2> QED BY <2>2, <2>3
<1>8. ASSUME answer'.curlOk, answer'.code \in 300..399,
             NEW p \in Range(sending'.points) \ retried'
      PROVE  Gone(p)'
  <2>1. CASE UNCHANGED pathVars
    <3>1. UNCHANGED <<answer, sending, retried, network>>
      BY <2>1 DEF pathVars, path, vars, control, history
    <3> QED BY <1>8, <3>1, GoneStays DEF UnsentIsGone
  <2>2. ASSUME NEW r \in network, serve(r) PROVE Gone(p)'
    <3>1. /\ UNCHANGED <<sending, retried>>
          /\ network' = network \ {r} /\ stored \in Seq(Lines)
      BY <2>2, WhatIsStored DEF vars, control, history
    <3>2. PICK lines \in LinesOf(r) :
              /\ stored' = stored \o lines
              /\ \/ UNCHANGED answer
                 \/ /\ r.id = current
                    /\ answer'.code \in 300..399 => lines = <<>>
      BY <2>2, ServeStores
    <3>3. CASE UNCHANGED answer
      <4>1. Gone(p)
        BY <1>8, <3>1, <3>3 DEF UnsentIsGone
      <4> QED BY <3>1, <4>1, WhatServingStores, <2>2 DEF Gone, InTransit
    <3>4. CASE r.id = current /\ lines = <<>>
      <4>1. StoredPoints' = StoredPoints
        BY <3>1, <3>2, <3>4 DEF StoredPoints
      <4>2. r.id # 0
        BY DEF PInv, UnderWay
      <4>3. p \in Range(r.points)
        BY <1>8, <3>1, <3>4, <4>2 DEF PInv, AnswerIsToCall
      <4>4. Once(p)
        BY <1>8, <3>1 DEF Once
      <4> QED BY <3>1, <4>1, <4>3, <4>4 DEF Single, Gone, InTransit
    <3> QED BY <1>8, <3>2, <3>3, <3>4
  <2>3. CASE Call \/ Local \/ post \/ answered \/ broken
    <3>1. ~answer'.curlOk
      <4>1. CASE answered \/ broken
        BY <4>1, HowRequestsEnd DEF NoAnswer
      <4>2. CASE Call \/ Local
        BY <4>2, ClientSteps DEF PInv, AnswerIsToCall, path
      <4>3. CASE post
        BY <4>3 DEF PInv, AnswerIsToCall, post
      <4> QED BY <2>3, <4>1, <4>2, <4>3
    <3> QED BY <1>8, <3>1
  <2> QED BY <2>1, <2>2, <2>3 DEF PathNext, sendTo, deliver
<1> QED BY <1>4, <1>7, <1>8 DEF UnsentIsGone

-----------------------------------------------------------------------------
(* The order of the store.                                                 *)

\* Why a point may come in behind a later one.
Late(p) ==
    \/ fate[p] \in {"lost", "cleared", "dropped"}
    \/ p \in redirected /\ p \in retried

LEMMA LateStays ==
    ASSUME PInv, [PathNext]_pathVars, NEW p \in 1..issued, Late(p)
    PROVE  Late(p)'
<1>1. [Next]_vars
  BY PathStepIsStep
<1>2. retried \subseteq retried'
  BY <1>1 DEF Next, vars, history, batchOf, clearBatch, addGlobalTag, Destroy,
              flushBatch, writePoint, writeVector, Hand, writeEmptyVector,
              addPointToBatch, sendReturns, sendThrows, Ended
<1>3. redirected \subseteq redirected'
  BY ClientSteps, HowRequestsEnd DEF PathNext, pathVars, path, post, serve, sendTo,
                                     deliver
<1>4. fate[p] # "held" => fate'[p] = fate[p]
  BY <1>1, FateIsFinal DEF PInv
<1> QED BY <1>2, <1>3, <1>4 DEF Late

\* A point that comes in behind a later one is late.
LEMMA ServedLate ==
    ASSUME OInv, transport = "http", NEW r \in network, serve(r),
           NEW p \in StoredPoints', NEW q \in StoredPoints',
           p < q, First(q)' < First(p)'
    PROVE  Late(p)
<1> USE DEF OInv, HInv
<1>1. r \in Requests /\ stored \in Seq(Lines) /\ Increasing(r.points)
  BY WhatIsStored DEF Single
<1>2. PICK lines \in LinesOf(r) :
          /\ stored' = stored \o lines
          /\ \A k \in DOMAIN lines : lines[k].point \notin Poison
  BY ServeStores
<1>3. /\ lines \in Seq(Lines)
      /\ \A k \in DOMAIN lines : lines[k].point \in Range(r.points)
      /\ \A k, m \in DOMAIN lines : k < m => lines[k].point < lines[m].point
  BY <1>1, LinesOfProperties, LinesInOrder
<1>4. /\ First(p)' \in Nat /\ First(q)' \in Nat /\ Len(stored) \in Nat
      /\ p \in StoredPoints => First(p)' = First(p)
      /\ q \in StoredPoints => First(q)' = First(q)
      /\ p \notin StoredPoints =>
            /\ First(p)' - Len(stored) \in DOMAIN lines
            /\ lines[First(p)' - Len(stored)].point = p
      /\ q \notin StoredPoints =>
            /\ First(q)' - Len(stored) \in DOMAIN lines
            /\ lines[First(q)' - Len(stored)].point = q
  BY <1>1, <1>2, <1>3, FirstOfConcat
<1>5. CASE p \in StoredPoints /\ q \in StoredPoints
  BY <1>4, <1>5 DEF StoredInOrder, Late
<1>6. CASE p \in StoredPoints /\ q \notin StoredPoints
  <2>1. First(p) \in 1..Len(stored) /\ Len(stored) \in Nat
    <3>1. First(p) = FirstOf(stored, p) /\ p \in PointsOf(stored)
      BY <1>6 DEF First, FirstOf, StoredPoints, PointsOf
    <3> QED BY <1>1, <3>1, FirstProperties, LenProperties
  <2>2. DOMAIN lines = 1..Len(lines) /\ Len(lines) \in Nat
    BY <1>3, LenProperties
  <2> QED BY <1>4, <1>6, <2>1, <2>2
<1>7. CASE p \notin StoredPoints /\ q \in StoredPoints
  <2>1. p \in Range(r.points) /\ p \notin Poison
    BY <1>2, <1>3, <1>4, <1>7
  <2>2. p \in 1..issued /\ InTransit(p)
    BY <2>1 DEF InTransit, PInv, UnderWay
  <2>3. fate[p] \in Fates /\ p \in 1..q
    <3>1. fate[p] \in Fates
      BY <2>2 DEF PInv, IInv, TypeOK
    <3>2. q \in 1..issued /\ issued \in Nat
      BY <1>7, WrittenPoints DEF PInv, StoredWasWritten
    <3>3. p \in 1..q
      BY <2>2, <3>2
    <3> QED BY <3>1, <3>3
  <2>4. fate[p] # "held"
    BY <1>7, <2>1, <2>3 DEF HeldIsStoredFirst
  <2>5. fate[p] # "abandoned" /\ (p \in redirected => p \in retried)
    BY <2>2 DEF UnsentIsGone, Gone
  <2>6. fate[p] = "acked" => p \in redirected
    BY <1>7, <2>2 DEF PInv, AcceptedIsStored, IInv, Conservation
  <2> QED BY <2>3, <2>4, <2>5, <2>6 DEF Late, Fates
<1>8. CASE p \notin StoredPoints /\ q \notin StoredPoints
  <2>1. q < p
    <3>1. First(q)' - Len(stored) < First(p)' - Len(stored)
      BY <1>4
    <3> QED BY <1>3, <1>4, <1>8, <3>1
  <2>2. p \in Nat /\ q \in Nat
    <3>1. p \in Range(r.points) /\ q \in Range(r.points)
      BY <1>3, <1>4, <1>8
    <3>2. Range(r.points) \subseteq 1..issued /\ issued \in Nat
      BY WrittenPoints DEF PInv, UnderWay
    <3> QED BY <3>1, <3>2
  <2> QED BY <2>1, <2>2
<1> QED BY <1>5, <1>6, <1>7, <1>8

LEMMA StoredInOrderNext ==
    ASSUME OInv, [PathNext]_pathVars
    PROVE  StoredInOrder'
<1> USE DEF OInv, HInv
<1> SUFFICES ASSUME transport' = "http",
                    NEW p \in StoredPoints', NEW q \in StoredPoints',
                    p < q, First(q)' < First(p)'
             PROVE  Late(p)'
  BY DEF StoredInOrder, Late
<1>1. transport = "http"
  BY NetworkSteps
<1>2. CASE UNCHANGED stored
  <2>1. /\ p \in StoredPoints /\ q \in StoredPoints
        /\ First(p)' = First(p) /\ First(q)' = First(q)
    BY <1>2 DEF StoredPoints, First
  <2>2. p \in 1..issued /\ Late(p)
    BY <1>1, <2>1 DEF StoredInOrder, Late, PInv, StoredWasWritten
  <2> QED BY <2>2, LateStays
<1>3. ASSUME NEW r \in network, serve(r)
      PROVE  Late(p)'
  <2>1. Late(p)
    BY <1>1, <1>3, ServedLate
  <2>2. UNCHANGED <<fate, redirected, retried>>
    BY <1>3 DEF serve, vars, history
  <2> QED BY <2>1, <2>2 DEF Late
<1> QED BY <1>1, <1>2, <1>3, NetworkSteps DEF deliver

LEMMA OInvInit == PathInit => OInv
<1> SUFFICES ASSUME PathInit PROVE OInv
  OBVIOUS
<1>1. HInv
  BY HInvInit
<1>2. /\ network = {} /\ stored = <<>> /\ redirected = {} /\ issued = 0
      /\ ~answer.curlOk
  BY DEF PathInit, Init, NoAnswer
<1>3. StoredPoints = {}
  BY <1>2 DEF StoredPoints, Range
<1> QED BY <1>1, <1>2, <1>3
        DEF OInv, StoredInOrder, RequestsAreWhole, HeldIsStoredFirst, UnsentIsGone

LEMMA OInvNext == OInv /\ [PathNext]_pathVars => OInv'
<1> SUFFICES ASSUME OInv, [PathNext]_pathVars PROVE OInv'
  OBVIOUS
<1>1. HInv' /\ StoredInOrder'
  BY HInvNext, StoredInOrderNext DEF OInv
<1>2. transport' = transport
  BY NetworkSteps DEF OInv, HInv
<1>3. transport = "http" =>
          RequestsAreWhole' /\ HeldIsStoredFirst' /\ UnsentIsGone'
  BY RequestsAreWholeNext, HeldIsStoredFirstNext, UnsentIsGoneNext DEF OInv, HInv
<1> QED BY <1>1, <1>2, <1>3 DEF OInv

\* Over HTTP points reach the store in the order of writing, except those that
\* were given up or redirected on their repetition, whatever is lost or late.
THEOREM StoreIsInOrder == PathSpec => []StoredInOrder
<1>1. OInv => StoredInOrder
  BY DEF OInv
<1> QED BY <1>1, OInvInit, OInvNext, PTL DEF PathSpec
=============================================================================
