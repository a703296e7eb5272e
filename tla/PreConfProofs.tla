--------------------------- MODULE PreConfProofs ---------------------------
(***************************************************************************)
(* Proofs about PreConf, for every list of transactions, every set of      *)
(* subscribers and all times.                                              *)
(***************************************************************************)
EXTENDS PreConf, SequenceTheorems, TLAPS

(***************************************************************************)
(* Type correctness.                                                       *)
(***************************************************************************)
\* What a proposal starts with has its type.
LEMMA EmptySequences ==
  <<>> \in Seq(Nat) /\ <<>> \in Seq(PayloadType) /\ NoSub \in SubType
  BY PreConfAssumption DEF NoSub, SubType

\* Head and tail of a sequence that is not empty.
LEMMA HeadTail ==
  ASSUME NEW S, NEW s \in Seq(S), s # <<>>
  PROVE  Head(s) \in S /\ Tail(s) \in Seq(S)
  OBVIOUS

\* Counting a skipped transaction keeps the type of the sub-block.
LEMMA OneMoreSkipped ==
  ASSUME sub \in SubType, sub.skipped < MaxSkipped
  PROVE  [sub EXCEPT !.skipped = sub.skipped + 1] \in SubType
<1>1. sub.skipped + 1 \in 0..MaxSkipped
  BY PreConfAssumption DEF SubType
<1> QED
  BY <1>1 DEF SubType

\* report_invalid leaves a sequence of transactions.
LEMMA ReportInvalidType ==
  ASSUME ready \in Seq(Nat), ReportInvalid
  PROVE  ready' \in Seq(Nat)
<1>1. PICK n \in 0..(Len(ready) - 1) : \E at \in [1..n -> 2..Len(ready)] :
        ready' = [i \in 1..n |-> ready[at[i]]]
  BY DEF ReportInvalid
<1>2. PICK at \in [1..n -> 2..Len(ready)] : ready' = [i \in 1..n |-> ready[at[i]]]
  BY <1>1
<1>3. n \in Nat /\ \A i \in 1..n : ready[at[i]] \in Nat
  <2>1. Len(ready) \in Nat /\ \A k \in 1..Len(ready) : ready[k] \in Nat
    OBVIOUS
  <2>2. ASSUME NEW i \in 1..n PROVE ready[at[i]] \in Nat
    <3>1. at[i] \in 2..Len(ready)
      OBVIOUS
    <3>2. at[i] \in 1..Len(ready)
      BY <2>1, <3>1
    <3> QED
      BY <2>1, <3>2
  <2> QED
    BY <2>1, <2>2
<1> QED
  BY <1>2, <1>3

\* The variables have their types at the start.
LEMMA TypeInit == Init => TypeOK
<1> SUFFICES ASSUME Init PROVE TypeOK
  OBVIOUS
<1>1. sub \in SubType /\ queue \in Seq(PayloadType) /\ published \in Seq(PayloadType)
  BY EmptySequences DEF Init
<1>2. received \in [Subscribers -> Seq(PayloadType)]
  BY EmptySequences DEF Init
<1>3. clock \in 0..MaxClock /\ nextTick \in Nat /\ count \in Nat
  BY PreConfAssumption DEF Init
<1>4. ready \in Seq(Nat) /\ block \in Seq(Nat)
  BY EmptySequences DEF Init
<1>5. subs \in [Subscribers -> {"away", "subscribed", "dropped"}]
  BY DEF Init
<1> QED
  BY <1>1, <1>2, <1>3, <1>4, <1>5, PreConfAssumption DEF Init, TypeOK, Pushing

\* effective_deadline is a time no later than the deadline of the block.
LEMMA EffectiveDeadlineBound ==
  ASSUME TypeOK
  PROVE  EffectiveDeadline \in Nat /\ EffectiveDeadline <= Deadline
  BY PreConfAssumption DEF TypeOK, EffectiveDeadline

\* Every step keeps the types.
LEMMA TypeStep == TypeOK /\ [Next]_vars => TypeOK'
<1> SUFFICES ASSUME TypeOK, [Next]_vars PROVE TypeOK'
  OBVIOUS
<1> USE PreConfAssumption DEF TypeOK, Pushing, publishVars
<1>1. CASE TimePasses
  BY <1>1 DEF TimePasses, mainVars, cancelVars, tickerVars
<1>2. CASE ApplyInherents
  BY <1>2 DEF ApplyInherents
<1>3. CASE ReadyAt
  BY <1>3 DEF ReadyAt, cancelVars, tickerVars
<1>4. CASE StopBuilding
  BY <1>4 DEF StopBuilding, cancelVars, tickerVars
<1>5. CASE StartSubBlock
  <2> DEFINE left == IF EffectiveDeadline > clock THEN EffectiveDeadline - clock ELSE 0
  <2>2. EffectiveDeadline \in Nat /\ left \in Nat
    BY EffectiveDeadlineBound
  <2>3. clock + left \div 2 \in Nat
    BY <2>2
  <2>4. sub' = [until |-> EffectiveDeadline, soft |-> clock + left \div 2,
                skipped |-> 0, pushed |-> <<>>]
    BY <1>5 DEF StartSubBlock
  <2>1. sub' \in SubType
    <3> HIDE DEF TypeOK, left
    <3> QED
      BY <2>2, <2>3, <2>4, EmptySequences DEF SubType
  <2> QED
    BY <1>5, <2>1 DEF StartSubBlock, cancelVars, tickerVars
<1>6. CASE HitDeadline
  BY <1>6 DEF HitDeadline, Applying, cancelVars, tickerVars
<1>7. CASE PushTx
  <2>1. Head(ready) \in Nat /\ ready' \in Seq(Nat) /\ block' \in Seq(Nat)
    <3>1. Head(ready) \in Nat /\ ready' \in Seq(Nat)
      BY <1>7, HeadTail DEF PushTx
    <3> QED
      BY <1>7, <3>1 DEF PushTx
  <2>2. Append(sub.pushed, Head(ready)) \in Seq(Nat)
    BY <2>1 DEF SubType
  <2>3. sub' \in SubType
    <3> HIDE DEF TypeOK
    <3>1. sub \in SubType /\ sub' = [sub EXCEPT !.pushed = Append(sub.pushed, Head(ready))]
      BY <1>7 DEF PushTx, TypeOK
    <3> QED
      BY <2>2, <3>1 DEF SubType
  <2> QED
    BY <1>7, <2>1, <2>3 DEF PushTx, cancelVars, tickerVars
<1>8. CASE InvalidTx
  <2>1. ready' \in Seq(Nat)
    BY <1>8, ReportInvalidType DEF InvalidTx
  <2> QED
    BY <1>8, <2>1 DEF InvalidTx, cancelVars, tickerVars
<1>9. CASE BlockFull \/ OverSize
  <2>1. ready' \in Seq(Nat)
    BY <1>9, ReportInvalidType DEF BlockFull, OverSize
  <2>2. sub' \in SubType
    <3> HIDE DEF TypeOK
    <3>1. /\ sub \in SubType
          /\ \/ sub' = sub
             \/ /\ sub.skipped < MaxSkipped
                /\ sub' = [sub EXCEPT !.skipped = sub.skipped + 1]
      BY <1>9 DEF BlockFull, OverSize, Skip, TypeOK
    <3> QED
      BY <3>1, OneMoreSkipped
  <2>3. main' \in {"apply", "end"}
    BY <1>9 DEF BlockFull, OverSize, Skip
  <2> QED
    BY <1>9, <2>1, <2>2, <2>3 DEF BlockFull, OverSize, Pushing, cancelVars, tickerVars
<1>18. CASE TakeTx
  BY <1>18 DEF TakeTx, Applying, Pushing, cancelVars, tickerVars
<1>10. CASE NoMoreTransactions
  BY <1>10 DEF NoMoreTransactions, cancelVars, tickerVars
<1>11. CASE EndSubBlock
  <2>1. Payload \in PayloadType
    BY DEF Payload, PayloadType, SubType
  <2>2. queue' \in Seq(PayloadType)
    BY <1>11, <2>1 DEF EndSubBlock
  <2>3. sub' \in SubType
    BY <1>11, EmptySequences DEF EndSubBlock
  <2> QED
    BY <1>11, <2>2, <2>3 DEF EndSubBlock, cancelVars, tickerVars
<1>12. CASE BuildBlock
  BY <1>12 DEF BuildBlock, cancelVars, tickerVars
<1>13. CASE CancellerStep
  <2>1. CASE CancellerStart
    BY <2>1 DEF CancellerStart, mainVars, tickerVars
  <2>2. CASE Cancel
    BY <2>2 DEF Cancel, mainVars, tickerVars
  <2> QED
    BY <1>13, <2>1, <2>2 DEF CancellerStep
<1>14. CASE TickerStep
  <2>1. CASE TickerStart
    BY <2>1 DEF TickerStart, mainVars, cancelVars
  <2>2. CASE TickerCancelled
    BY <2>2 DEF TickerCancelled, mainVars, cancelVars
  <2>3. CASE IntervalTick
    BY <2>3 DEF IntervalTick, mainVars, cancelVars
  <2>4. CASE SendSignal
    BY <2>4 DEF SendSignal, mainVars, cancelVars
  <2> QED
    BY <1>14, <2>1, <2>2, <2>3, <2>4 DEF TickerStep
<1>15. CASE Publish
  <2>1. Head(queue) \in PayloadType /\ queue' \in Seq(PayloadType)
    BY <1>15 DEF Publish
  <2>2. published' \in Seq(PayloadType)
    BY <1>15, <2>1 DEF Publish
  <2>3. subs' \in [Subscribers -> {"away", "subscribed", "dropped"}]
    BY <1>15 DEF Publish
  <2>4. received' \in [Subscribers -> Seq(PayloadType)]
    BY <1>15, <2>1 DEF Publish
  <2> QED
    BY <1>15, <2>1, <2>2, <2>3, <2>4 DEF Publish, mainVars, cancelVars, tickerVars
<1>16. ASSUME NEW s \in Subscribers, Subscribe(s) PROVE TypeOK'
  BY <1>16 DEF Subscribe, mainVars, cancelVars, tickerVars
<1>17. CASE UNCHANGED vars
  BY <1>17 DEF vars, mainVars, cancelVars, tickerVars
<1> QED
  BY <1>1, <1>2, <1>3, <1>4, <1>5, <1>6, <1>7, <1>8, <1>9, <1>10, <1>11, <1>12,
     <1>13, <1>14, <1>15, <1>16, <1>17, <1>18 DEF Next, MainStep

\* The variables of propose_with and of the tasks it spawns keep their types.
THEOREM TypeCorrect == Spec => []TypeOK
  BY TypeInit, TypeStep, PTL DEF Spec

(***************************************************************************)
(* Sequences: what grows at its end keeps its parts.                       *)
(***************************************************************************)
\* What SubSeq returns for a part of a sequence.
LEMMA PartOf ==
  ASSUME NEW S, NEW t \in Seq(S), NEW m \in 1..(Len(t) + 1), NEW n \in 0..Len(t)
  PROVE  /\ SubSeq(t, m, n) \in Seq(S)
         /\ Len(SubSeq(t, m, n)) = IF m <= n THEN n - m + 1 ELSE 0
         /\ \A i \in 1..(n - m + 1) : SubSeq(t, m, n)[i] = t[m + i - 1]
  BY SubSeqProperties, ElementOfSeq

\* A part does not change when the sequence grows.
LEMMA PartOfLonger ==
  ASSUME NEW S, NEW s \in Seq(S), NEW x \in S,
         NEW m \in 1..(Len(s) + 1), NEW n \in 0..Len(s)
  PROVE  SubSeq(Append(s, x), m, n) = SubSeq(s, m, n)
<1>1. /\ SubSeq(s, m, n) \in Seq(S)
      /\ Len(SubSeq(s, m, n)) = IF m <= n THEN n - m + 1 ELSE 0
      /\ \A i \in 1..(n - m + 1) : SubSeq(s, m, n)[i] = s[m + i - 1]
  BY PartOf
<1>2. \A i \in 1..Len(s) : Append(s, x)[i] = s[i] /\ s[i] \in S
  BY AppendProperties, ElementOfSeq
<1>3. /\ SubSeq(Append(s, x), m, n) \in Seq(S)
      /\ Len(SubSeq(Append(s, x), m, n)) = IF m <= n THEN n - m + 1 ELSE 0
      /\ \A i \in 1..(n - m + 1) : SubSeq(Append(s, x), m, n)[i] = Append(s, x)[m + i - 1]
  <2> DEFINE t == Append(s, x)
  <2>1. t \in Seq(S) /\ m \in 1..(Len(t) + 1) /\ n \in 0..Len(t)
    BY AppendProperties
  <2> HIDE DEF t
  <2>2. /\ SubSeq(t, m, n) \in Seq(S)
        /\ Len(SubSeq(t, m, n)) = IF m <= n THEN n - m + 1 ELSE 0
        /\ \A i \in 1..(n - m + 1) : SubSeq(t, m, n)[i] = t[m + i - 1]
    BY <2>1, PartOf, Zenon
  <2> QED
    BY <2>2, Zenon DEF t
<1>4. \A i \in 1..(n - m + 1) : SubSeq(Append(s, x), m, n)[i] = SubSeq(s, m, n)[i]
  BY <1>1, <1>2, <1>3
<1> QED
  BY <1>1, <1>3, <1>4, SeqEqual

\* A part that reaches the end of a sequence grows with it.
LEMMA PartToTheEnd ==
  ASSUME NEW S, NEW s \in Seq(S), NEW x \in S, NEW m \in 1..(Len(s) + 1)
  PROVE  SubSeq(Append(s, x), m, Len(s) + 1) = Append(SubSeq(s, m, Len(s)), x)
<1>1. \A i \in 1..(Len(s) + 1) : Append(s, x)[i] \in S
  BY AppendProperties, ElementOfSeq
<1>2. SubSeq(Append(s, x), m, Len(s) + 1) =
        Append(SubSeq(Append(s, x), m, Len(s)), Append(s, x)[Len(s) + 1])
  BY <1>1, SubSeqRecursiveSecond
<1>3. SubSeq(Append(s, x), m, Len(s)) = SubSeq(s, m, Len(s))
  BY PartOfLonger
<1> QED
  BY <1>2, <1>3, AppendProperties

\* Appending to the second of two joined sequences appends to both.
LEMMA AppendBehind ==
  ASSUME NEW S, NEW a \in Seq(S), NEW b \in Seq(S), NEW x \in S
  PROVE  a \o Append(b, x) = Append(a \o b, x)
  OBVIOUS

\* Moving the head of the second to the end of the first changes nothing.
LEMMA HeadMoves ==
  ASSUME NEW S, NEW a \in Seq(S), NEW b \in Seq(S), b # <<>>
  PROVE  Append(a, Head(b)) \o Tail(b) = a \o b
<1>1. Head(b) \in S /\ Tail(b) \in Seq(S) /\ Len(Tail(b)) = Len(b) - 1
  BY HeadTailProperties
<1>2. /\ Append(a, Head(b)) \o Tail(b) \in Seq(S) /\ a \o b \in Seq(S)
      /\ Len(Append(a, Head(b)) \o Tail(b)) = Len(a \o b)
  BY <1>1, ConcatProperties, AppendProperties
<1>3. \A i \in 1..Len(a \o b) : (Append(a, Head(b)) \o Tail(b))[i] = (a \o b)[i]
  BY <1>1
<1> QED
  BY <1>2, <1>3, SeqEqual

(***************************************************************************)
(* What a sub-block that is being built adds to the invariants: it ends by *)
(* the deadline of the block, and holds no extrinsics before it begins.    *)
(***************************************************************************)
SubBlockSane ==
  /\ main \in {"apply", "push"} => sub.until <= Deadline
  /\ main \notin {"apply", "push", "end"} => sub.pushed = <<>>

\* A step that neither pushes, ends a sub-block nor publishes.
Quiet ==
  /\ UNCHANGED <<block, count, queue, published>>
  /\ sub'.pushed = sub.pushed

\* What a step can do to the variables the payloads depend on.
LEMMA StepKinds ==
  ASSUME TypeOK, SubBlockSane, [Next]_vars
  PROVE  PushTx \/ EndSubBlock \/ Publish \/ Quiet
<1>1. CASE StartSubBlock
  BY <1>1 DEF StartSubBlock, SubBlockSane, Quiet, publishVars
<1>2. CASE BlockFull \/ OverSize
  BY <1>2 DEF BlockFull, OverSize, Skip, Quiet, publishVars, TypeOK, SubType
<1>3. CASE ApplyInherents \/ ReadyAt \/ StopBuilding \/ HitDeadline \/ InvalidTx
           \/ TakeTx \/ NoMoreTransactions \/ BuildBlock
  BY <1>3 DEF ApplyInherents, ReadyAt, StopBuilding, HitDeadline, InvalidTx,
              TakeTx, NoMoreTransactions, BuildBlock, Quiet, publishVars
<1>4. CASE TimePasses \/ CancellerStep \/ TickerStep \/ UNCHANGED vars
  BY <1>4 DEF TimePasses, CancellerStep, CancellerStart, Cancel, TickerStep,
              TickerStart, TickerCancelled, IntervalTick, SendSignal, vars,
              mainVars, Quiet, publishVars
<1>5. ASSUME NEW s \in Subscribers, Subscribe(s) PROVE Quiet
  BY <1>5 DEF Subscribe, mainVars, Quiet
<1> QED
  BY <1>1, <1>2, <1>3, <1>4, <1>5 DEF Next, MainStep

\* Every step preserves SubBlockSane.
LEMMA SubBlockSaneStep ==
  ASSUME TypeOK, SubBlockSane, [Next]_vars
  PROVE  SubBlockSane'
<1> USE DEF SubBlockSane
<1>1. CASE StartSubBlock
  BY <1>1, EffectiveDeadlineBound DEF StartSubBlock
<1>2. CASE BlockFull \/ OverSize
  BY <1>2 DEF BlockFull, OverSize, Skip, Applying, Pushing, TypeOK, SubType
<1>3. CASE PushTx
  BY <1>3 DEF PushTx, Pushing, TypeOK, SubType
<1>4. CASE EndSubBlock
  BY <1>4 DEF EndSubBlock, NoSub
<1>5. CASE ApplyInherents \/ ReadyAt \/ StopBuilding \/ HitDeadline \/ InvalidTx
           \/ TakeTx \/ NoMoreTransactions \/ BuildBlock
  BY <1>5 DEF ApplyInherents, ReadyAt, StopBuilding, HitDeadline, InvalidTx,
              TakeTx, Applying, Pushing, NoMoreTransactions, BuildBlock
<1>6. CASE TimePasses \/ CancellerStep \/ TickerStep \/ Publish \/ UNCHANGED vars
  BY <1>6 DEF TimePasses, CancellerStep, CancellerStart, Cancel, TickerStep,
              TickerStart, TickerCancelled, IntervalTick, SendSignal, vars,
              mainVars, Publish
<1>7. ASSUME NEW s \in Subscribers, Subscribe(s) PROVE SubBlockSane'
  BY <1>7 DEF Subscribe, mainVars
<1> QED
  BY <1>1, <1>2, <1>3, <1>4, <1>5, <1>6, <1>7 DEF Next, MainStep

(***************************************************************************)
(* The payloads.                                                           *)
(***************************************************************************)
\* The end of a sub-block that pushed something adds its payload to those made.
LEMMA MadeGrows ==
  ASSUME TypeOK, EndSubBlock, sub.pushed # <<>>
  PROVE  /\ Made \in Seq(PayloadType) /\ Payload \in PayloadType
         /\ Made' = Append(Made, Payload)
<1>1. Payload \in PayloadType
  BY DEF Payload, PayloadType, TypeOK, SubType
<1>2. queue' = Append(queue, Payload) /\ published' = published
  BY DEF EndSubBlock, publishVars
<1> QED
  BY <1>1, <1>2, AppendBehind, ConcatProperties DEF Made, TypeOK

\* The publisher moves payloads, it makes none.
LEMMA MadeKept ==
  ASSUME TypeOK, Publish \/ Quiet \/ (EndSubBlock /\ sub.pushed = <<>>) \/ PushTx
  PROVE  Made' = Made
<1>1. CASE Publish
  <2>1. /\ queue \in Seq(PayloadType) /\ published \in Seq(PayloadType)
        /\ queue # <<>> /\ queue' = Tail(queue)
        /\ published' = Append(published, Head(queue))
    BY <1>1 DEF Publish, TypeOK
  <2> QED
    BY <2>1, HeadMoves DEF Made
<1> QED
  BY <1>1 DEF Quiet, EndSubBlock, PushTx, Made, publishVars

\* Every step preserves PayloadsOrdered.
LEMMA OrderedStep ==
  ASSUME TypeOK, SubBlockSane, PayloadsOrdered, [Next]_vars
  PROVE  PayloadsOrdered'
<1>1. CASE EndSubBlock /\ sub.pushed # <<>>
  <2>1. /\ Made \in Seq(PayloadType) /\ Payload \in PayloadType
        /\ Made' = Append(Made, Payload)
    BY <1>1, MadeGrows
  <2>2. /\ Len(Made) \in Nat
        /\ Len(Made') = Len(Made) + 1 /\ Made'[Len(Made) + 1] = Payload
        /\ \A i \in 1..Len(Made) : Made'[i] = Made[i] /\ Made[i] \in PayloadType
    BY <2>1, AppendProperties, ElementOfSeq, LenProperties
  <2>3. count \in Nat /\ count' = count + 1
    BY <1>1 DEF EndSubBlock, TypeOK
  <2>4. Payload.index = count /\ (Payload.base <=> count = 0)
    BY DEF Payload
  <2>5. \A i \in 1..Len(Made) : Made[i].index \in Nat
    BY <2>2 DEF PayloadType
  <2>6. \A i, j \in 1..Len(Made') : i < j => Made'[i].index < Made'[j].index
    <3> SUFFICES ASSUME NEW i \in 1..Len(Made'), NEW j \in 1..Len(Made'), i < j
                 PROVE  Made'[i].index < Made'[j].index
      OBVIOUS
    <3>1. i \in 1..Len(Made) /\ Made'[i] = Made[i]
      BY <2>2
    <3>2. CASE j = Len(Made) + 1
      BY <2>2, <2>4, <3>1, <3>2 DEF PayloadsOrdered
    <3>3. CASE j \in 1..Len(Made)
      BY <2>2, <3>1, <3>3 DEF PayloadsOrdered
    <3> QED
      BY <2>2, <3>2, <3>3
  <2>7. \A i \in 1..Len(Made') :
          Made'[i].index < count' /\ (Made'[i].base <=> Made'[i].index = 0)
    BY <2>2, <2>3, <2>4, <2>5 DEF PayloadsOrdered
  <2> QED
    BY <2>6, <2>7 DEF PayloadsOrdered
<1>2. CASE Publish \/ Quiet \/ (EndSubBlock /\ sub.pushed = <<>>) \/ PushTx
  <2>1. Made' = Made /\ Made \in Seq(PayloadType)
    BY <1>2, MadeKept, ConcatProperties DEF Made, TypeOK
  <2>2. count \in Nat /\ count' \in {count, count + 1}
    BY <1>2 DEF Publish, Quiet, EndSubBlock, PushTx, mainVars, TypeOK
  <2>3. \A i \in 1..Len(Made) : Made[i].index \in Nat
    <3>1. \A i \in 1..Len(Made) : Made[i] \in PayloadType
      BY <2>1, ElementOfSeq
    <3> QED
      BY <3>1 DEF PayloadType
  <2> QED
    BY <2>1, <2>2, <2>3 DEF PayloadsOrdered
<1> QED
  BY <1>1, <1>2, StepKinds

\* Every step preserves PayloadsMakeTheBlock.
LEMMA CutStep ==
  ASSUME TypeOK, SubBlockSane, PayloadsMakeTheBlock, [Next]_vars
  PROVE  PayloadsMakeTheBlock'
<1> DEFINE n == Len(Made)
<1>0. /\ Made \in Seq(PayloadType) /\ n \in Nat
      /\ block \in Seq(Nat) /\ Len(block) \in Nat /\ sub.pushed \in Seq(Nat)
  BY ConcatProperties, LenProperties DEF Made, TypeOK, SubType
<1>1. PICK cut \in [0..n -> 0..Len(block)] :
        /\ cut[0] = 0
        /\ \A i \in 1..n :
             /\ cut[i - 1] < cut[i]
             /\ Made[i].txs = SubSeq(block, cut[i - 1] + 1, cut[i])
        /\ sub.pushed = SubSeq(block, cut[n] + 1, Len(block))
  BY DEF PayloadsMakeTheBlock
<1>5. \A i \in 0..n : cut[i] \in 0..Len(block)
  OBVIOUS
<1> HIDE DEF n
<1>2. CASE EndSubBlock /\ sub.pushed # <<>>
  <2> DEFINE longer == [i \in 0..(n + 1) |-> IF i = n + 1 THEN Len(block) ELSE cut[i]]
  <2>1. Made' = Append(Made, Payload) /\ Payload \in PayloadType
    BY <1>2, MadeGrows
  <2>2. /\ Len(Made') = n + 1 /\ Made'[n + 1] = Payload
        /\ \A i \in 1..n : Made'[i] = Made[i]
    BY <1>0, <2>1, AppendProperties DEF n
  <2>3. block' = block /\ sub'.pushed = <<>>
    BY <1>2 DEF EndSubBlock, NoSub
  <2>4. longer \in [0..(n + 1) -> 0..Len(block)] /\ longer[0] = 0
    BY <1>0, <1>1
  <2>5. cut[n] < Len(block)
    <3>1. cut[n] \in 0..Len(block)
      BY <1>0, <1>5
    <3>2. cut[n] = Len(block) => SubSeq(block, cut[n] + 1, Len(block)) = <<>>
      BY <1>0, SubSeqEmpty
    <3> QED
      BY <1>0, <1>1, <1>2, <3>1, <3>2
  <2>6. \A i \in 1..(n + 1) :
          /\ longer[i - 1] < longer[i]
          /\ Made'[i].txs = SubSeq(block, longer[i - 1] + 1, longer[i])
    <3> SUFFICES ASSUME NEW i \in 1..(n + 1)
                 PROVE  /\ longer[i - 1] < longer[i]
                        /\ Made'[i].txs = SubSeq(block, longer[i - 1] + 1, longer[i])
      OBVIOUS
    <3>1. CASE i = n + 1
      <4>1. longer[i] = Len(block) /\ longer[i - 1] = cut[n]
        BY <1>0, <3>1
      <4> QED
        <5>1. Made'[i].txs = sub.pushed
          BY <2>2, <3>1 DEF Payload
        <5>2. sub.pushed = SubSeq(block, cut[n] + 1, Len(block))
          BY <1>1
        <5> HIDE DEF longer
        <5> QED
          BY <2>5, <4>1, <5>1, <5>2
    <3>2. CASE i \in 1..n
      <4>1. longer[i] = cut[i] /\ longer[i - 1] = cut[i - 1]
        BY <1>0, <3>2
      <4> QED
        BY <1>1, <2>2, <3>2, <4>1
    <3>3. i = n + 1 \/ i \in 1..n
      BY <1>0
    <3> QED
      BY <3>1, <3>2, <3>3
  <2>7. sub'.pushed = SubSeq(block, longer[n + 1] + 1, Len(block))
    BY <1>0, <2>3, SubSeqEmpty
  <2> HIDE DEF longer
  <2> QED
    BY <2>2, <2>3, <2>4, <2>6, <2>7 DEF PayloadsMakeTheBlock, n
<1>3. CASE PushTx
  <2>1. /\ Head(ready) \in Nat
        /\ block' = Append(block, Head(ready))
        /\ sub'.pushed = Append(sub.pushed, Head(ready))
    BY <1>3, HeadTail DEF PushTx, Pushing, TypeOK, SubType
  <2>2. Made' = Made
    BY <1>3, MadeKept
  <2>3. Len(block') = Len(block) + 1
    BY <1>0, <2>1, AppendProperties
  <2>4. cut \in [0..n -> 0..Len(block')]
    BY <1>0, <1>1, <2>3
  <2>5. \A i \in 1..n : Made[i].txs = SubSeq(block', cut[i - 1] + 1, cut[i])
    <3> SUFFICES ASSUME NEW i \in 1..n
                 PROVE  Made[i].txs = SubSeq(block', cut[i - 1] + 1, cut[i])
      OBVIOUS
    <3>1. cut[i - 1] + 1 \in 1..(Len(block) + 1) /\ cut[i] \in 0..Len(block)
      BY <1>0, <1>5
    <3>2. SubSeq(block', cut[i - 1] + 1, cut[i]) = SubSeq(block, cut[i - 1] + 1, cut[i])
      BY <1>0, <2>1, <3>1, PartOfLonger
    <3> QED
      BY <1>1, <3>2
  <2>6. sub'.pushed = SubSeq(block', cut[n] + 1, Len(block'))
    <3>1. cut[n] + 1 \in 1..(Len(block) + 1)
      BY <1>0, <1>5
    <3>2. SubSeq(block', cut[n] + 1, Len(block) + 1)
            = Append(SubSeq(block, cut[n] + 1, Len(block)), Head(ready))
      BY <1>0, <2>1, <3>1, PartToTheEnd
    <3> QED
      BY <1>1, <2>1, <2>3, <3>2
  <2> QED
    BY <1>1, <2>2, <2>4, <2>5, <2>6 DEF PayloadsMakeTheBlock, n
<1>4. CASE Publish \/ Quiet \/ (EndSubBlock /\ sub.pushed = <<>>)
  <2>1. Made' = Made
    BY <1>4, MadeKept
  <2>2. block' = block /\ sub'.pushed = sub.pushed
    <3>1. CASE Publish \/ Quiet
      BY <3>1 DEF Publish, Quiet, mainVars
    <3>2. CASE EndSubBlock /\ sub.pushed = <<>>
      BY <3>2 DEF EndSubBlock, NoSub
    <3> QED
      BY <1>4, <3>1, <3>2
  <2> QED
    BY <2>1, <2>2 DEF PayloadsMakeTheBlock
<1> QED
  BY <1>2, <1>3, <1>4, StepKinds

(***************************************************************************)
(* The subscribers.                                                        *)
(***************************************************************************)
\* One more on either side.
LEMMA OneMore ==
  ASSUME NEW a \in Nat, NEW b \in Nat, NEW c \in Nat, a + b = c
  PROVE  a + (b + 1) = c + 1
  OBVIOUS

NothingBefore == \A s \in Subscribers : subs[s] = "away" => received[s] = <<>>

\* Every step preserves RunReceived.
LEMMA RunStep ==
  ASSUME TypeOK, NothingBefore, RunReceived, [Next]_vars
  PROVE  NothingBefore' /\ RunReceived'
<1>1. CASE Publish
  <2> SUFFICES ASSUME NEW s \in Subscribers
               PROVE  /\ subs'[s] = "away" => received'[s] = <<>>
                      /\ \E k \in 0..Len(published') :
                           /\ k + Len(received'[s]) <= Len(published')
                           /\ received'[s] = SubSeq(published', k + 1, k + Len(received'[s]))
                           /\ subs'[s] = "subscribed" => k + Len(received'[s]) = Len(published')
    BY DEF RunReceived, NothingBefore
  <2> DEFINE x == Head(queue)
             r == received[s]
  <2>1. /\ x \in PayloadType /\ published' = Append(published, x)
        /\ published \in Seq(PayloadType) /\ Len(published) \in Nat
        /\ r \in Seq(PayloadType) /\ Len(r) \in Nat
    BY <1>1, HeadTail, LenProperties DEF Publish, TypeOK
  <2>2. Len(published') = Len(published) + 1
    BY <2>1, AppendProperties
  <2>3. /\ subs[s] \in {"away", "subscribed", "dropped"}
        /\ subs'[s] \in {subs[s], "dropped"}
        /\ \/ received'[s] = r /\ subs'[s] # "subscribed"
           \/ received'[s] = Append(r, x) /\ subs[s] = "subscribed"
    BY <1>1 DEF Publish, TypeOK
  <2>4. PICK k \in 0..Len(published) :
          /\ k + Len(r) <= Len(published)
          /\ r = SubSeq(published, k + 1, k + Len(r))
          /\ subs[s] = "subscribed" => k + Len(r) = Len(published)
    BY DEF RunReceived
  <2>5. /\ k \in Nat /\ k \in 0..Len(published')
        /\ k + 1 \in 1..(Len(published) + 1)
    BY <2>1, <2>2
  <2>8. subs'[s] = "away" => received'[s] = <<>>
    BY <2>3 DEF NothingBefore
  <2> HIDE DEF x, r
  <2>6. CASE received'[s] = r /\ subs'[s] # "subscribed"
    <3>1. SubSeq(published', k + 1, k + Len(r)) = SubSeq(published, k + 1, k + Len(r))
      BY <2>1, <2>4, <2>5, PartOfLonger
    <3>2. k + Len(received'[s]) <= Len(published')
      BY <2>1, <2>2, <2>4, <2>5, <2>6
    <3> QED
      BY <2>4, <2>5, <2>6, <2>8, <3>1, <3>2
  <2>7. CASE received'[s] = Append(r, x) /\ subs[s] = "subscribed"
    <3>1. Len(received'[s]) = Len(r) + 1 /\ k + Len(r) = Len(published)
      BY <2>1, <2>4, <2>7, AppendProperties
    <3>2. SubSeq(published', k + 1, Len(published) + 1)
            = Append(SubSeq(published, k + 1, Len(published)), x)
      BY <2>1, <2>5, PartToTheEnd
    <3>3. k + Len(received'[s]) = Len(published) + 1
      BY <2>1, <2>5, <3>1, OneMore
    <3>4. received'[s] = SubSeq(published', k + 1, k + Len(received'[s]))
      BY <2>4, <2>7, <3>1, <3>2, <3>3
    <3>5. k + Len(received'[s]) = Len(published')
      BY <2>2, <3>3
    <3>7. k + Len(received'[s]) <= Len(published')
      BY <2>1, <2>2, <3>5
    <3> QED
      BY <2>5, <2>8, <3>4, <3>5, <3>7
  <2> QED
    BY <2>3, <2>6, <2>7
<1>2. CASE \E s \in Subscribers : Subscribe(s)
  <2>1. PICK t \in Subscribers : Subscribe(t)
    BY <1>2
  <2>2. /\ received' = received /\ published' = published /\ subs[t] = "away"
        /\ \A s \in Subscribers \ {t} : subs'[s] = subs[s]
        /\ subs'[t] = "subscribed"
    BY <2>1 DEF Subscribe, TypeOK
  <2>3. received[t] = <<>> /\ Len(published) \in Nat
    BY <2>2, LenProperties DEF NothingBefore, TypeOK
  <2>4. /\ Len(published) \in 0..Len(published)
        /\ Len(published) + Len(received[t]) = Len(published)
        /\ received[t] = SubSeq(published, Len(published) + 1,
                                Len(published) + Len(received[t]))
    BY <2>3, SubSeqEmpty
  <2>5. \A s \in Subscribers : \E k \in 0..Len(published) :
          /\ k + Len(received[s]) <= Len(published)
          /\ received[s] = SubSeq(published, k + 1, k + Len(received[s]))
          /\ subs'[s] = "subscribed" => k + Len(received[s]) = Len(published)
    <3> SUFFICES ASSUME NEW s \in Subscribers
                 PROVE  \E k \in 0..Len(published) :
                          /\ k + Len(received[s]) <= Len(published)
                          /\ received[s] = SubSeq(published, k + 1, k + Len(received[s]))
                          /\ subs'[s] = "subscribed" => k + Len(received[s]) = Len(published)
      OBVIOUS
    <3>1. CASE s = t
      <4>1. Len(published) + Len(received[s]) <= Len(published)
        BY <2>3, <2>4, <3>1
      <4> QED
        BY <2>4, <3>1, <4>1
    <3>2. CASE s # t
      BY <2>2, <3>2 DEF RunReceived
    <3> QED
      BY <3>1, <3>2
  <2> QED
    BY <2>2, <2>5 DEF RunReceived, NothingBefore
<1>3. CASE UNCHANGED publishVars
  BY <1>3 DEF RunReceived, NothingBefore, publishVars
<1>4. MainStep => UNCHANGED publishVars
  BY DEF MainStep, ApplyInherents, ReadyAt, StopBuilding, StartSubBlock,
         HitDeadline, OverSize, TakeTx, PushTx, InvalidTx, BlockFull, NoMoreTransactions,
         EndSubBlock, BuildBlock
<1>5. TimePasses \/ CancellerStep \/ TickerStep \/ UNCHANGED vars
        => UNCHANGED publishVars
  BY DEF TimePasses, CancellerStep, CancellerStart, Cancel, TickerStep,
         TickerStart, TickerCancelled, IntervalTick, SendSignal, vars
<1> QED
  BY <1>1, <1>2, <1>3, <1>4, <1>5 DEF Next

(***************************************************************************)
(* The theorems.                                                           *)
(***************************************************************************)
IInv ==
  /\ TypeOK /\ SubBlockSane /\ NothingBefore
  /\ PayloadsMakeTheBlock /\ PayloadsOrdered /\ RunReceived

\* The inductive invariant holds at the start.
LEMMA IInvInit == Init => IInv
<1> SUFFICES ASSUME Init PROVE IInv
  OBVIOUS
<1>1. TypeOK
  BY TypeInit
<1>2. SubBlockSane /\ NothingBefore
  BY DEF Init, SubBlockSane, NothingBefore, NoSub
<1>3. Made = <<>> /\ Len(Made) = 0 /\ Len(block) = 0
  BY DEF Init, Made
<1>4. PayloadsMakeTheBlock
  <2> DEFINE cut == [i \in 0..0 |-> 0]
  <2>1. cut \in [0..0 -> 0..0] /\ cut[0] = 0
    OBVIOUS
  <2>2. sub.pushed = SubSeq(block, cut[0] + 1, 0)
    BY <2>1, SubSeqEmpty DEF Init, NoSub
  <2> HIDE DEF cut
  <2>3. /\ cut \in [0..Len(Made) -> 0..Len(block)]
        /\ \A i \in 1..Len(Made) : FALSE
        /\ sub.pushed = SubSeq(block, cut[Len(Made)] + 1, Len(block))
    BY <1>3, <2>1, <2>2
  <2> QED
    BY <2>1, <2>3 DEF PayloadsMakeTheBlock
<1>5. PayloadsOrdered
  BY <1>3 DEF PayloadsOrdered
<1>6. RunReceived
  <2> SUFFICES ASSUME NEW s \in Subscribers
               PROVE  \E k \in 0..Len(published) :
                        /\ k + Len(received[s]) <= Len(published)
                        /\ received[s] = SubSeq(published, k + 1, k + Len(received[s]))
                        /\ subs[s] = "subscribed" => k + Len(received[s]) = Len(published)
    BY DEF RunReceived
  <2>1. received[s] = <<>> /\ published = <<>> /\ Len(published) = 0 /\ Len(received[s]) = 0
    BY DEF Init
  <2>2. received[s] = SubSeq(published, 0 + 1, 0 + Len(received[s]))
    BY <2>1, SubSeqEmpty
  <2> QED
    BY <2>1, <2>2
<1> QED
  BY <1>1, <1>2, <1>4, <1>5, <1>6 DEF IInv

\* Every step preserves the inductive invariant.
LEMMA IInvStep == IInv /\ [Next]_vars => IInv'
  BY TypeStep, SubBlockSaneStep, CutStep, OrderedStep, RunStep DEF IInv

\* The inductive invariant holds in every reachable state.
LEMMA IInvAlways == Spec => []IInv
  BY IInvInit, IInvStep, PTL DEF Spec

\* Whatever the pool holds and however the tasks interleave, the payloads of
\* build_sub_block are the block, cut into consecutive pieces.
THEOREM PayloadsCutTheBlock == Spec => []PayloadsMakeTheBlock
  BY IInvAlways, PTL DEF IInv

\* Payload indexes grow and the base comes with index 0 only.
THEOREM PayloadsInOrder == Spec => []PayloadsOrdered
  BY IInvAlways, PTL DEF IInv

\* Whenever they come and however their sockets fail, subscribers are sent
\* contiguous runs of the payloads by publish_task.
THEOREM SubscribersGetRuns == Spec => []RunReceived
  BY IInvAlways, PTL DEF IInv

\* apply_extrinsics takes up no transaction after the deadline of the block.
THEOREM NothingTakenLate == Spec => TakenInTime
<1>1. IInv /\ [Next]_vars => [Pushing' /\ ~Pushing => clock <= Deadline]_vars
  <2> SUFFICES ASSUME IInv, [Next]_vars, main' = "push", main # "push"
               PROVE  clock <= Deadline
    BY DEF Pushing
  <2>1. TakeTx
    BY DEF Next, MainStep, vars, mainVars, TimePasses, ApplyInherents, ReadyAt,
           StopBuilding, StartSubBlock, HitDeadline, OverSize, Skip, PushTx,
           InvalidTx, BlockFull, NoMoreTransactions, EndSubBlock, BuildBlock,
           CancellerStep, CancellerStart, Cancel, TickerStep, TickerStart,
           TickerCancelled, IntervalTick, SendSignal, Publish, Subscribe
  <2>2. clock <= sub.until /\ sub.until <= Deadline
    BY <2>1 DEF TakeTx, Applying, IInv, SubBlockSane
  <2>3. clock \in Int /\ sub.until \in Int /\ Deadline \in Int
    BY PreConfAssumption DEF IInv, TypeOK, SubType
  <2> QED
    BY <2>2, <2>3
<1> QED
  BY <1>1, IInvAlways, PTL DEF Spec, TakenInTime
=============================================================================
