------------------------------ MODULE PreConf ------------------------------
(***************************************************************************)
(* The proposer of client/authorship/src/preconf.rs building one block in  *)
(* sub-blocks, with the tasks it spawns:                                   *)
(*                                                                         *)
(*   main       PreConfProposer::propose_with and what it awaits           *)
(*   canceller  cancels the token at the deadline                          *)
(*   ticker     sends a build signal every preconf_block_time              *)
(*   publisher  publish_task, sends every payload to the subscribers       *)
(*                                                                         *)
(* The tasks run in parallel and time passes between any two steps.  The   *)
(* pool of ready transactions, the block builder and the sockets are       *)
(* external: a push succeeds, finds the block full or finds the            *)
(* transaction invalid, and a socket takes a message or does not.          *)
(***************************************************************************)
EXTENDS Integers, Sequences

CONSTANTS
  Txs,              \* the ready transactions, in the order of the pool
  Subscribers,      \* clients of the websocket server
  Deadline,         \* of the block, from the creation of the proposer
  PreconfTime,      \* preconf_block_time
  MaxSkipped,       \* MAX_SKIPPED_TRANSACTIONS
  MaxClock          \* bound: time is not followed beyond this

ASSUME PreConfAssumption ==
  /\ Txs \in Seq(Nat)
  /\ Deadline \in Nat \ {0} /\ PreconfTime \in Nat \ {0}
  /\ MaxSkipped \in Nat
  /\ MaxClock \in Nat /\ MaxClock > Deadline

VARIABLES
  clock,
  main,             \* where propose_with is
  ready,            \* what the iterator ready_txs still holds
  block,            \* the extrinsics pushed to the block builder
  sub,              \* locals of the sub-block that is being built
  count,            \* sub_block_count
  canceller, cancelled,
  ticker, nextTick, \* the interval fires when the clock reaches nextTick
  signal,           \* the build signals in the channel, at most one
  queue,            \* payloads in the channel to the publisher
  published,        \* payloads the publisher has taken, in order
  subs,             \* where each subscriber is
  received          \* the payloads each subscriber was sent

mainVars == <<main, ready, block, sub, count>>
tickerVars == <<ticker, nextTick>>
cancelVars == <<canceller, cancelled>>
publishVars == <<published, subs, received>>
vars == <<clock, mainVars, cancelVars, tickerVars, signal, queue, publishVars>>

NoSub == [until |-> 0, soft |-> 0, skipped |-> 0, pushed |-> <<>>]

Init ==
  /\ clock = 0
  /\ main = "inherents" /\ ready = <<>> /\ block = <<>> /\ sub = NoSub /\ count = 0
  /\ canceller = "none" /\ cancelled = FALSE
  /\ ticker = "none" /\ nextTick = 0
  /\ signal = 0
  /\ queue = <<>> /\ published = <<>>
  /\ subs = [s \in Subscribers |-> "away"]
  /\ received = [s \in Subscribers |-> <<>>]

\* The proposer, and with it both of its channel ends, is gone.
Ended == main \in {"proposed", "failed"}

TimePasses ==
  /\ clock < MaxClock
  /\ clock' = clock + 1
  /\ UNCHANGED <<mainVars, cancelVars, tickerVars, signal, queue, publishVars>>

-----------------------------------------------------------------------------
(* main                                                                    *)

\* apply_inherents; a mandatory inherent that fails ends the proposal.
ApplyInherents ==
  /\ main = "inherents"
  /\ \/ /\ main' = "waiting"
        /\ canceller' = "start" /\ ticker' = "start"
     \/ /\ main' = "failed"
        /\ UNCHANGED <<canceller, ticker>>
  /\ UNCHANGED <<clock, ready, block, sub, count, cancelled, nextTick, signal,
                 queue, publishVars>>

\* ready_at_with_timeout returns.
ReadyAt ==
  /\ main = "waiting"
  /\ main' = "select" /\ ready' = Txs
  /\ UNCHANGED <<clock, block, sub, count, cancelVars, tickerVars, signal,
                 queue, publishVars>>

\* The select takes either branch when both can be taken.
StopBuilding ==
  /\ main = "select"
  /\ cancelled \/ (signal = 0 /\ ticker = "done")
  /\ main' = "build"
  /\ UNCHANGED <<clock, ready, block, sub, count, cancelVars, tickerVars,
                 signal, queue, publishVars>>

\* Mutant: the deadline of the block plays no part.
EffectiveDeadlineOwn == clock + PreconfTime

EffectiveDeadline ==
  IF clock + PreconfTime < Deadline THEN clock + PreconfTime ELSE Deadline

\* The clock is read for the deadline and at once again for the soft deadline.
StartSubBlock ==
  LET until == EffectiveDeadline
      left == IF until > clock THEN until - clock ELSE 0
  IN  /\ main = "select" /\ signal = 1
      /\ signal' = 0
      /\ main' = "apply"
      /\ sub' = [until |-> until, soft |-> clock + left \div 2,
                 skipped |-> 0, pushed |-> <<>>]
      /\ UNCHANGED <<clock, ready, block, count, cancelVars, tickerVars,
                     queue, publishVars>>

\* apply_extrinsics reads the clock when it takes the next transaction, and
\* pushes it to the builder some time later.
Applying == main = "apply" /\ ready # <<>>
Pushing == main = "push"

\* The transaction that was taken from the iterator at the deadline is neither
\* pushed nor put back.
HitDeadline ==
  /\ Applying /\ clock > sub.until
  /\ ready' = Tail(ready)
  /\ main' = "end"
  /\ UNCHANGED <<clock, block, sub, count, cancelVars, tickerVars, signal,
                 queue, publishVars>>

\* A block without room is tried with MaxSkipped more transactions, and with
\* others until the soft deadline.
Skip ==
  IF sub.skipped < MaxSkipped
  THEN sub' = [sub EXCEPT !.skipped = @ + 1] /\ main' = "apply"
  ELSE UNCHANGED sub /\ main' = IF clock < sub.soft THEN "apply" ELSE "end"

\* ReadyTransactions::report_invalid: the transaction is out of the iterator,
\* and so is whatever comes after it and depends on it.
ReportInvalid ==
  \E n \in 0..(Len(ready) - 1) : \E at \in [1..n -> 2..Len(ready)] :
    /\ \A i, j \in 1..n : i < j => at[i] < at[j]
    /\ ready' = [i \in 1..n |-> ready[at[i]]]

\* The transaction does not fit the limit on the size of the block.
OverSize ==
  /\ Applying /\ clock <= sub.until
  /\ ReportInvalid
  /\ Skip
  /\ UNCHANGED <<clock, block, count, cancelVars, tickerVars, signal, queue,
                 publishVars>>

\* Nobody but main looks at the iterator: the transaction leaves it when it is
\* known what becomes of it.
TakeTx ==
  /\ Applying /\ clock <= sub.until
  /\ main' = "push"
  /\ UNCHANGED <<clock, ready, block, sub, count, cancelVars, tickerVars, signal,
                 queue, publishVars>>

PushTx ==
  /\ Pushing
  /\ ready' = Tail(ready)
  /\ block' = Append(block, Head(ready))
  /\ sub' = [sub EXCEPT !.pushed = Append(@, Head(ready))]
  /\ main' = "apply"
  /\ UNCHANGED <<clock, count, cancelVars, tickerVars, signal, queue,
                 publishVars>>

\* Mutant: the transaction is noted before the builder has accepted it.
InvalidTxNoted ==
  /\ Pushing
  /\ ready' = Tail(ready)
  /\ sub' = [sub EXCEPT !.pushed = Append(@, Head(ready))]
  /\ main' = "apply"
  /\ UNCHANGED <<clock, block, count, cancelVars, tickerVars, signal,
                 queue, publishVars>>

InvalidTx ==
  /\ Pushing
  /\ ReportInvalid
  /\ main' = "apply"
  /\ UNCHANGED <<clock, block, sub, count, cancelVars, tickerVars, signal,
                 queue, publishVars>>

\* The block has no weight left for the transaction.
BlockFull ==
  /\ Pushing
  /\ ReportInvalid
  /\ Skip
  /\ UNCHANGED <<clock, block, count, cancelVars, tickerVars, signal, queue,
                 publishVars>>

NoMoreTransactions ==
  /\ main = "apply" /\ ready = <<>>
  /\ main' = "end"
  /\ UNCHANGED <<clock, ready, block, sub, count, cancelVars, tickerVars,
                 signal, queue, publishVars>>

\* Mutant: every payload carries the base.
PayloadWithBase == [index |-> count, base |-> TRUE, txs |-> sub.pushed]

\* The rest of build_sub_block, send_message and the count.
Payload == [index |-> count, base |-> count = 0, txs |-> sub.pushed]

\* Mutant: the sub-block that the cancellation interrupts is not sent.
EndSubBlockUnsent ==
  /\ main = "end"
  /\ queue' = IF sub.pushed = <<>> \/ cancelled THEN queue ELSE Append(queue, Payload)
  /\ count' = count + 1
  /\ sub' = NoSub
  /\ main' = "select"
  /\ UNCHANGED <<clock, ready, block, cancelVars, tickerVars, signal,
                 publishVars>>

\* A payload can always be serialized, and send_message fails only when the
\* publisher has ended, which it does not while main holds the channel.
EndSubBlock ==
  /\ main = "end"
  /\ queue' = IF sub.pushed = <<>> THEN queue ELSE Append(queue, Payload)
  /\ count' = count + 1
  /\ sub' = NoSub
  /\ main' = "select"
  /\ UNCHANGED <<clock, ready, block, cancelVars, tickerVars, signal,
                 publishVars>>

\* block_builder.build, which may fail after payloads were published.
BuildBlock ==
  /\ main = "build"
  /\ main' \in {"proposed", "failed"}
  /\ UNCHANGED <<clock, ready, block, sub, count, cancelVars, tickerVars,
                 signal, queue, publishVars>>

MainStep ==
  \/ ApplyInherents \/ ReadyAt \/ StopBuilding \/ StartSubBlock \/ HitDeadline
  \/ OverSize \/ TakeTx \/ PushTx \/ InvalidTx \/ BlockFull
  \/ NoMoreTransactions \/ EndSubBlock \/ BuildBlock

-----------------------------------------------------------------------------
(* canceller and ticker                                                    *)

CancellerStart ==
  /\ canceller = "start"
  /\ canceller' = IF clock < Deadline THEN "sleep" ELSE "done"
  /\ UNCHANGED <<clock, mainVars, cancelled, tickerVars, signal, queue, publishVars>>

\* Mutant: the task ends without cancelling the token.
CancelForgotten ==
  /\ canceller = "sleep" /\ clock >= Deadline
  /\ canceller' = "done"
  /\ UNCHANGED <<clock, mainVars, cancelled, tickerVars, signal, queue, publishVars>>

Cancel ==
  /\ canceller = "sleep" /\ clock >= Deadline
  /\ canceller' = "done" /\ cancelled' = TRUE
  /\ UNCHANGED <<clock, mainVars, tickerVars, signal, queue, publishVars>>

CancellerStep == CancellerStart \/ Cancel

\* The first tick of an interval is immediate.
TickerStart ==
  /\ ticker = "start"
  /\ ticker' = "select" /\ nextTick' = clock
  /\ UNCHANGED <<clock, mainVars, cancelVars, signal, queue, publishVars>>

TickerCancelled ==
  /\ ticker = "select" /\ cancelled
  /\ ticker' = "done"
  /\ UNCHANGED <<clock, mainVars, cancelVars, nextTick, signal, queue, publishVars>>

IntervalTick ==
  /\ ticker = "select" /\ clock >= nextTick
  /\ ticker' = "send" /\ nextTick' = nextTick + PreconfTime
  /\ UNCHANGED <<clock, mainVars, cancelVars, signal, queue, publishVars>>

\* Mutant: the send never fails, and waits for ever once main is gone.
SendSignalForever ==
  /\ ticker = "send"
  /\ ~Ended /\ signal = 0
  /\ signal' = 1 /\ ticker' = "select"
  /\ UNCHANGED <<clock, mainVars, cancelVars, nextTick, queue, publishVars>>

\* The send waits for room in the channel, and fails when main is gone.
SendSignal ==
  /\ ticker = "send"
  /\ \/ /\ ~Ended /\ signal = 0
        /\ signal' = 1 /\ ticker' = "select"
     \/ /\ Ended
        /\ ticker' = "done" /\ UNCHANGED signal
  /\ UNCHANGED <<clock, mainVars, cancelVars, nextTick, queue, publishVars>>

TickerStep == TickerStart \/ TickerCancelled \/ IntervalTick \/ SendSignal

-----------------------------------------------------------------------------
(* subscribers and the publisher                                           *)

Subscribe(s) ==
  /\ subs[s] = "away"
  /\ subs' = [subs EXCEPT ![s] = "subscribed"]
  /\ UNCHANGED <<clock, mainVars, cancelVars, tickerVars, signal, queue,
                 published, received>>

\* Mutant: a subscriber that misses a message stays subscribed.
PublishKeepsAll ==
  LET active == {s \in Subscribers : subs[s] = "subscribed"}
  IN  /\ queue # <<>>
      /\ queue' = Tail(queue)
      /\ published' = Append(published, Head(queue))
      /\ \E missed \in SUBSET active :
           received' = [s \in Subscribers |->
                          IF s \in active \ missed
                          THEN Append(received[s], Head(queue))
                          ELSE received[s]]
      /\ UNCHANGED <<clock, mainVars, cancelVars, tickerVars, signal, subs>>

\* A subscriber whose socket is not ready at once, or is closed, is dropped.
\* A dropped one may have been sent the message.  The lock of the list is not
\* poisoned: that takes a panic of a thread that holds it.
Publish ==
  LET active == {s \in Subscribers : subs[s] = "subscribed"}
  IN  /\ queue # <<>>
      /\ queue' = Tail(queue)
      /\ published' = Append(published, Head(queue))
      /\ \E dropped \in SUBSET active : \E missed \in SUBSET dropped :
           /\ subs' = [s \in Subscribers |->
                         IF s \in dropped THEN "dropped" ELSE subs[s]]
           /\ received' = [s \in Subscribers |->
                             IF s \in active \ missed
                             THEN Append(received[s], Head(queue))
                             ELSE received[s]]
      /\ UNCHANGED <<clock, mainVars, cancelVars, tickerVars, signal>>

Next ==
  \/ TimePasses \/ MainStep \/ CancellerStep \/ TickerStep \/ Publish
  \/ \E s \in Subscribers : Subscribe(s)

Fairness ==
  /\ WF_vars(TimePasses) /\ WF_vars(MainStep) /\ WF_vars(CancellerStep)
  /\ WF_vars(TickerStep) /\ WF_vars(Publish)

Spec == Init /\ [][Next]_vars /\ Fairness

-----------------------------------------------------------------------------
(* Properties                                                              *)

\* Payloads in the order in which build_sub_block made them.
Made == published \o queue

PayloadType == [index : Nat, base : BOOLEAN, txs : Seq(Nat)]
SubType == [until : Nat, soft : Nat, skipped : 0..MaxSkipped, pushed : Seq(Nat)]

\* The variables of propose_with and its tasks have the values the code can
\* give them, and there is a transaction whenever one is being pushed.
TypeOK ==
  /\ clock \in 0..MaxClock
  /\ main \in {"inherents", "waiting", "select", "apply", "push", "end",
               "build", "proposed", "failed"}
  /\ Pushing => ready # <<>>
  /\ ready \in Seq(Nat) /\ block \in Seq(Nat) /\ count \in Nat
  /\ sub \in SubType
  /\ canceller \in {"none", "start", "sleep", "done"} /\ cancelled \in BOOLEAN
  /\ ticker \in {"none", "start", "select", "send", "done"}
  /\ nextTick \in Nat /\ signal \in {0, 1}
  /\ queue \in Seq(PayloadType) /\ published \in Seq(PayloadType)
  /\ subs \in [Subscribers -> {"away", "subscribed", "dropped"}]
  /\ received \in [Subscribers -> Seq(PayloadType)]

\* The payloads made so far, and the sub-block being built, cut the block into
\* consecutive pieces: no extrinsic that apply_extrinsics put into the block goes
\* unannounced, none is announced twice or out of order, however the tasks
\* interleave.  Inherents are in no payload and not counted.
PayloadsMakeTheBlock ==
  \E cut \in [0..Len(Made) -> 0..Len(block)] :
    /\ cut[0] = 0
    /\ \A i \in 1..Len(Made) :
         /\ cut[i - 1] < cut[i]
         /\ Made[i].txs = SubSeq(block, cut[i - 1] + 1, cut[i])
    /\ sub.pushed = SubSeq(block, cut[Len(Made)] + 1, Len(block))

\* Payload indexes grow, gaps being the sub-blocks that stayed empty, and only
\* a payload of the first sub-block carries the base of the block; when that one
\* stays empty, no payload does.
PayloadsOrdered ==
  /\ \A i, j \in 1..Len(Made) : i < j => Made[i].index < Made[j].index
  /\ \A i \in 1..Len(Made) :
       Made[i].index < count /\ (Made[i].base <=> Made[i].index = 0)

\* A subscriber was sent a contiguous run of the published payloads, up to the
\* last one as long as publish_task keeps it in PRECONF_SUBSCRIBERS.
RunReceived ==
  \A s \in Subscribers : \E k \in 0..Len(published) :
    /\ k + Len(received[s]) <= Len(published)
    /\ received[s] = SubSeq(published, k + 1, k + Len(received[s]))
    /\ subs[s] = "subscribed" => k + Len(received[s]) = Len(published)

\* No transaction is taken up once the deadline of the block has passed, in
\* whatever sub-block and however late that was started: only the one that is
\* being pushed then can still get into the block.  effective_deadline bounds
\* the deadline of every sub-block by that of the block.
TakenInTime ==
  [][Pushing' /\ ~Pushing => clock <= Deadline]_vars

\* A canceller that is asleep before the deadline brings propose_with to its
\* end, whatever sub-block it finds under way and whichever branch the select
\* takes.
CancelEndsProposal == canceller = "sleep" ~> Ended

\* The ticker task does not outlive the proposal for ever.
TickerEnds == Ended ~> (ticker \in {"none", "done"})
=============================================================================
