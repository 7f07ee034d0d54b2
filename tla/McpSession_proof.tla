-------------------------- MODULE McpSession_proof --------------------------
(***************************************************************************)
(* Proofs about McpSession, for any tools, any number of requests, cancels *)
(* and signals, and a queue of any length.                                 *)
(*                                                                         *)
(* The inductive invariant says where every request is (InOrder), that a   *)
(* raised flag belongs to the request in flight (Meant) and stays up until *)
(* a run has seen it (Heard), that the snapshot follows the free run       *)
(* (Published), and that a slice which is due is owed after one request    *)
(* (Owed).                                                                 *)
(***************************************************************************)
EXTENDS McpSession, TLAPS

\* Where the worker can be: between requests, on one, and in the free run.
Places == {"wait", "dispatch", "over", "free check", "free slice"} \cup Busy
Reasons == {"", "ok", "refused", "over", "interrupted", "guest"}
Ends == {"", "requested", "interrupted", "guest", "no-cpu"}

Workers == [at : Places, id : Nat, steps : 0..MaxSlices, why : Reasons]
FreeRuns == [running : BOOLEAN, stopped : Ends, steps : 0..MaxSlices, due : BOOLEAN, served : BOOLEAN]
Snapshots == [steps : 0..MaxSlices, running : BOOLEAN, reason : Ends]
Histories == [cancelled : BOOLEAN, signal : BOOLEAN, late : Nat, ahead : Nat]
Readers == [at : {"read", "status", "queue", "over"}, inflight : BOOLEAN]
Allowances == [cancels : Nat, status : Nat, signals : Nat]

Kept ==
  /\ worker \in Workers /\ free \in FreeRuns /\ status \in Snapshots
  /\ seen \in Histories /\ reader \in Readers /\ left \in Allowances
  /\ sent \in Seq(Kinds) /\ pending \in Seq(Nat) /\ replies \in Seq(Nat) /\ current \in Nat
  /\ stop \in BOOLEAN /\ eof \in BOOLEAN /\ dead \in BOOLEAN

\* The request the worker has and has not answered, the queue, and the one the reader
\* holds: the requests sent, in order.
OnIt == worker.at = "dispatch" \/ worker.at \in Busy \ {"replied"}
InFlight == worker.at \in Busy
Held == IF OnIt THEN 1 ELSE 0
AtHand == IF reader.at = "queue" THEN 1 ELSE 0
InOrder ==
  /\ Len(sent) = Len(replies) + Held + Len(pending) + AtHand
  /\ OnIt => worker.id = Len(replies) + 1
  /\ worker.at = "replied" => worker.id = Len(replies)
  /\ \A i \in 1..Len(replies) : replies[i] = i
  /\ \A i \in 1..Len(pending) : pending[i] = Len(replies) + i + Held
  /\ current = IF InFlight THEN worker.id ELSE 0
  /\ Len(pending) <= MaxPending

\* A free run that is on has not said why it ended.
Fresh == free.running => free.stopped = ""

\* While a request is in flight the flag is up for it alone, and only a run it ended says so.
Meant ==
  /\ worker.at \in Busy /\ stop => seen.cancelled \/ seen.signal
  /\ worker.why # "" => worker.at \in {"close", "reply", "replied"}
  /\ worker.why = "interrupted" => seen.cancelled \/ seen.signal

\* A cancelled run has the flag to find, until it has found it.
Heard ==
  /\ worker.at \in {"serve", "interrupted", "check", "slice", "slicing"} /\ seen.cancelled => stop
  /\ worker.at \in {"serve", "interrupted", "check", "slice"} => seen.late = 0
  /\ seen.late \in {0, 1}
  /\ seen.late > 0 /\ worker.at \in Busy => seen.cancelled

Published ==
  /\ status.running = free.running /\ status.reason = free.stopped
  /\ worker.at = "reply" /\ worker.why \in {"over", "guest", "interrupted"} =>
       status.steps = worker.steps

\* A request taken while a slice was due leaves word for the next turn.
Owed ==
  /\ seen.ahead \in {0, 1}
  /\ worker.at = "wait" /\ free.running /\ seen.ahead = 1 => free.served
  /\ worker.at \in {"free check", "free slice"} => seen.ahead = 0

IInv == Kept /\ InOrder /\ Fresh /\ Meant /\ Heard /\ Published /\ Owed
-----------------------------------------------------------------------------
(***************************************************************************)
(* Types.  Each lemma asks for the type of what it speaks of and no more.  *)
(***************************************************************************)
LEMMA Counts ==
  /\ 0 \in 0..MaxSlices
  /\ \A n \in 0..MaxSlices : More(n) \in 0..MaxSlices
BY McpSessionAssumption DEF More

\* A worker at rest is a worker.
LEMMA IdleIsTyped == Idle \in Workers
BY Counts DEF Idle, Workers, Places, Busy, Reasons

\* What it is at rest, and where it goes from there.
LEMMA IdleAt ==
  ASSUME NEW p \in Places
  PROVE  /\ Idle.at = "wait" /\ Idle.why = ""
         /\ [Idle EXCEPT !.at = p].at = p /\ [Idle EXCEPT !.at = p].why = ""
         /\ \A id : [Idle EXCEPT !.at = p, !.id = id].at = p
BY DEF Idle

\* How a slice ends, and what it leaves of the flag.
LEMMA Outcome ==
  ASSUME stop \in BOOLEAN, NEW o \in Outcomes
  PROVE  o.why \in {"", "guest", "interrupted"} /\ o.flag \in BOOLEAN
<1>1. CASE o \in [why : {"guest"}, flag : {stop}]
  <2>1. o.why \in {"guest"} /\ o.flag \in {stop}
    BY <1>1
  <2> QED
    BY <2>1
<1>2. CASE o = [why |-> "interrupted", flag |-> FALSE]
  BY <1>2
<1>3. CASE o = [why |-> "", flag |-> FALSE]
  BY <1>3
<1> QED
  BY <1>1, <1>2, <1>3 DEF Outcomes

\* The worker keeps its type.
LEMMA WorkersTyped ==
  ASSUME worker \in Workers, stop \in BOOLEAN, pending \in Seq(Nat), Next
  PROVE  worker' \in Workers
<1>1. CASE Take
  <2>1. Head(pending) \in Nat /\ worker' = [Idle EXCEPT !.at = "dispatch", !.id = Head(pending)]
    BY <1>1 DEF Take
  <2> QED
    BY <2>1, IdleIsTyped DEF Workers, Places
<1>2. CASE Dispatch \/ Interrupted
  BY <1>2 DEF Dispatch, FlagAtDispatch, Interrupted, EndFreeRun, PublishFree, Snapshot, Workers,
              Places, Reasons, Busy
<1>3. CASE ServeTool \/ ServeStart \/ ServeStop \/ ServeStep \/ ServeRun
  BY <1>3 DEF ServeTool, Serve, Answer, ServeStart, PublishFree, Snapshot, ServeStop,
              EndFreeRun, ServeStep, ServeRun, PublishRun, Workers, Places, Reasons, Busy
<1>4. CASE RunCheck \/ RunOver
  BY <1>4 DEF RunCheck, RunOver, Workers, Places, Reasons, Busy
<1>5. CASE SliceBegins
  BY <1>5 DEF SliceBegins, FlagAtSlice, Workers, Places, Reasons, Busy
<1>6. CASE SliceEnds
  <2> PICK o \in Outcomes :
         worker' = [worker EXCEPT !.at = IF o.why = "" THEN "check" ELSE "close",
                                  !.steps = More(@), !.why = o.why]
    BY <1>6 DEF SliceEnds
  <2> QED
    BY Outcome, Counts DEF Workers, Places, Reasons, Busy
<1>7. CASE RunClose \/ Reply
  BY <1>7 DEF RunClose, PublishRun, Reply, Workers, Places, Reasons, Busy
<1>8. CASE Finish \/ FreeBegins \/ FreeNoCpu \/ FreeCheck \/ FreeSlice \/ End
  <2>1. worker' = Idle \/ \E p \in Places : worker' = [Idle EXCEPT !.at = p]
    BY <1>8 DEF Finish, FreeBegins, FreeNoCpu, FreeCheck, FreeSlice, End, Places
  <2> QED
    BY <2>1, IdleIsTyped DEF Workers
<1>9. CASE UNCHANGED worker
  BY <1>9
<1> QED
  BY <1>1, <1>2, <1>3, <1>4, <1>5, <1>6, <1>7, <1>8, <1>9
     DEF Next, Reader, Worker, Over, vars, Signal, ReadRequest, ReadCancel, ReadStatus,
         AnswerStatus, ReadEof, Enqueue, Tick

\* So does the free run.
LEMMA FreeRunsTyped ==
  ASSUME free \in FreeRuns, stop \in BOOLEAN, Next
  PROVE  free' \in FreeRuns
<1>1. CASE Interrupted \/ ServeStop \/ FreeNoCpu \/ FreeCheck
  BY <1>1 DEF Interrupted, EndFreeRun, PublishFree, Snapshot, ServeStop, Serve, Answer,
              FreeNoCpu, FreeCheck, FreeRuns, Ends
<1>2. CASE ServeStart
  BY <1>2, Counts DEF ServeStart, Serve, Answer, PublishFree, Snapshot, FreeRuns, Ends
<1>3. CASE Finish \/ FreeBegins \/ Tick
  BY <1>3 DEF Finish, Served, FreeBegins, SliceFirst, Tick, FreeRuns, Ends
<1>4. CASE FreeSlice
  <2> PICK o \in Outcomes, due \in BOOLEAN :
         free' = [free EXCEPT !.steps = More(@), !.due = due, !.running = o.why = "",
                              !.stopped = o.why]
    BY <1>4 DEF FreeSlice
  <2> QED
    BY Outcome, Counts DEF FreeRuns, Ends
<1>5. CASE UNCHANGED free
  BY <1>5
<1> QED
  BY <1>1, <1>2, <1>3, <1>4, <1>5 DEF Next, Reader, Worker, Over, vars, Signal, ReadRequest,
                                                                        ReadCancel, ReadStatus,
                                                                        AnswerStatus, ReadEof,
                                                                        Enqueue, Take, Dispatch,
                                                                        ServeTool, ServeStep,
                                                                        ServeRun, RunCheck,
                                                                        RunOver, SliceBegins,
                                                                        SliceEnds, RunClose,
                                                                        Reply, End

\* A snapshot published in a run or in the free run is a snapshot.
LEMMA PublishTyped ==
  ASSUME status \in Snapshots
  PROVE  /\ \A n \in 0..MaxSlices : PublishRun(n) => status' \in Snapshots
         /\ free' \in FreeRuns /\ PublishFree => status' \in Snapshots
BY DEF Snapshots, PublishRun, FreeRuns, PublishFree, Snapshot

\* So the snapshot keeps its type.
LEMMA SnapshotsTyped ==
  ASSUME status \in Snapshots, worker \in Workers, free' \in FreeRuns, Next
  PROVE  status' \in Snapshots
<1>1. CASE Interrupted \/ ServeStart \/ ServeStop \/ FreeNoCpu \/ FreeCheck \/ FreeSlice
  BY <1>1, PublishTyped
     DEF Interrupted, ServeStart, ServeStop, FreeNoCpu, FreeCheck, FreeSlice, EndFreeRun
<1>2. CASE ServeRun \/ SliceEnds \/ RunClose
  <2>1. worker.steps \in 0..MaxSlices
    BY DEF Workers
  <2> QED
    BY <1>2, <2>1, Counts, PublishTyped DEF ServeRun, SliceEnds, RunClose
<1>3. CASE UNCHANGED status
  BY <1>3
<1> QED
  BY <1>1, <1>2, <1>3 DEF Next, Reader, Worker, Over, vars, Signal, ReadRequest, ReadCancel,
                                                            ReadStatus, AnswerStatus, ReadEof,
                                                            Enqueue, Take, Dispatch, ServeTool,
                                                            ServeStep, RunCheck, RunOver,
                                                            SliceBegins, Reply, Finish,
                                                            FreeBegins, End, Tick

\* What is remembered keeps its type.
LEMMA HistoriesTyped ==
  ASSUME seen \in Histories, Next
  PROVE  seen' \in Histories
<1>1. CASE Signal \/ (\E id \in DOMAIN sent : ReadCancel(id))
  BY <1>1 DEF Signal, ReadCancel, Histories
<1>2. CASE Take
  BY <1>2 DEF Take, SliceFirst, Histories
<1>3. CASE Dispatch
  BY <1>3 DEF Dispatch, Histories
<1>4. CASE ServeStart
  BY <1>4 DEF ServeStart, Histories
<1>5. CASE FreeBegins
  BY <1>5 DEF FreeBegins, Histories
<1>6. CASE SliceBegins
  BY <1>6 DEF SliceBegins, FlagAtSlice, Histories
<1>7. CASE UNCHANGED seen
  BY <1>7
<1> QED
  BY <1>1, <1>2, <1>3, <1>4, <1>5, <1>6, <1>7 DEF Next, Reader, Worker, Over, vars, ReadRequest,
                                                                                    ReadStatus,
                                                                                    AnswerStatus,
                                                                                    ReadEof,
                                                                                    Enqueue,
                                                                                    Interrupted,
                                                                                    ServeTool,
                                                                                    ServeStop,
                                                                                    ServeStep,
                                                                                    ServeRun,
                                                                                    RunCheck,
                                                                                    RunOver,
                                                                                    SliceEnds,
                                                                                    RunClose,
                                                                                    Reply,
                                                                                    Finish,
                                                                                    FreeNoCpu,
                                                                                    FreeCheck,
                                                                                    FreeSlice,
                                                                                    End, Tick

\* The allowances keep theirs.
LEMMA AllowancesTyped ==
  ASSUME left \in Allowances, Next
  PROVE  left' \in Allowances
<1>1. CASE Signal \/ (\E id \in DOMAIN sent : ReadCancel(id)) \/ ReadStatus
  BY <1>1 DEF Signal, ReadCancel, ReadStatus, Allowances
<1>2. CASE UNCHANGED left
  BY <1>2
<1> QED
  BY <1>1, <1>2 DEF Next, Reader, Worker, Over, vars, ReadRequest, AnswerStatus, ReadEof,
                                                      Enqueue, Take, Dispatch, Interrupted,
                                                      ServeTool, ServeStart, ServeStop,
                                                      ServeStep, ServeRun, RunCheck, RunOver,
                                                      SliceBegins, SliceEnds, RunClose, Reply,
                                                      Finish, FreeBegins, FreeNoCpu, FreeCheck,
                                                      FreeSlice, End, Tick

\* The reader keeps its own.
LEMMA ReadersTyped ==
  ASSUME reader \in Readers, Next
  PROVE  reader' \in Readers
<1>1. CASE \E kind \in Kinds : ReadRequest(kind)
  BY <1>1 DEF ReadRequest, Reading, Readers
<1>2. CASE ReadStatus
  BY <1>2 DEF ReadStatus, Readers
<1>3. CASE Enqueue \/ AnswerStatus
  <2>1. Reading \in Readers
    BY DEF Reading, Readers
  <2> QED
    BY <1>3, <2>1 DEF Enqueue, AnswerStatus
<1>4. CASE ReadEof
  BY <1>4 DEF ReadEof, Reading, Readers
<1>5. CASE UNCHANGED reader
  BY <1>5
<1> QED
  BY <1>1, <1>2, <1>3, <1>4, <1>5 DEF Next, Reader, Worker, Over, vars, Signal, ReadCancel,
                                                                        Take, Dispatch,
                                                                        Interrupted, ServeTool,
                                                                        ServeStart, ServeStop,
                                                                        ServeStep, ServeRun,
                                                                        RunCheck, RunOver,
                                                                        SliceBegins, SliceEnds,
                                                                        RunClose, Reply, Finish,
                                                                        FreeBegins, FreeNoCpu,
                                                                        FreeCheck, FreeSlice,
                                                                        End, Tick

\* The flags stay flags.
LEMMA FlagsTyped ==
  ASSUME stop \in BOOLEAN, eof \in BOOLEAN, dead \in BOOLEAN, Next
  PROVE  stop' \in BOOLEAN /\ eof' \in BOOLEAN /\ dead' \in BOOLEAN
<1>1. CASE Signal \/ (\E id \in DOMAIN sent : ReadCancel(id)) \/ ReadEof
  BY <1>1 DEF Signal, ReadCancel, ReadEof
<1>2. CASE Dispatch \/ ServeStep \/ RunCheck \/ SliceBegins \/ FreeCheck
  BY <1>2 DEF Dispatch, FlagAtDispatch, ServeStep, Serve, Answer, RunCheck, SliceBegins,
              FlagAtSlice, FreeCheck, EndFreeRun, PublishFree, Snapshot
<1>3. CASE SliceEnds \/ FreeSlice
  BY <1>3, Outcome DEF SliceEnds, FreeSlice
<1>4. CASE UNCHANGED <<stop, eof, dead>>
  BY <1>4
<1> QED
  BY <1>1, <1>2, <1>3, <1>4 DEF Next, Reader, Worker, Over, vars, ReadRequest, ReadStatus,
                                                                  AnswerStatus, Enqueue, Take,
                                                                  Interrupted, ServeTool,
                                                                  ServeStart, ServeStop,
                                                                  ServeRun, RunOver, RunClose,
                                                                  Reply, Finish, FreeBegins,
                                                                  FreeNoCpu, End, Tick

\* The requests, the queue and the answers stay sequences.
LEMMA QueuesTyped ==
  ASSUME sent \in Seq(Kinds), pending \in Seq(Nat), replies \in Seq(Nat), current \in Nat,
         worker.id \in Nat, Next
  PROVE  sent' \in Seq(Kinds) /\ pending' \in Seq(Nat) /\ replies' \in Seq(Nat) /\ current' \in Nat
<1>1. CASE \E kind \in Kinds : ReadRequest(kind)
  BY <1>1 DEF ReadRequest
<1>2. CASE Enqueue
  <2>1. Len(sent) \in Nat
    OBVIOUS
  <2> QED
    BY <1>2, <2>1 DEF Enqueue
<1>3. CASE Take
  BY <1>3 DEF Take
<1>4. CASE Dispatch \/ Finish
  BY <1>4 DEF Dispatch, Finish
<1>5. CASE Reply
  BY <1>5 DEF Reply
<1>6. CASE UNCHANGED <<sent, pending, replies, current>>
  BY <1>6
<1> QED
  BY <1>1, <1>2, <1>3, <1>4, <1>5, <1>6 DEF Next, Reader, Worker, Over, vars, Signal,
                                                                              ReadCancel,
                                                                              ReadStatus,
                                                                              AnswerStatus,
                                                                              ReadEof,
                                                                              Interrupted,
                                                                              ServeTool,
                                                                              ServeStart,
                                                                              ServeStop,
                                                                              ServeStep,
                                                                              ServeRun,
                                                                              RunCheck, RunOver,
                                                                              SliceBegins,
                                                                              SliceEnds,
                                                                              RunClose,
                                                                              FreeBegins,
                                                                              FreeNoCpu,
                                                                              FreeCheck,
                                                                              FreeSlice, End,
                                                                              Tick

\* Every step keeps the types.
LEMMA TypesKept ==
  ASSUME Kept, Next
  PROVE  Kept'
<1>1. worker.id \in Nat
  BY DEF Kept, Workers
<1> QED
  BY <1>1, WorkersTyped, FreeRunsTyped, SnapshotsTyped, HistoriesTyped, AllowancesTyped, ReadersTyped,
     FlagsTyped, QueuesTyped DEF Kept

-----------------------------------------------------------------------------
(***************************************************************************)
(* The stop flag, from one request to the next.                            *)
(***************************************************************************)
LEMMA MeantKept ==
  ASSUME worker \in Workers, seen \in Histories, stop \in BOOLEAN, Meant, Next
  PROVE  Meant'
<1>1. CASE Signal
  BY <1>1 DEF Signal, Meant, Histories
<1>2. CASE \E id \in DOMAIN sent : ReadCancel(id)
  BY <1>2 DEF ReadCancel, Matches, Meant, Histories
<1>3. CASE Take
  BY <1>3 DEF Take, SliceFirst, Meant, Busy, Idle
<1>4. CASE Dispatch
  BY <1>4 DEF Dispatch, FlagAtDispatch, Meant, Busy, Workers, Histories
<1>5. CASE Interrupted
  BY <1>5 DEF Interrupted, EndFreeRun, PublishFree, Snapshot, Meant, Busy, Workers
<1>6. CASE ServeTool
  BY <1>6 DEF ServeTool, Serve, Answer, Meant, Busy, Workers
<1>7. CASE ServeStart
  BY <1>7 DEF ServeStart, Serve, Answer, PublishFree, Snapshot, Meant, Busy, Workers, Histories
<1>8. CASE ServeStop
  BY <1>8 DEF ServeStop, Serve, Answer, EndFreeRun, PublishFree, Snapshot, Meant, Busy, Workers
<1>9. CASE ServeStep
  BY <1>9 DEF ServeStep, Serve, Answer, Meant, Busy, Workers
<1>10. CASE ServeRun
  BY <1>10 DEF ServeRun, Serve, PublishRun, Meant, Busy, Workers
<1>11. CASE RunCheck
  <2>1. CASE stop
    <3>1. /\ worker' = [worker EXCEPT !.at = "close", !.why = "interrupted"]
          /\ worker.at = "check" /\ stop' = FALSE /\ seen' = seen
      BY <1>11, <2>1 DEF RunCheck
    <3> QED
      BY <2>1, <3>1 DEF Meant, Busy, Workers
  <2>2. CASE ~stop
    <3>1. /\ worker' = [worker EXCEPT !.at = "slice"]
          /\ worker.at = "check" /\ stop' = stop /\ seen' = seen
      BY <1>11, <2>2 DEF RunCheck
    <3> QED
      BY <2>2, <3>1 DEF Meant, Busy, Workers
  <2> QED
    BY <2>1, <2>2
<1>12. CASE RunOver
  BY <1>12 DEF RunOver, Meant, Busy, Workers
<1>13. CASE SliceBegins
  BY <1>13 DEF SliceBegins, FlagAtSlice, Meant, Busy, Workers, Histories
<1>14. CASE SliceEnds
  <2> PICK o \in Outcomes :
         /\ stop' = o.flag
         /\ worker' = [worker EXCEPT !.at = IF o.why = "" THEN "check" ELSE "close",
                                     !.steps = More(@), !.why = o.why]
         /\ seen' = seen
    BY <1>14 DEF SliceEnds
  <2>1. (o.why = "interrupted" => stop) /\ (o.flag => stop)
    BY Outcome DEF Outcomes
  <2> QED
    BY <1>14, <2>1, Outcome DEF SliceEnds, Meant, Busy, Workers
<1>15. CASE RunClose
  BY <1>15 DEF RunClose, PublishRun, Meant, Busy, Workers
<1>16. CASE Reply
  BY <1>16 DEF Reply, Meant, Busy, Workers
<1>17. CASE Finish \/ FreeBegins \/ FreeNoCpu \/ FreeCheck \/ FreeSlice \/ End
  <2>1. worker' = Idle \/ \E p \in {"free check", "free slice", "over"} : worker' = [Idle EXCEPT !.at = p]
    BY <1>17 DEF Finish, FreeBegins, FreeNoCpu, FreeCheck, FreeSlice, End
  <2>2. worker'.at \notin Busy /\ worker'.why = ""
    BY <2>1, IdleAt DEF Busy, Places
  <2> QED
    BY <2>2 DEF Meant
<1>18. CASE UNCHANGED <<worker, stop, seen>>
  BY <1>18 DEF Meant
<1> QED
  BY <1>1, <1>2, <1>3, <1>4, <1>5, <1>6, <1>7, <1>8, <1>9, <1>10, <1>11, <1>12, <1>13, <1>14, <1>15, <1>16, <1>17, <1>18
     DEF Next, Reader, Worker, Over, vars, ReadRequest, ReadStatus, AnswerStatus, ReadEof,
         Enqueue, Tick

\* A cancelled run has the flag to find until it has found it.
LEMMA HeardKept ==
  ASSUME worker \in Workers, seen \in Histories, stop \in BOOLEAN, Heard, Next
  PROVE  Heard'
<1>1. CASE Signal
  BY <1>1 DEF Signal, Heard, Histories
<1>2. CASE \E id \in DOMAIN sent : ReadCancel(id)
  BY <1>2 DEF ReadCancel, Matches, Heard, Histories
<1>3. CASE Take
  BY <1>3 DEF Take, SliceFirst, Heard, Busy, Idle, Histories
<1>4. CASE Dispatch
  BY <1>4 DEF Dispatch, FlagAtDispatch, Heard, Workers, Histories
<1>5. CASE Interrupted
  BY <1>5 DEF Interrupted, EndFreeRun, PublishFree, Snapshot, Heard, Workers, Busy
<1>6. CASE ServeTool
  BY <1>6 DEF ServeTool, Serve, Answer, Heard, Workers, Busy
<1>7. CASE ServeStart
  BY <1>7 DEF ServeStart, Serve, Answer, PublishFree, Snapshot, Heard, Workers, Busy, Histories
<1>8. CASE ServeStop
  BY <1>8 DEF ServeStop, Serve, Answer, EndFreeRun, PublishFree, Snapshot, Heard, Workers, Busy
<1>9. CASE ServeStep
  BY <1>9 DEF ServeStep, Serve, Answer, Heard, Workers, Busy
<1>10. CASE ServeRun
  BY <1>10 DEF ServeRun, Serve, PublishRun, Heard, Workers, Busy
<1>11. CASE RunCheck
  <2>1. CASE stop
    <3>1. /\ worker' = [worker EXCEPT !.at = "close", !.why = "interrupted"]
          /\ worker.at = "check" /\ stop' = FALSE /\ seen' = seen
      BY <1>11, <2>1 DEF RunCheck
    <3> QED
      BY <2>1, <3>1 DEF Heard, Busy, Workers
  <2>2. CASE ~stop
    <3>1. /\ worker' = [worker EXCEPT !.at = "slice"]
          /\ worker.at = "check" /\ stop' = stop /\ seen' = seen
      BY <1>11, <2>2 DEF RunCheck
    <3> QED
      BY <2>2, <3>1 DEF Heard, Busy, Workers
  <2> QED
    BY <2>1, <2>2
<1>12. CASE RunOver
  BY <1>12 DEF RunOver, Heard, Workers, Busy
<1>13. CASE SliceBegins
  BY <1>13 DEF SliceBegins, FlagAtSlice, Heard, Workers, Busy, Histories
<1>14. CASE SliceEnds
  <2> PICK o \in Outcomes :
         /\ stop' = o.flag
         /\ worker' = [worker EXCEPT !.at = IF o.why = "" THEN "check" ELSE "close",
                                     !.steps = More(@), !.why = o.why]
         /\ seen' = seen
    BY <1>14 DEF SliceEnds
  <2>1. o.why = "" => ~stop
    BY Outcome DEF Outcomes
  <2>2. /\ worker.at = "slicing" /\ worker'.at \in {"check", "close"}
        /\ worker'.at = "check" => o.why = ""
    BY <1>14 DEF SliceEnds, Workers
  <2>3. seen' = seen /\ (worker'.at = "check" => ~seen.cancelled)
    BY <2>1, <2>2 DEF Heard
  <2>4. worker'.at = "check" => seen.late = 0
    <3>1. worker.at \in Busy
      BY <2>2 DEF Busy
    <3>2. seen.late \in {0, 1} /\ (seen.late = 1 => seen.cancelled)
      BY <3>1 DEF Heard
    <3> QED
      BY <2>3, <3>2 DEF Histories
  <2> QED
    BY <2>2, <2>3, <2>4 DEF Heard, Busy
<1>15. CASE RunClose
  BY <1>15 DEF RunClose, PublishRun, Heard, Workers, Busy
<1>16. CASE Reply
  BY <1>16 DEF Reply, Heard, Workers, Busy
<1>17. CASE Finish \/ FreeNoCpu \/ FreeCheck \/ FreeSlice \/ End
  <2>1. /\ worker' = Idle \/ \E p \in {"free slice", "over"} : worker' = [Idle EXCEPT !.at = p]
        /\ seen' = seen
    BY <1>17 DEF Finish, FreeNoCpu, FreeCheck, FreeSlice, End
  <2>2. worker'.at \in {"wait", "free slice", "over"}
    BY <2>1, IdleAt DEF Places
  <2> QED
    BY <2>1, <2>2 DEF Heard, Busy
<1>18. CASE FreeBegins
  BY <1>18 DEF FreeBegins, SliceFirst, Heard, Idle, Busy, Histories
<1>19. CASE UNCHANGED <<worker, stop, seen>>
  BY <1>19 DEF Heard
<1> QED
  BY <1>1, <1>2, <1>3, <1>4, <1>5, <1>6, <1>7, <1>8, <1>9, <1>10, <1>11, <1>12, <1>13, <1>14, <1>15, <1>16, <1>17, <1>18, <1>19
     DEF Next, Reader, Worker, Over, vars, ReadRequest, ReadStatus, AnswerStatus, ReadEof,
         Enqueue, Tick

-----------------------------------------------------------------------------
(***************************************************************************)
(* The snapshot, and whose turn it is.                                     *)
(***************************************************************************)
LEMMA PublishedKept ==
  ASSUME worker \in Workers, free \in FreeRuns, status \in Snapshots, Published, Next
  PROVE  Published'
<1>1. CASE Take \/ FreeBegins \/ End
  <2>1. /\ \/ worker' = [Idle EXCEPT !.at = "dispatch", !.id = Head(pending)]
           \/ worker' = [Idle EXCEPT !.at = "free check"]
           \/ worker' = [Idle EXCEPT !.at = "over"]
        /\ status' = status /\ free'.running = free.running /\ free'.stopped = free.stopped
    BY <1>1 DEF Take, FreeBegins, End, FreeRuns
  <2>2. worker'.at \in {"dispatch", "free check", "over"}
    BY <2>1 DEF Idle
  <2> QED
    BY <2>1, <2>2 DEF Published
<1>2. CASE Dispatch
  BY <1>2 DEF Dispatch, FlagAtDispatch, Published, Workers
<1>3. CASE Interrupted
  BY <1>3 DEF Interrupted, EndFreeRun, PublishFree, Snapshot, Published, Workers, FreeRuns,
              Snapshots
<1>4. CASE ServeTool
  BY <1>4 DEF ServeTool, Serve, Answer, Published, Workers
<1>5. CASE ServeStart
  BY <1>5 DEF ServeStart, Serve, Answer, PublishFree, Snapshot, Published, Workers, FreeRuns,
              Snapshots
<1>6. CASE ServeStop
  BY <1>6 DEF ServeStop, Serve, Answer, EndFreeRun, PublishFree, Snapshot, Published, Workers,
              FreeRuns, Snapshots
<1>7. CASE ServeStep
  BY <1>7 DEF ServeStep, Serve, Answer, Published, Workers
<1>8. CASE ServeRun
  BY <1>8 DEF ServeRun, Serve, PublishRun, Published, Workers, FreeRuns, Snapshots
<1>9. CASE RunCheck \/ RunOver \/ SliceBegins
  <2>1. worker'.at \in {"close", "slice", "slicing"} /\ status' = status /\ free' = free
    BY <1>9 DEF RunCheck, RunOver, SliceBegins, Workers
  <2> QED
    BY <2>1 DEF Published
<1>10. CASE SliceEnds
  <2>1. /\ worker'.at \in {"check", "close"} /\ free' = free
        /\ status'.running = status.running /\ status'.reason = status.reason
    BY <1>10 DEF SliceEnds, PublishRun, Workers, Snapshots
  <2> QED
    BY <2>1 DEF Published
<1>11. CASE RunClose
  BY <1>11 DEF RunClose, PublishRun, Published, Workers, FreeRuns, Snapshots
<1>12. CASE Reply
  BY <1>12 DEF Reply, Published, Workers
<1>13. CASE Finish
  <2>1. /\ worker' = Idle /\ status' = status
        /\ free'.running = free.running /\ free'.stopped = free.stopped
    BY <1>13 DEF Finish, FreeRuns
  <2> QED
    BY <2>1, IdleAt DEF Published, Places
<1>14. CASE FreeNoCpu \/ FreeCheck \/ FreeSlice
  <2>1. /\ worker' = Idle \/ worker' = [Idle EXCEPT !.at = "free slice"]
        /\ PublishFree \/ (status' = status /\ free' = free)
    BY <1>14 DEF FreeNoCpu, FreeCheck, FreeSlice, EndFreeRun
  <2>2. worker'.at \in {"wait", "free slice"}
    BY <2>1, IdleAt DEF Places
  <2>3. CASE PublishFree
    <3>1. status'.running = free'.running /\ status'.reason = free'.stopped
      BY <2>3 DEF PublishFree, Snapshot
    <3> QED
      BY <2>2, <3>1 DEF Published
  <2>4. CASE status' = status /\ free' = free
    <3>1. worker.at \in {"free check", "free slice"}
      BY <1>14 DEF FreeNoCpu, FreeCheck, FreeSlice
    <3>2. status'.running = free'.running /\ status'.reason = free'.stopped
      BY <2>4, <3>1 DEF Published
    <3> QED
      BY <2>2, <3>2 DEF Published
  <2> QED
    BY <2>1, <2>3, <2>4
<1>15. CASE Tick
  BY <1>15 DEF Tick, Published, FreeRuns
<1>16. CASE UNCHANGED <<worker, free, status>>
  BY <1>16 DEF Published
<1> QED
  BY <1>1, <1>2, <1>3, <1>4, <1>5, <1>6, <1>7, <1>8, <1>9, <1>10, <1>11, <1>12, <1>13, <1>14, <1>15, <1>16
     DEF Next, Reader, Worker, Over, vars, Signal, ReadRequest, ReadCancel, ReadStatus,
         AnswerStatus, ReadEof, Enqueue

\* If no request has gone before a due slice, nothing is owed.
LEMMA NothingOwed ==
  ASSUME seen'.ahead = 0
  PROVE  Owed'
<1>1. seen'.ahead # 1 /\ seen'.ahead \in {0, 1}
  OBVIOUS
<1>2. (worker'.at = "wait" /\ free'.running /\ seen'.ahead = 1) => free'.served
  BY <1>1
<1>3. worker'.at \in {"free check", "free slice"} => seen'.ahead = 0
  OBVIOUS
<1> QED
  BY <1>1, <1>2, <1>3, Zenon DEF Owed

\* A slice that is due waits for one request at the most.
LEMMA OwedKept ==
  ASSUME worker \in Workers, free \in FreeRuns, seen \in Histories, Owed, Next
  PROVE  Owed'
<1>1. CASE Signal \/ (\E id \in DOMAIN sent : ReadCancel(id)) \/ Dispatch
  <2>1. /\ worker'.at # "wait" \/ worker' = worker
        /\ worker'.at \in {"free check", "free slice"} => worker' = worker
        /\ free' = free /\ seen'.ahead = seen.ahead
    BY <1>1 DEF Signal, ReadCancel, Dispatch, Workers, Histories
  <2> QED
    BY <2>1 DEF Owed, FreeRuns, Histories
<1>2. CASE Take
  <2>1. /\ worker'.at = "dispatch"
        /\ worker.at = "wait"
        /\ free.running /\ free.due => ~free.served
    BY <1>2, IdleAt DEF Take, SliceFirst, Idle
  <2>2. seen'.ahead = IF free.running /\ free.due THEN seen.ahead + 1 ELSE seen.ahead
    BY <1>2 DEF Take, Histories
  <2> QED
    BY <2>1, <2>2 DEF Owed, FreeRuns, Histories
<1>3. CASE Interrupted \/ ServeTool \/ ServeStop \/ ServeStep \/ ServeRun \/ RunCheck
           \/ RunOver \/ SliceBegins \/ SliceEnds \/ RunClose \/ Reply
  <2>1. worker'.at \in Busy /\ seen'.ahead = seen.ahead
    BY <1>3 DEF Interrupted, ServeTool, ServeStop, ServeStep, ServeRun, Answer, RunCheck, RunOver,
                SliceBegins, SliceEnds, RunClose, Reply, Workers, Histories, Busy
  <2> QED
    BY <2>1 DEF Owed, Busy
<1>4. CASE ServeStart
  <2>1. seen'.ahead = 0
    BY <1>4 DEF ServeStart, Histories
  <2> QED
    BY <2>1, NothingOwed
<1>5. CASE Finish
  <2>1. seen' = seen /\ worker' = Idle /\ (free'.running => free'.served)
    BY <1>5 DEF Finish, Served, FreeRuns
  <2> QED
    BY <2>1 DEF Owed, Idle, Histories
<1>6. CASE FreeBegins
  <2>1. seen'.ahead = 0
    BY <1>6 DEF FreeBegins, Histories
  <2> QED
    BY <2>1, NothingOwed
<1>7. CASE FreeNoCpu \/ FreeCheck \/ FreeSlice
  <2>1. seen' = seen /\ worker.at \in {"free check", "free slice"}
    BY <1>7 DEF FreeNoCpu, FreeCheck, FreeSlice
  <2>2. seen'.ahead = 0
    BY <2>1 DEF Owed
  <2> QED
    BY <2>2, NothingOwed
<1>8. CASE End
  <2>1. seen' = seen /\ worker' = [Idle EXCEPT !.at = "over"]
    BY <1>8 DEF End
  <2> QED
    BY <2>1 DEF Owed, Idle, Histories
<1>9. CASE Tick
  BY <1>9 DEF Tick, Owed, FreeRuns
<1>10. CASE UNCHANGED <<worker, free, seen>>
  BY <1>10 DEF Owed
<1> QED
  BY <1>1, <1>2, <1>3, <1>4, <1>5, <1>6, <1>7, <1>8, <1>9, <1>10
     DEF Next, Reader, Worker, Over, vars, ReadRequest, ReadStatus, AnswerStatus, ReadEof, Enqueue
-----------------------------------------------------------------------------
(***************************************************************************)
(* Where the requests are.                                                 *)
(***************************************************************************)
LEMMA Hands == Held \in {0, 1} /\ AtHand \in {0, 1} /\ (OnIt => Held = 1) /\ (~OnIt => Held = 0)
BY DEF Held, AtHand

\* The worker and the reader hold one request or none.
LEMMA HandsNext ==
  Held' \in {0, 1} /\ AtHand' \in {0, 1} /\ (OnIt' => Held' = 1) /\ (~OnIt' => Held' = 0)
BY DEF Held, AtHand

\* The worker goes on with the request it has, or has none before and after.
LEMMA GoesOn ==
  ASSUME InOrder, UNCHANGED <<sent, pending, replies, current>>, AtHand' = AtHand,
         OnIt' <=> OnIt, InFlight' <=> InFlight,
         worker'.at = "replied" => worker.at = "replied",
         OnIt \/ InFlight \/ worker.at = "replied" => worker'.id = worker.id
  PROVE  InOrder'
<1>1. Held' = Held
  BY DEF Held
<1>2. OnIt' => worker'.id = Len(replies') + 1
  BY DEF InOrder
<1>3. worker'.at = "replied" => worker'.id = Len(replies')
  BY DEF InOrder
<1>4. current' = IF InFlight' THEN worker'.id ELSE 0
  BY DEF InOrder
<1> QED
  BY <1>1, <1>2, <1>3, <1>4 DEF InOrder

Elsewhere == Places \ (Busy \cup {"dispatch"})

\* Where the worker is says whether it is on a request.
LEMMA OnTheRequest ==
  /\ worker.at \in Busy \ {"replied"} => OnIt /\ InFlight /\ worker.at # "replied"
  /\ worker'.at \in Busy \ {"replied"} => OnIt' /\ InFlight' /\ worker'.at # "replied"
  /\ worker.at \in Elsewhere => ~OnIt /\ ~InFlight /\ worker.at # "replied"
  /\ worker'.at \in Elsewhere => ~OnIt' /\ ~InFlight' /\ worker'.at # "replied"
BY DEF OnIt, InFlight, Busy, Elsewhere

\* Between requests it is on none.
LEMMA Between ==
  ASSUME NEW p \in {"wait", "free check", "free slice", "over"}
  PROVE  p \in Elsewhere
BY DEF Elsewhere, Places, Busy

\* Requests stay in the order sent, through the reader, the queue and the worker.
LEMMA InOrderKept ==
  ASSUME worker \in Workers, sent \in Seq(Kinds), pending \in Seq(Nat), replies \in Seq(Nat),
         reader \in Readers, InOrder, Next
  PROVE  InOrder'
<1>1. CASE UNCHANGED <<sent, pending, replies, current, worker, reader>>
  BY <1>1, GoesOn DEF OnIt, InFlight, AtHand
<1>2. CASE ReadStatus \/ AnswerStatus \/ ReadEof
  <2>1. reader.at # "queue" /\ reader'.at # "queue"
    BY <1>2 DEF ReadStatus, AnswerStatus, ReadEof, Reading
  <2>2. AtHand' = AtHand
    BY <2>1 DEF AtHand
  <2>3. UNCHANGED <<sent, pending, replies, current, worker>>
    BY <1>2 DEF ReadStatus, AnswerStatus, ReadEof
  <2> QED
    BY <2>2, <2>3, GoesOn DEF OnIt, InFlight
<1>3. CASE \E kind \in Kinds : ReadRequest(kind)
  <2>1. /\ UNCHANGED <<pending, replies, current, worker>>
        /\ reader.at = "read" /\ reader' = [Reading EXCEPT !.at = "queue"]
    BY <1>3 DEF ReadRequest
  <2>2. Len(sent') = Len(sent) + 1
    BY <1>3 DEF ReadRequest
  <2>3. AtHand = 0 /\ AtHand' = 1
    BY <2>1 DEF AtHand, Reading
  <2>4. Held' = Held /\ OnIt' = OnIt /\ InFlight' = InFlight
    BY <2>1 DEF Held, OnIt, InFlight
  <2>5. Len(pending) \in Nat /\ Len(replies) \in Nat
    OBVIOUS
  <2>6. Len(sent') = Len(replies') + Held' + Len(pending') + AtHand'
    BY <2>1, <2>2, <2>3, <2>4, <2>5, Hands DEF InOrder
  <2> QED
    BY <2>1, <2>4, <2>6 DEF InOrder
<1>4. CASE Enqueue
  <2>1. /\ UNCHANGED <<sent, replies, current, worker>> /\ pending' = Append(pending, Len(sent))
        /\ reader.at = "queue" /\ reader' = Reading /\ Len(pending) < MaxPending
    BY <1>4 DEF Enqueue, Room
  <2>2. AtHand = 1 /\ AtHand' = 0
    BY <2>1 DEF AtHand, Reading
  <2>3. Held' = Held /\ OnIt' = OnIt /\ InFlight' = InFlight
    BY <2>1 DEF Held, OnIt, InFlight
  <2>4. /\ Len(pending) \in Nat /\ Len(replies) \in Nat /\ Len(sent) \in Nat
        /\ Len(pending') = Len(pending) + 1
        /\ \A i \in 1..Len(pending) : pending'[i] = pending[i]
        /\ pending'[Len(pending) + 1] = Len(sent)
    BY <2>1
  <2>5. Len(sent) = Len(replies) + Held + Len(pending) + 1
    BY <2>2 DEF InOrder
  <2>6. Len(sent') = Len(replies') + Held' + Len(pending') + AtHand'
    BY <2>1, <2>2, <2>3, <2>4, <2>5, Hands
  <2>7. ASSUME NEW i \in 1..Len(pending')
        PROVE  pending'[i] = Len(replies') + i + Held'
    <3>1. CASE i \in 1..Len(pending)
      BY <2>1, <2>3, <2>4, <3>1 DEF InOrder
    <3>2. CASE i = Len(pending) + 1
      BY <2>1, <2>3, <2>4, <2>5, <3>2, Hands
    <3> QED
      BY <2>4, <3>1, <3>2
  <2>8. Len(pending') <= MaxPending
    BY <2>1, <2>4, McpSessionAssumption
  <2> QED
    BY <2>1, <2>3, <2>6, <2>7, <2>8 DEF InOrder
<1>5. CASE Take
  <2>1. /\ UNCHANGED <<sent, replies, current, reader>> /\ pending' = Tail(pending) /\ pending # <<>>
        /\ worker.at = "wait" /\ worker' = [Idle EXCEPT !.at = "dispatch", !.id = Head(pending)]
    BY <1>5 DEF Take
  <2>2. worker'.at = "dispatch" /\ worker'.id = Head(pending)
    BY <2>1 DEF Idle
  <2>3. ~OnIt /\ ~InFlight
    BY <2>1, Between, OnTheRequest
  <2>4. OnIt' /\ ~InFlight' /\ AtHand' = AtHand
    BY <2>1, <2>2 DEF OnIt, InFlight, AtHand, Busy
  <2>5. /\ Len(pending) \in Nat /\ Len(replies) \in Nat /\ Len(pending) > 0
        /\ Len(pending') = Len(pending) - 1 /\ Head(pending) = pending[1]
        /\ \A i \in 1..Len(pending') : pending'[i] = pending[i + 1]
    BY <2>1
  <2>6. Held = 0 /\ Held' = 1
    BY <2>3, <2>4, Hands, HandsNext
  <2>7. worker'.id = Len(replies') + 1
    <3>1. pending[1] = Len(replies) + 1 + Held
      BY <2>5 DEF InOrder
    <3> QED
      BY <2>1, <2>2, <2>5, <2>6, <3>1
  <2>8. ASSUME NEW i \in 1..Len(pending')
        PROVE  pending'[i] = Len(replies') + i + Held'
    <3>1. i + 1 \in 1..Len(pending)
      BY <2>5
    <3>2. pending[i + 1] = Len(replies) + (i + 1) + Held
      BY <3>1 DEF InOrder
    <3> QED
      BY <2>1, <2>5, <2>6, <3>2
  <2>9. Len(sent') = Len(replies') + Held' + Len(pending') + AtHand'
    BY <2>1, <2>4, <2>5, <2>6, Hands DEF InOrder
  <2>10. Len(pending') <= MaxPending
    BY <2>5, McpSessionAssumption DEF InOrder
  <2>11. current' = 0 /\ worker'.at # "replied"
    BY <2>1, <2>2, <2>3 DEF InOrder
  <2> QED
    BY <2>1, <2>4, <2>7, <2>8, <2>9, <2>10, <2>11 DEF InOrder
<1>6. CASE Dispatch
  <2>1. /\ UNCHANGED <<sent, replies, pending, reader>> /\ current' = worker.id
        /\ worker.at = "dispatch" /\ worker'.id = worker.id
        /\ worker'.at \in {"interrupted", "serve"}
    BY <1>6 DEF Dispatch, Workers
  <2>2. OnIt /\ OnIt' /\ InFlight' /\ worker'.at # "replied" /\ AtHand' = AtHand
    BY <2>1 DEF OnIt, InFlight, Busy, AtHand
  <2>3. Held' = Held
    BY <2>2 DEF Held
  <2>4. OnIt' => worker'.id = Len(replies') + 1
    BY <2>1, <2>2 DEF InOrder
  <2> QED
    BY <2>1, <2>2, <2>3, <2>4 DEF InOrder
<1>7. CASE Interrupted \/ ServeTool \/ ServeStart \/ ServeStop \/ ServeStep \/ ServeRun \/ RunCheck
           \/ RunOver \/ SliceBegins \/ SliceEnds \/ RunClose
  <2>1. /\ UNCHANGED <<sent, pending, replies, current, reader>> /\ worker'.id = worker.id
        /\ worker.at \in Busy \ {"replied"} /\ worker'.at \in Busy \ {"replied"}
    BY <1>7 DEF Interrupted, ServeTool, ServeStart, ServeStop, ServeStep, ServeRun, Serve, Answer,
                RunCheck, RunOver, SliceBegins, SliceEnds, RunClose, Workers, Busy
  <2> QED
    BY <2>1, OnTheRequest, GoesOn DEF AtHand
<1>8. CASE Reply
  <2>1. /\ UNCHANGED <<sent, pending, current, reader>> /\ worker'.id = worker.id
        /\ worker.at = "reply" /\ worker'.at = "replied" /\ replies' = Append(replies, worker.id)
    BY <1>8 DEF Reply, Workers
  <2>2. OnIt /\ InFlight /\ ~OnIt' /\ InFlight' /\ AtHand' = AtHand
    BY <2>1 DEF OnIt, InFlight, Busy, AtHand
  <2>3. Held = 1 /\ Held' = 0
    BY <2>2, Hands, HandsNext
  <2>4. worker.id \in Nat
    BY DEF Workers
  <2>5. /\ Len(replies) \in Nat /\ Len(pending) \in Nat /\ Len(replies') = Len(replies) + 1
        /\ \A i \in 1..Len(replies) : replies'[i] = replies[i]
        /\ replies'[Len(replies) + 1] = worker.id
    BY <2>1, <2>4
  <2>6. worker.id = Len(replies) + 1
    BY <2>2 DEF InOrder
  <2>7. ASSUME NEW i \in 1..Len(replies')
        PROVE  replies'[i] = i
    <3>1. CASE i \in 1..Len(replies)
      BY <2>5, <3>1 DEF InOrder
    <3>2. CASE i = Len(replies) + 1
      BY <2>5, <2>6, <3>2
    <3> QED
      BY <2>5, <3>1, <3>2
  <2>8. Len(sent') = Len(replies') + Held' + Len(pending') + AtHand'
    BY <2>1, <2>2, <2>3, <2>5, Hands DEF InOrder
  <2>9. ASSUME NEW i \in 1..Len(pending')
        PROVE  pending'[i] = Len(replies') + i + Held'
    <3>1. pending[i] = Len(replies) + i + Held
      BY <2>1 DEF InOrder
    <3> QED
      BY <2>1, <2>3, <2>5, <3>1
  <2>10. current' = worker'.id /\ worker'.id = Len(replies')
    BY <2>1, <2>2, <2>5, <2>6 DEF InOrder
  <2> QED
    BY <2>1, <2>2, <2>7, <2>8, <2>9, <2>10 DEF InOrder
<1>9. CASE Finish
  <2>1. /\ UNCHANGED <<sent, pending, replies, reader>> /\ current' = 0
        /\ worker.at = "replied" /\ worker'.at = "wait"
    BY <1>9 DEF Finish, Idle
  <2>2. ~OnIt /\ AtHand' = AtHand
    BY <2>1 DEF OnIt, AtHand
  <2>3. ~OnIt' /\ ~InFlight' /\ worker'.at # "replied"
    BY <2>1, Between, OnTheRequest
  <2>4. Held' = Held
    BY <2>2, <2>3 DEF Held
  <2> QED
    BY <2>1, <2>2, <2>3, <2>4 DEF InOrder
<1>10. CASE FreeBegins \/ FreeNoCpu \/ FreeCheck \/ FreeSlice \/ End
  <2>1. /\ UNCHANGED <<sent, pending, replies, current, reader>>
        /\ worker.at \in {"wait", "free check", "free slice"}
        /\ worker' = Idle \/ \E p \in {"free check", "free slice", "over"} : worker' = [Idle EXCEPT !.at = p]
    BY <1>10 DEF FreeBegins, FreeNoCpu, FreeCheck, FreeSlice, End
  <2>2. worker'.at \in {"wait", "free check", "free slice", "over"}
    <3>1. CASE worker' = Idle
      BY <3>1 DEF Idle
    <3>2. ASSUME NEW p \in {"free check", "free slice", "over"}, worker' = [Idle EXCEPT !.at = p]
          PROVE  worker'.at = p
      BY <3>2 DEF Idle
    <3> QED
      BY <2>1, <3>1, <3>2
  <2>3. ~OnIt /\ ~InFlight /\ worker.at # "replied"
    BY <2>1, Between, OnTheRequest
  <2>4. ~OnIt' /\ ~InFlight' /\ worker'.at # "replied"
    BY <2>2, Between, OnTheRequest
  <2> QED
    BY <2>1, <2>3, <2>4, GoesOn, Zenon DEF AtHand
<1> QED
  BY <1>1, <1>2, <1>3, <1>4, <1>5, <1>6, <1>7, <1>8, <1>9, <1>10
     DEF Next, Reader, Worker, Over, vars, Signal, ReadCancel, Tick

\* A free run that is on has not said why it ended.
LEMMA FreshKept ==
  ASSUME free \in FreeRuns, Fresh, Next
  PROVE  Fresh'
<1>1. CASE Interrupted \/ ServeStart \/ ServeStop \/ FreeNoCpu \/ FreeCheck
  <2>1. \/ \E why : free' = [free EXCEPT !.running = FALSE, !.stopped = why]
        \/ free'.stopped = ""
        \/ free' = free
    <3>1. CASE ServeStart
      BY <3>1 DEF ServeStart
    <3>2. CASE Interrupted \/ ServeStop \/ FreeNoCpu
      BY <3>2 DEF Interrupted, ServeStop, FreeNoCpu, EndFreeRun
    <3>3. CASE FreeCheck
      BY <3>3 DEF FreeCheck, EndFreeRun
    <3> QED
      BY <1>1, <3>1, <3>2, <3>3
  <2> QED
    BY <2>1 DEF Fresh, FreeRuns
<1>2. CASE FreeSlice
  <2> PICK o \in Outcomes, due \in BOOLEAN :
         free' = [free EXCEPT !.steps = More(@), !.due = due, !.running = o.why = "",
                              !.stopped = o.why]
    BY <1>2 DEF FreeSlice
  <2> QED
    BY DEF Fresh, FreeRuns
<1>3. CASE Finish \/ FreeBegins \/ Tick
  BY <1>3 DEF Finish, FreeBegins, Tick, Fresh, FreeRuns
<1>4. CASE UNCHANGED free
  BY <1>4 DEF Fresh
<1> QED
  BY <1>1, <1>2, <1>3, <1>4
     DEF Next, Reader, Worker, Over, vars, Signal, ReadRequest, ReadCancel, ReadStatus,
         AnswerStatus,
         ReadEof, Enqueue, Take, Dispatch, ServeTool, ServeStep, ServeRun, RunCheck, RunOver,
         SliceBegins, SliceEnds, RunClose, Reply, End
-----------------------------------------------------------------------------
\* The inductive invariant holds at first,
LEMMA StartsSound == Init => IInv
<1> SUFFICES ASSUME Init
             PROVE  IInv
  OBVIOUS
<1>1. Kept
  <2>1. worker \in Workers
    BY IdleIsTyped DEF Init
  <2>2. free \in FreeRuns /\ status \in Snapshots
    BY Counts DEF Init, FreeRuns, Snapshots, Ends
  <2>3. seen \in Histories /\ reader \in Readers
    BY DEF Init, Unseen, Histories, Reading, Readers
  <2>4. left \in Allowances
    BY McpSessionAssumption DEF Init, Allowances
  <2>5. sent = <<>> /\ pending = <<>> /\ replies = <<>> /\ current = 0
    BY DEF Init
  <2>6. stop = FALSE /\ eof = FALSE /\ dead = FALSE
    BY DEF Init
  <2>7. sent \in Seq(Kinds) /\ pending \in Seq(Nat) /\ replies \in Seq(Nat) /\ current \in Nat
    BY <2>5
  <2> QED
    BY <2>1, <2>2, <2>3, <2>4, <2>6, <2>7 DEF Kept
<1>2. worker.at = "wait" /\ worker.why = ""
  BY DEF Init, Idle
<1>3. InOrder
  <2>1. ~OnIt /\ ~InFlight /\ worker.at # "replied"
    BY <1>2, Between, OnTheRequest
  <2>2. AtHand = 0
    BY DEF Init, Reading, AtHand
  <2>3. Len(sent) = 0 /\ Len(pending) = 0 /\ Len(replies) = 0 /\ current = 0
    BY DEF Init
  <2> QED
    BY <2>1, <2>2, <2>3, Hands, McpSessionAssumption DEF InOrder
<1>4. Meant
  BY <1>2 DEF Init, Meant, Busy
<1>5. Fresh /\ Published
  BY <1>2 DEF Init, Fresh, Published
<1>6. Heard /\ Owed
  BY <1>2 DEF Init, Unseen, Heard, Owed, Busy
<1> QED
  BY <1>1, <1>3, <1>4, <1>5, <1>6 DEF IInv

\* is kept by every step,
LEMMA Inductive == IInv /\ [Next]_vars => IInv'
<1>1. CASE Next
  BY <1>1, TypesKept, InOrderKept, FreshKept, MeantKept, HeardKept, PublishedKept,
         OwedKept DEF IInv, Kept
<1>2. CASE UNCHANGED vars
  <2>1. IInv => Kept'
    BY <1>2 DEF vars, IInv, Kept
  <2>2. IInv => InOrder'
    BY <1>2, GoesOn DEF vars, IInv, OnIt, InFlight, AtHand
  <2>3. IInv => Fresh' /\ Meant' /\ Heard' /\ Published' /\ Owed'
    BY <1>2 DEF vars, IInv, Fresh, Meant, Heard, Published, Owed
  <2> QED
    BY <2>1, <2>2, <2>3 DEF IInv
<1> QED
  BY <1>1, <1>2

\* and so holds always.
LEMMA AlwaysSound == Spec => []IInv
BY StartsSound, Inductive, PTL DEF Spec

\* The shape of the session, for a queue of any length and any number of requests: one
\* request in flight at the most and it is the worker's, and the answers, the request in
\* hand, the queue and the reader hold what the client sent in the order it sent it.
THEOREM TypeCorrect == Spec => []TypeOK
<1>1. IInv => TypeOK
  <2> SUFFICES ASSUME IInv
               PROVE  TypeOK
    OBVIOUS
  <2>1. /\ stop \in BOOLEAN /\ dead \in BOOLEAN /\ eof \in BOOLEAN
        /\ replies \in Seq(Nat) /\ pending \in Seq(Nat) /\ worker \in Workers
    BY DEF IInv, Kept
  <2>2. DOMAIN replies = 1..Len(replies) /\ DOMAIN pending = 1..Len(pending)
    BY <2>1
  <2>3. worker.steps \in 0..MaxSlices
    BY <2>1 DEF Workers
  <2>4. /\ current = IF worker.at \in Busy THEN worker.id ELSE 0
        /\ Len(pending) <= MaxPending
        /\ \A i \in 1..Len(replies) : replies[i] = i
    BY DEF IInv, InOrder, InFlight
  <2>5. \A i \in 1..Len(pending) :
          pending[i] = Len(replies) + i +
                       IF worker.at = "dispatch" \/ worker.at \in Busy \ {"replied"} THEN 1 ELSE 0
    BY DEF IInv, InOrder, Held, OnIt
  <2>6. free.running => free.stopped = ""
    BY DEF IInv, Fresh
  <2> QED
    BY <2>1, <2>2, <2>3, <2>4, <2>5, <2>6 DEF TypeOK
<1> QED
  BY <1>1, AlwaysSound, PTL

\* However the reader, the worker and ^C interleave: a run says it was interrupted only
\* when a cancel named it while it was in flight or a ^C came since it began, and a
\* cancelled run begins at most one slice more.
THEOREM StopsReachTheirRun == Spec => []StopReachesItsRun
<1>1. IInv => StopReachesItsRun
  <2>1. IInv => InterruptIsMeant
    BY DEF IInv, Meant, InterruptIsMeant
  <2>2. IInv => CancelIsHeard
    BY DEF IInv, Heard, CancelIsHeard
  <2> QED
    BY <2>1, <2>2 DEF StopReachesItsRun
<1> QED
  BY <1>1, AlwaysSound, PTL

\* A status asked after an answer is never older than the answer: the snapshot is
\* published before the reply goes out, on every path to a reply.
THEOREM SnapshotKeepsUp == Spec => []StatusKeepsUp
<1>1. IInv => StatusKeepsUp
  BY DEF IInv, Published, StatusKeepsUp
<1> QED
  BY <1>1, AlwaysSound, PTL

\* A client that calls tool after tool, however many, gets one answer for each slice of
\* the free run that is due.
THEOREM GuestIsServed == Spec => []GuestIsNotStarved
<1>1. IInv => seen.ahead \in {0, 1}
  BY DEF IInv, Owed
<1>2. IInv => GuestIsNotStarved
  BY <1>1 DEF GuestIsNotStarved
<1> QED
  BY <1>2, AlwaysSound, PTL
=============================================================================
