----------------------------- MODULE McpSession -----------------------------
(***************************************************************************)
(* The --mcp server: a reader thread and a worker thread around one        *)
(* machine.                                                                *)
(*                                                                         *)
(* The reader takes lines from the client.  A cancel is matched against    *)
(* the request in flight and raises the stop flag, a status is answered on *)
(* the spot from a published snapshot, and everything else is queued.  The *)
(* worker serves the queue in order and, between requests, runs slices of  *)
(* a guest that was started to run on its own.  ^C raises the same flag    *)
(* from a signal handler, and kills the process when it is raised already. *)
(*                                                                         *)
(* The mutexes are the granularity: what one lock covers is one step.      *)
(***************************************************************************)
EXTENDS Integers, Sequences, FiniteSets

CONSTANTS
  Kinds,       \* the tools the client calls, of Tools
  MaxRequests, \* a bound: requests the client sends
  MaxCancels,  \* a bound: cancels it sends
  MaxStatus,   \* a bound: status requests it sends
  MaxSignals,  \* a bound: ^C to the process
  MaxPending,  \* kMaxPending
  MaxSlices    \* a bound: the slices of a run are counted so far

\* "tool" is any tool that leaves the guest where it is: recv, regs, mem_dump...
Tools == {"run", "step", "start", "stop", "tool"}

ASSUME McpSessionAssumption ==
  /\ Kinds \subseteq Tools
  /\ MaxRequests \in Nat /\ MaxCancels \in Nat /\ MaxStatus \in Nat /\ MaxSignals \in Nat
  /\ MaxPending \in Nat \ {0} /\ MaxSlices \in Nat \ {0}

VARIABLES
  sent,      \* the requests the reader has read; a request's id is its place here
  left,      \* what the client and the operator may still send
  reader,    \* [at, inflight]
  pending,   \* the queue
  eof,       \* the reader saw the end
  current,   \* currentId while haveCurrentId, else 0
  stop,      \* g_stopRequest
  worker,    \* [at, id, steps, why]
  free,      \* FreeRun: [running, stopped, steps, due (nextSlice has come), served]
  status,    \* RunSnapshot: [steps, running, reason]
  replies,   \* the requests answered, in order
  dead,      \* a second ^C
  seen       \* history, for the properties

vars == <<sent, left, reader, pending, eof, current, stop, worker, free, status, replies, dead, seen>>

Idle == [at |-> "wait", id |-> 0, steps |-> 0, why |-> ""]
Reading == [at |-> "read", inflight |-> FALSE]

\* seen.cancelled  the request in flight has been cancelled
\* seen.signal     a ^C since the request in flight began
\* seen.late       slices begun in a run that has been cancelled
\* seen.ahead      requests taken while a slice of the free run was due, since the last
Unseen == [cancelled |-> FALSE, signal |-> FALSE, late |-> 0, ahead |-> 0]

Init ==
  /\ sent = <<>>
  /\ left = [cancels |-> MaxCancels, status |-> MaxStatus, signals |-> MaxSignals]
  /\ reader = Reading /\ pending = <<>> /\ eof = FALSE
  /\ current = 0 /\ stop = FALSE
  /\ worker = Idle
  /\ free = [running |-> FALSE, stopped |-> "", steps |-> 0, due |-> FALSE, served |-> FALSE]
  /\ status = [steps |-> 0, running |-> FALSE, reason |-> ""]
  /\ replies = <<>>
  /\ dead = FALSE
  /\ seen = Unseen
-----------------------------------------------------------------------------
(***************************************************************************)
(* ^C, and the reader.  A line the client has written and the reader has   *)
(* not read is one the client may still write: reading it is the step.     *)
(***************************************************************************)
\* onSigint: a request to stop that nobody has consumed makes the next one fatal.
Signal ==
  /\ left.signals > 0
  /\ left' = [left EXCEPT !.signals = @ - 1]
  /\ dead' = stop
  /\ stop' = TRUE
  /\ seen' = [seen EXCEPT !.signal = TRUE]
  /\ UNCHANGED <<sent, reader, pending, eof, current, worker, free, status, replies>>

MatchesMutant(id) == current # 0
Matches(id) == id = current

\* It names a request the client has sent, whatever became of that one.
ReadCancel(id) ==
  /\ reader.at = "read" /\ left.cancels > 0
  /\ left' = [left EXCEPT !.cancels = @ - 1]
  /\ stop' = (stop \/ Matches(id))
  /\ seen' = IF id = current THEN [seen EXCEPT !.cancelled = TRUE] ELSE seen
  /\ UNCHANGED <<sent, reader, pending, eof, current, worker, free, status, replies, dead>>

\* statusResult: haveCurrentId under one lock, then the snapshot under another.
ReadStatus ==
  /\ reader.at = "read" /\ left.status > 0
  /\ left' = [left EXCEPT !.status = @ - 1]
  /\ reader' = [at |-> "status", inflight |-> current # 0]
  /\ UNCHANGED <<sent, pending, eof, current, stop, worker, free, status, replies, dead, seen>>

AnswerStatus ==
  /\ reader.at = "status"
  /\ reader' = Reading
  /\ UNCHANGED <<sent, left, pending, eof, current, stop, worker, free, status, replies, dead, seen>>

ReadRequest(kind) ==
  /\ reader.at = "read" /\ Len(sent) < MaxRequests
  /\ sent' = Append(sent, kind)
  /\ reader' = [Reading EXCEPT !.at = "queue"]
  /\ UNCHANGED <<left, pending, eof, current, stop, worker, free, status, replies, dead, seen>>

Room == Len(pending) < MaxPending

\* It waits here while the queue is full.
Enqueue ==
  /\ reader.at = "queue" /\ Room
  /\ pending' = Append(pending, Len(sent))
  /\ reader' = Reading
  /\ UNCHANGED <<sent, left, eof, current, stop, worker, free, status, replies, dead, seen>>

ReadEof ==
  /\ reader.at = "read"
  /\ eof' = TRUE
  /\ reader' = [Reading EXCEPT !.at = "over"]
  /\ UNCHANGED <<sent, left, pending, current, stop, worker, free, status, replies, dead, seen>>

Reader ==
  \/ \E kind \in Kinds : ReadRequest(kind)
  \/ \E id \in DOMAIN sent : ReadCancel(id)
  \/ ReadStatus \/ AnswerStatus \/ Enqueue \/ ReadEof
-----------------------------------------------------------------------------
(***************************************************************************)
(* The worker: the next request, or the next slice of the free run.        *)
(***************************************************************************)
SnapshotMutant(f) == [status EXCEPT !.steps = f.steps]
Snapshot(f) == [steps |-> f.steps, running |-> f.running, reason |-> f.stopped]
PublishFree == status' = Snapshot(free')
PublishRun(n) == status' = [status EXCEPT !.steps = n]

EndFreeRun(why) ==
  free' = [free EXCEPT !.running = FALSE, !.stopped = why] /\ PublishFree

SliceFirst == free.running /\ free.due /\ free.served

ServedMutant == FALSE
Served == free.running

Take ==
  /\ worker.at = "wait" /\ pending # <<>> /\ ~SliceFirst
  /\ worker' = [Idle EXCEPT !.at = "dispatch", !.id = Head(pending)]
  /\ pending' = Tail(pending)
  /\ seen' = [seen EXCEPT !.ahead = IF free.running /\ free.due THEN @ + 1 ELSE @]
  /\ UNCHANGED <<sent, left, reader, eof, current, stop, free, status, replies, dead>>

\* A stop from before the request is dropped in the step that makes its id visible;
\* a ^C meant for the free run is not lost with it.
FlagAtDispatchMutant == stop
FlagAtDispatch == FALSE

Dispatch ==
  /\ worker.at = "dispatch"
  /\ current' = worker.id
  /\ stop' = FlagAtDispatch
  /\ worker' = [worker EXCEPT !.at = IF free.running /\ stop THEN "interrupted" ELSE "serve"]
  /\ seen' = [seen EXCEPT !.signal = FALSE, !.cancelled = FALSE, !.late = 0]
  /\ UNCHANGED <<sent, left, reader, pending, eof, free, status, replies, dead>>

Interrupted ==
  /\ worker.at = "interrupted"
  /\ EndFreeRun("interrupted")
  /\ worker' = [worker EXCEPT !.at = "serve"]
  /\ UNCHANGED <<sent, left, reader, pending, eof, current, stop, replies, dead, seen>>

Kind == sent[worker.id]
Serve == worker.at = "serve"
Answer(why) == worker' = [worker EXCEPT !.at = "reply", !.why = why]

\* run, step and start are refused while a free run is on, and on a guest that is halted.
ServeTool ==
  /\ Serve /\ Kind # "stop"
  /\ Answer(IF Kind = "tool" THEN "ok" ELSE "refused")
  /\ UNCHANGED <<sent, left, reader, pending, eof, current, stop, free, status, replies, dead, seen>>

ServeStart ==
  /\ Serve /\ Kind = "start" /\ ~free.running
  /\ free' = [running |-> TRUE, stopped |-> "", steps |-> 0, due |-> TRUE, served |-> free.served]
  /\ PublishFree
  /\ Answer("ok")
  /\ seen' = [seen EXCEPT !.ahead = 0]
  /\ UNCHANGED <<sent, left, reader, pending, eof, current, stop, replies, dead>>

ServeStop ==
  /\ Serve /\ Kind = "stop"
  /\ IF free.running THEN EndFreeRun("requested") ELSE UNCHANGED <<free, status>>
  /\ Answer("ok")
  /\ UNCHANGED <<sent, left, reader, pending, eof, current, stop, replies, dead, seen>>

\* Each instruction of a step is a run that clears the flag.
ServeStep ==
  /\ Serve /\ Kind = "step" /\ ~free.running
  /\ stop' = FALSE
  /\ Answer("ok")
  /\ UNCHANGED <<sent, left, reader, pending, eof, current, free, status, replies, dead, seen>>

ServeRun ==
  /\ Serve /\ Kind = "run" /\ ~free.running
  /\ PublishRun(0)
  /\ worker' = [worker EXCEPT !.at = "check"]
  /\ UNCHANGED <<sent, left, reader, pending, eof, current, stop, free, replies, dead, seen>>

\* The top of the run's loop: told to stop, or out of time, or another slice.
RunCheck ==
  /\ worker.at = "check"
  /\ \/ /\ stop /\ stop' = FALSE
        /\ worker' = [worker EXCEPT !.at = "close", !.why = "interrupted"]
        /\ UNCHANGED seen
     \/ /\ ~stop
        /\ worker' = [worker EXCEPT !.at = "slice"]
        /\ UNCHANGED <<stop, seen>>
  /\ UNCHANGED <<sent, left, reader, pending, eof, current, free, status, replies, dead>>

\* `until` matched, timeout_ms, max_steps, idle.
RunOver ==
  /\ worker.at = "check" /\ ~stop
  /\ worker' = [worker EXCEPT !.at = "close", !.why = "over"]
  /\ UNCHANGED <<sent, left, reader, pending, eof, current, stop, free, status, replies, dead, seen>>

\* RUN keeps a stop that lands between the check and the slice.
FlagAtSliceMutant == FALSE
FlagAtSlice == stop

SliceBegins ==
  /\ worker.at = "slice"
  /\ stop' = FlagAtSlice
  /\ worker' = [worker EXCEPT !.at = "slicing"]
  /\ seen' = [seen EXCEPT !.late = IF seen.cancelled /\ @ < 2 THEN @ + 1 ELSE @]
  /\ UNCHANGED <<sent, left, reader, pending, eof, current, free, status, replies, dead>>

\* Debugger::run comes back: the guest stopped it (a HLT, a breakpoint), the flag did,
\* or it ran the slice out.  The boards are pumped and the slice is published.
Outcomes == [why : {"guest"}, flag : {stop}] \cup
            (IF stop THEN {[why |-> "interrupted", flag |-> FALSE]} ELSE {[why |-> "", flag |-> FALSE]})
More(n) == IF n < MaxSlices THEN n + 1 ELSE n

SliceEnds ==
  /\ worker.at = "slicing"
  /\ PublishRun(More(worker.steps))
  /\ \E o \in Outcomes :
       /\ stop' = o.flag
       /\ worker' = [worker EXCEPT !.at = IF o.why = "" THEN "check" ELSE "close",
                                   !.steps = More(@), !.why = o.why]
  /\ UNCHANGED <<sent, left, reader, pending, eof, current, free, replies, dead, seen>>

RunClose ==
  /\ worker.at = "close"
  /\ PublishRun(worker.steps)
  /\ worker' = [worker EXCEPT !.at = "reply"]
  /\ UNCHANGED <<sent, left, reader, pending, eof, current, stop, free, replies, dead, seen>>

\* The reply goes out while the request is still in flight.
Reply ==
  /\ worker.at = "reply"
  /\ replies' = Append(replies, worker.id)
  /\ worker' = [worker EXCEPT !.at = "replied"]
  /\ UNCHANGED <<sent, left, reader, pending, eof, current, stop, free, status, dead, seen>>

Finish ==
  /\ worker.at = "replied"
  /\ current' = 0
  /\ free' = [free EXCEPT !.served = Served \/ @]
  /\ worker' = Idle
  /\ UNCHANGED <<sent, left, reader, pending, eof, stop, status, replies, dead, seen>>

\* freeRunSlice
FreeBegins ==
  /\ worker.at = "wait" /\ free.running
  /\ SliceFirst \/ (free.due /\ pending = <<>> /\ ~eof)
  /\ free' = [free EXCEPT !.served = FALSE]
  /\ worker' = [Idle EXCEPT !.at = "free check"]
  /\ seen' = [seen EXCEPT !.ahead = 0]
  /\ UNCHANGED <<sent, left, reader, pending, eof, current, stop, status, replies, dead>>

FreeCheck ==
  /\ worker.at = "free check"
  /\ stop' = FALSE
  /\ IF stop THEN EndFreeRun("interrupted") /\ worker' = Idle
     ELSE worker' = [Idle EXCEPT !.at = "free slice"] /\ UNCHANGED <<free, status>>
  /\ UNCHANGED <<sent, left, reader, pending, eof, current, replies, dead, seen>>

FreeSlice ==
  /\ worker.at = "free slice"
  /\ \E o \in Outcomes, due \in BOOLEAN :
       /\ stop' = o.flag
       /\ free' = [free EXCEPT !.steps = More(@), !.due = due, !.running = o.why = "",
                               !.stopped = o.why]
  /\ PublishFree
  /\ worker' = Idle
  /\ UNCHANGED <<sent, left, reader, pending, eof, current, replies, dead, seen>>

\* A tool took the CPU card out of the machine.
FreeNoCpu ==
  /\ worker.at = "free check"
  /\ EndFreeRun("no-cpu")
  /\ worker' = Idle
  /\ UNCHANGED <<sent, left, reader, pending, eof, current, stop, replies, dead, seen>>

\* The pacing gap or the nap is over.
Tick ==
  /\ free.running /\ ~free.due
  /\ free' = [free EXCEPT !.due = TRUE]
  /\ UNCHANGED <<sent, left, reader, pending, eof, current, stop, worker, status, replies, dead, seen>>

CanEndMutant == eof
CanEnd == eof /\ pending = <<>>

End ==
  /\ worker.at = "wait" /\ CanEnd /\ ~SliceFirst
  /\ worker' = [Idle EXCEPT !.at = "over"]
  /\ UNCHANGED <<sent, left, reader, pending, eof, current, stop, free, status, replies, dead, seen>>

Worker ==
  \/ Take \/ Dispatch \/ Interrupted
  \/ ServeTool \/ ServeStart \/ ServeStop \/ ServeStep \/ ServeRun
  \/ RunCheck \/ RunOver \/ SliceBegins \/ SliceEnds \/ RunClose \/ Reply \/ Finish
  \/ FreeBegins \/ FreeNoCpu \/ FreeCheck \/ FreeSlice \/ End

Over == (dead \/ worker.at = "over") /\ UNCHANGED vars

Next == (~dead /\ (Signal \/ Reader \/ Worker \/ Tick)) \/ Over

\* The threads run, the wall clock goes on, and a run ends: timeout_ms is a ceiling
\* the client cannot take away.
Fairness ==
  /\ WF_vars(~dead /\ (AnswerStatus \/ Enqueue)) /\ WF_vars(~dead /\ Worker) /\ WF_vars(~dead /\ Tick)
  /\ SF_vars(~dead /\ RunOver)

Spec == Init /\ [][Next]_vars /\ Fairness
-----------------------------------------------------------------------------
Busy == {"serve", "interrupted", "check", "slice", "slicing", "close", "reply", "replied"}

\* The shape of the session: at most one request in flight, and it is the one the
\* worker is on; the queue and the reader hold the requests in the order sent.
TypeOK ==
  /\ current = IF worker.at \in Busy THEN worker.id ELSE 0
  /\ stop \in BOOLEAN /\ dead \in BOOLEAN /\ eof \in BOOLEAN
  /\ Len(pending) <= MaxPending
  /\ \A i \in DOMAIN replies : replies[i] = i
  /\ \A i \in DOMAIN pending :
       pending[i] = Len(replies) + i +
                    IF worker.at = "dispatch" \/ worker.at \in Busy \ {"replied"} THEN 1 ELSE 0
  /\ free.running => free.stopped = ""
  /\ worker.steps \in 0..MaxSlices

\* A run is interrupted by a cancel that named it while it was in flight or by a ^C
\* since it began: what was meant for an earlier request never applies to it.
InterruptIsMeant ==
  worker.why = "interrupted" => seen.cancelled \/ seen.signal

\* A cancelled run begins at most one slice more, wherever the cancel lands.
CancelIsHeard == seen.late <= 1

\* A stop reaches the run it was meant for, and no other.
StopReachesItsRun == InterruptIsMeant /\ CancelIsHeard

\* Whatever an answer says of the guest, the snapshot said it first: a status asked
\* after it is not older.
StatusKeepsUp ==
  worker.at \in {"reply", "replied", "wait"} =>
    /\ status.running = free.running /\ status.reason = free.stopped
    /\ (worker.at = "reply" /\ worker.why \in {"over", "guest", "interrupted"}) =>
         status.steps = worker.steps

\* A client that calls tool after tool gets one answer for each slice that is due.
GuestIsNotStarved == seen.ahead <= 1

\* Every request is answered, whatever is cancelled, however full the queue was.
EveryRequestAnswered ==
  \A id \in 1..MaxRequests : (id <= Len(sent)) ~> (dead \/ id <= Len(replies))
=============================================================================
