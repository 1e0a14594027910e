-------------------------- MODULE RequestProcessor --------------------------
(***************************************************************************)
(* The request processor of one RaftKeeper server                          *)
(* (Service/RequestProcessor.{h,cpp}): the thread that applies requests to *)
(* the data tree and produces the responses.  Its inputs are               *)
(*                                                                         *)
(*   requests_queue   requests of the sessions connected to this server,   *)
(*                    pushed by the dispatcher threads (Push);             *)
(*   committed_queue  write requests of all sessions of the cluster, in    *)
(*                    the order raft committed them (Commit);              *)
(*   errors           write requests of local sessions that raft or the    *)
(*                    forwarding connection reported as failed (OnError).  *)
(*                                                                         *)
(* ProcSpec is the processor in the most general environment: any request  *)
(* may be pushed, committed or reported at any time.  RequestPipeline      *)
(* composes the processor with the components that really feed it.         *)
(***************************************************************************)
EXTENDS Integers, Sequences

CONSTANTS
  Sessions,       (* session ids                                           *)
  MaxXid,         (* largest xid a client uses; bounds the model           *)
  QueueCapacity   (* capacity of requests_queue and committed_queue        *)

ASSUME ProcessorAssumption ==
  /\ MaxXid \in Nat \ {0}
  /\ QueueCapacity \in Nat \ {0}

VARIABLES
  requests_queue,    (* [Sessions -> Seq(Request)]: each session a runner  *)
  pending_requests,  (* [Sessions -> Seq(Request)]: grouped by session     *)
  committed_queue,   (* Seq(Request)                                       *)
  errors,            (* Seq(ErrorRequest): the unordered_map in its        *)
                     (* iteration order                                    *)
  phase,             (* position of RequestProcessor::run                  *)
  to_move,           (* requests every runner still has to move            *)
  count,             (* committed requests this iteration still handles    *)
  local,             (* keys of KeeperDispatcher::session_to_response_callback *)
  leader_alive,      (* KeeperServer::isLeaderAlive                        *)
  responses,         (* [Sessions -> Seq(Response)]: everything pushed to  *)
                     (* responses_queue, per session                       *)
  log,               (* history: requests handed over by raft's commit     *)
  applied            (* history: committed requests applied to the store   *)

envVars  == <<local, leader_alive>>
loopVars == <<phase, to_move, count>>
procVars == <<requests_queue, pending_requests, committed_queue, errors,
              loopVars, envVars, responses, log, applied>>

-----------------------------------------------------------------------------
(* ZooKeeperConstants.h: AUTH_XID is -4; CLOSE_XID (0x7FFFFFFF) is above   *)
(* every xid of a client.                                                  *)
AuthXid  == -4
CloseXid == MaxXid + 1
Xids     == (1 .. CloseXid) \cup {AuthXid}

(* "read" stands for every request with isReadRequest(), "write" for the   *)
(* others except Auth and Close, which the processor treats apart.         *)
Kinds == {"read", "write", "auth", "close"}

Request      == [session : Sessions, xid : Xids, kind : Kinds]
ErrorRequest == [session : Sessions, xid : Xids, kind : Kinds,
                 code : {"timeout", "failed"}]
Response     == [xid : Xids, kind : Kinds,
                 error : {"ok", "connection_loss", "operation_timeout"}]

IsRead(r)        == r.kind = "read"
BothClose(a, b)  == a.kind = "close" /\ b.kind = "close"

(* The first position of q whose element satisfies Test: a set with one    *)
(* element, or none.                                                       *)
FirstAt(q, Test(_)) ==
  {i \in 1 .. Len(q) : Test(q[i]) /\ \A j \in 1 .. (i - 1) : ~Test(q[j])}

Without(q, i) == SubSeq(q, 1, i - 1) \o SubSeq(q, i + 1, Len(q))

InsertedAt(q, i, e) == SubSeq(q, 1, i - 1) \o <<e>> \o SubSeq(q, i, Len(q))

InErrors(s, xid) ==
  \E i \in 1 .. Len(errors) : errors[i].session = s /\ errors[i].xid = xid

-----------------------------------------------------------------------------
ProcInit ==
  /\ requests_queue   = [s \in Sessions |-> <<>>]
  /\ pending_requests = [s \in Sessions |-> <<>>]
  /\ committed_queue  = <<>>
  /\ errors           = <<>>
  /\ phase            = "wait"
  /\ to_move          = [s \in Sessions |-> 0]
  /\ count            = 0
  /\ local \in SUBSET Sessions
  /\ leader_alive \in BOOLEAN
  /\ responses        = [s \in Sessions |-> <<>>]
  /\ log              = <<>>
  /\ applied          = <<>>

(***************************************************************************)
(* The three inputs.                                                       *)
(***************************************************************************)
Push(r) ==
  /\ Len(requests_queue[r.session]) < QueueCapacity
  /\ requests_queue' = [requests_queue EXCEPT ![r.session] = Append(@, r)]
  /\ UNCHANGED <<pending_requests, committed_queue, errors, loopVars, envVars,
                 responses, log, applied>>

Commit(r) ==
  /\ Len(committed_queue) < QueueCapacity
  /\ committed_queue' = Append(committed_queue, r)
  /\ log' = Append(log, r)
  /\ UNCHANGED <<requests_queue, pending_requests, errors, loopVars, envVars,
                 responses, applied>>

(* errors is keyed by (session, xid): emplace keeps the entry it has.  A   *)
(* new key lands anywhere in the map's iteration order.  processErrorRequest *)
(* holds the mutex that onError takes.                                     *)
OnError(e) ==
  /\ phase # "errors"
  /\ IF InErrors(e.session, e.xid)
       THEN errors' = errors
       ELSE \E i \in 1 .. Len(errors) + 1 : errors' = InsertedAt(errors, i, e)
  /\ UNCHANGED <<requests_queue, pending_requests, committed_queue, loopVars,
                 envVars, responses, log, applied>>

(* What other threads change and the processor only reads: sessions        *)
(* connect and disconnect, the leader comes and goes.                      *)
Environment ==
  /\ local' \in SUBSET Sessions
  /\ leader_alive' \in BOOLEAN
  /\ UNCHANGED <<requests_queue, pending_requests, committed_queue, errors,
                 loopVars, responses, log, applied>>

(***************************************************************************)
(* RequestProcessor::run.  An iteration starts when one of the queues has  *)
(* something, or when the timed wait ends.                                 *)
(***************************************************************************)
HasWork ==
  \/ errors # <<>>
  \/ committed_queue # <<>>
  \/ \E s \in Sessions : requests_queue[s] # <<>>

StartIteration ==
  /\ phase = "wait"
  /\ phase' = "errors"
  /\ UNCHANGED <<requests_queue, pending_requests, committed_queue, errors,
                 to_move, count, envVars, responses, log, applied>>

(* Mutant of WaitTimeout: after a timeout the thread waits again.          *)
MutantWaitTimeoutContinues == phase = "wait" /\ ~HasWork /\ UNCHANGED procVars

WakeUp      == HasWork /\ StartIteration
WaitTimeout == ~HasWork /\ StartIteration

(***************************************************************************)
(* processErrorRequest, one error per step.  The scan of the session's     *)
(* pending requests gives up at a smaller xid.  An error is either erased  *)
(* or, when its request is not found, ends the pass: the iterator is       *)
(* always at the first error of the map.                                   *)
(***************************************************************************)
ErrorMatch(e) ==
  LET q == pending_requests[e.session]
      Stop(p) == p.xid <= e.xid \/ BothClose(p, e)
  IN  {i \in FirstAt(q, Stop) : q[i].xid >= e.xid}

ErrorResponse(e, xid, kind) ==
  [xid |-> xid, kind |-> kind,
   error |-> IF e.code = "timeout" THEN "operation_timeout" ELSE "connection_loss"]

ErrorOfRemoteSession(e) ==
  /\ e.session \notin local
  /\ pending_requests' = [pending_requests EXCEPT ![e.session] = <<>>]
  /\ errors' = Tail(errors)
  /\ UNCHANGED <<phase, responses>>

ErrorOfAuth(e) ==
  /\ e.session \in local
  /\ e.xid = AuthXid
  /\ responses' = [responses EXCEPT ![e.session] =
                     Append(@, ErrorResponse(e, AuthXid, "auth"))]
  /\ errors' = Tail(errors)
  /\ UNCHANGED <<phase, pending_requests>>

ErrorMatched(e) ==
  /\ e.session \in local
  /\ e.xid # AuthXid
  /\ \E i \in ErrorMatch(e) :
       LET q == pending_requests[e.session] IN
       /\ responses' = [responses EXCEPT ![e.session] =
                          Append(@, ErrorResponse(e, q[i].xid, q[i].kind))]
       /\ pending_requests' = [pending_requests EXCEPT ![e.session] = Without(q, i)]
  /\ errors' = Tail(errors)
  /\ UNCHANGED phase

(* Mutant of ErrorNotFound: an error whose request is not pending is       *)
(* answered and erased.                                                    *)
MutantErrorAnswered(e) ==
  /\ e.session \in local
  /\ e.xid # AuthXid
  /\ ErrorMatch(e) = {}
  /\ responses' = [responses EXCEPT ![e.session] =
                     Append(@, ErrorResponse(e, e.xid, e.kind))]
  /\ errors' = Tail(errors)
  /\ UNCHANGED <<phase, pending_requests>>

ErrorNotFound(e) ==
  /\ e.session \in local
  /\ e.xid # AuthXid
  /\ ErrorMatch(e) = {}
  /\ phase' = "snapshot"
  /\ UNCHANGED <<pending_requests, responses, errors>>

ProcessErrorRequest ==
  /\ phase = "errors"
  /\ errors # <<>>
  /\ LET e == Head(errors) IN
       \/ ErrorOfRemoteSession(e)
       \/ ErrorOfAuth(e)
       \/ ErrorMatched(e)
       \/ ErrorNotFound(e)
  /\ UNCHANGED <<requests_queue, committed_queue, to_move, count,
                 envVars, log, applied>>

ErrorsDone ==
  /\ phase = "errors"
  /\ errors = <<>>
  /\ phase' = "snapshot"
  /\ UNCHANGED <<requests_queue, pending_requests, committed_queue, errors,
                 to_move, count, envVars, responses, log, applied>>

(* Mutant of TakeSizes: the size is one short.                             *)
MutantTakeSizesOneShort ==
  /\ phase = "snapshot"
  /\ count' = Len(committed_queue) - 1
  /\ to_move' = [s \in Sessions |-> Len(requests_queue[s])]
  /\ phase' = "runners"
  /\ UNCHANGED <<requests_queue, pending_requests, committed_queue, errors,
                 envVars, responses, log, applied>>

(***************************************************************************)
(* The size of committed_queue is read before the runners look at          *)
(* requests_queue.                                                         *)
(***************************************************************************)
TakeSizes ==
  /\ phase = "snapshot"
  /\ count' = Len(committed_queue)
  /\ to_move' = [s \in Sessions |-> Len(requests_queue[s])]
  /\ phase' = "runners"
  /\ UNCHANGED <<requests_queue, pending_requests, committed_queue, errors,
                 envVars, responses, log, applied>>

(* moveRequestToPendingQueue: the runner moves what was queued when it     *)
(* started, to_move[s] requests at least.  Auth is not put in pending.     *)
MoveRequest(s) ==
  /\ phase = "runners"
  /\ requests_queue[s] # <<>>
  /\ LET r == Head(requests_queue[s]) IN
       /\ requests_queue' = [requests_queue EXCEPT ![s] = Tail(@)]
       /\ pending_requests' = [pending_requests EXCEPT ![s] =
                                 IF r.kind = "auth" THEN @ ELSE Append(@, r)]
  /\ to_move' = [to_move EXCEPT ![s] = IF @ > 0 THEN @ - 1 ELSE 0]
  /\ UNCHANGED <<committed_queue, errors, phase, count, envVars,
                 responses, log, applied>>

(* applyRequest: a read is refused when no leader is alive, everything     *)
(* else goes to KeeperStore::processRequest, which pushes one response, or *)
(* none when the session is closed already.                                *)
ApplyResponse(r) ==
  [xid |-> r.xid, kind |-> r.kind,
   error |-> IF IsRead(r) /\ ~leader_alive THEN "connection_loss" ELSE "ok"]

Expired(s) ==
  \E i \in 1 .. Len(applied) : applied[i].session = s /\ applied[i].kind = "close"

Ignored(r) ==
  Expired(r.session) /\ r.kind # "close" /\ ~(IsRead(r) /\ ~leader_alive)

ApplyRequest(r) ==
  responses' = IF Ignored(r) THEN responses
               ELSE [responses EXCEPT ![r.session] = Append(@, ApplyResponse(r))]

HeadIsRead(s) ==
  pending_requests[s] # <<>> /\ IsRead(Head(pending_requests[s]))

(* Mutant of ReadRequest: reads behind a write are answered too.           *)
MutantReadRequestAnywhere(s) ==
  /\ phase = "runners"
  /\ to_move[s] = 0
  /\ \E i \in 1 .. Len(pending_requests[s]) :
       LET r == pending_requests[s][i] IN
       /\ IsRead(r)
       /\ ApplyRequest(r)
       /\ pending_requests' = [pending_requests EXCEPT ![s] = Without(@, i)]
  /\ UNCHANGED <<requests_queue, committed_queue, errors, loopVars, envVars,
                 log, applied>>

(* processReadRequests: the reads in front of the session's first write.   *)
ReadRequest(s) ==
  /\ phase = "runners"
  /\ to_move[s] = 0
  /\ HeadIsRead(s)
  /\ ApplyRequest(Head(pending_requests[s]))
  /\ pending_requests' = [pending_requests EXCEPT ![s] = Tail(@)]
  /\ UNCHANGED <<requests_queue, committed_queue, errors, loopVars, envVars,
                 log, applied>>

(* Mutant of RunnersDone: the size of committed_queue is read after the    *)
(* runners.                                                                *)
MutantRunnersDoneReadsSize ==
  /\ phase = "runners"
  /\ \A s \in Sessions : to_move[s] = 0 /\ ~HeadIsRead(s)
  /\ phase' = "committed"
  /\ count' = Len(committed_queue)
  /\ UNCHANGED <<requests_queue, pending_requests, committed_queue, errors,
                 to_move, envVars, responses, log, applied>>

RunnersDone ==
  /\ phase = "runners"
  /\ \A s \in Sessions : to_move[s] = 0 /\ ~HeadIsRead(s)
  /\ phase' = "committed"
  /\ UNCHANGED <<requests_queue, pending_requests, committed_queue, errors,
                 to_move, count, envVars, responses, log, applied>>

(***************************************************************************)
(* processCommittedRequest, one request per step.                          *)
(***************************************************************************)
(* The pending requests after the one that matches r; none when no request *)
(* matches.                                                                *)
AfterMatch(q, r) ==
  LET Match(p) == p.xid = r.xid \/ BothClose(p, r)
      first    == FirstAt(q, Match)
  IN  IF first = {} THEN <<>>
      ELSE SubSeq(q, (CHOOSE i \in first : TRUE) + 1, Len(q))

IsRemote(r) == r.session \notin local \/ r.kind = "auth"

(* The loop stops at a committed request while the session's pending       *)
(* requests start with a read, or with a write that is still in errors.    *)
MustWait(r) ==
  LET q == pending_requests[r.session] IN
  /\ ~IsRemote(r)
  /\ q # <<>>
  /\ Head(q).xid # r.xid
  /\ \/ IsRead(Head(q))
     \/ ~BothClose(Head(q), r) /\ InErrors(r.session, Head(q).xid)

ApplyCommitted(r) ==
  /\ ApplyRequest(r)
  /\ applied' = Append(applied, r)
  /\ committed_queue' = Tail(committed_queue)
  /\ count' = count - 1
  /\ UNCHANGED phase

CommittedRemote(r) ==
  /\ IsRemote(r)
  /\ ApplyCommitted(r)
  /\ pending_requests' = [pending_requests EXCEPT ![r.session] = <<>>]

CommittedLocal(r) ==
  /\ ~IsRemote(r)
  /\ ~MustWait(r)
  /\ ApplyCommitted(r)
  /\ pending_requests' = [pending_requests EXCEPT ![r.session] = AfterMatch(@, r)]

(* Mutant of CommittedWaits: the request is popped although it is not      *)
(* applied.                                                                *)
MutantCommittedWaitsPops(r) ==
  /\ MustWait(r)
  /\ phase' = "wait"
  /\ count' = 0
  /\ committed_queue' = Tail(committed_queue)
  /\ UNCHANGED <<responses, applied, pending_requests>>

CommittedWaits(r) ==
  /\ MustWait(r)
  /\ phase' = "wait"
  /\ count' = 0
  /\ UNCHANGED <<responses, applied, committed_queue, pending_requests>>

ProcessCommittedRequest ==
  /\ phase = "committed"
  /\ count > 0
  /\ LET r == Head(committed_queue) IN
       CommittedRemote(r) \/ CommittedLocal(r) \/ CommittedWaits(r)
  /\ UNCHANGED <<requests_queue, errors, to_move, envVars, log>>

CommittedDone ==
  /\ phase = "committed"
  /\ count = 0
  /\ phase' = "wait"
  /\ UNCHANGED <<requests_queue, pending_requests, committed_queue, errors,
                 to_move, count, envVars, responses, log, applied>>

-----------------------------------------------------------------------------
Run ==
  \/ WakeUp \/ WaitTimeout
  \/ ProcessErrorRequest \/ ErrorsDone
  \/ TakeSizes
  \/ \E s \in Sessions : MoveRequest(s) \/ ReadRequest(s)
  \/ RunnersDone
  \/ ProcessCommittedRequest \/ CommittedDone

ProcNext ==
  \/ Run
  \/ \E r \in Request : Push(r) \/ Commit(r)
  \/ \E e \in ErrorRequest : OnError(e)
  \/ Environment

ProcSpec == ProcInit /\ [][ProcNext]_procVars

-----------------------------------------------------------------------------
(* Every variable of the processor holds what the code's types allow.      *)
ProcTypeOK ==
  /\ requests_queue   \in [Sessions -> Seq(Request)]
  /\ pending_requests \in [Sessions -> Seq(Request)]
  /\ committed_queue  \in Seq(Request)
  /\ errors           \in Seq(ErrorRequest)
  /\ phase \in {"wait", "errors", "snapshot", "runners", "committed"}
  /\ to_move          \in [Sessions -> Nat]
  /\ count            \in Nat
  /\ local            \in SUBSET Sessions
  /\ leader_alive     \in BOOLEAN
  /\ responses        \in [Sessions -> Seq(Response)]
  /\ log              \in Seq(Request)
  /\ applied          \in Seq(Request)

(* README, guarantee 2: committed write requests are handled in the order  *)
(* raft committed them, across all sessions; a stop of the committed loop  *)
(* (a read or a failed write in front) neither loses nor skips one.        *)
CommittedInOrder == applied \o committed_queue = log

(* The loop of processCommittedRequest runs over a size read earlier:      *)
(* committed_queue still has that many requests, so peek always succeeds.  *)
SizeStillThere ==
  phase \in {"runners", "committed"} => count <= Len(committed_queue)
=============================================================================
