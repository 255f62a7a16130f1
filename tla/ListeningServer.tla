--------------------------- MODULE ListeningServer ---------------------------
(***************************************************************************)
(* ws::Server and binary::Server (opcua/transport/{websocket,binary}/      *)
(* server.{h,cpp}): opening and closing a listening server, its accept     *)
(* loop, the connections it serves and the counter Close waits for.  The   *)
(* two classes are the same up to RunConnection.                           *)
(*                                                                         *)
(* Everything runs on one executor: a step is what happens between two     *)
(* suspensions.  The owners are the coroutines that call Open and Close;   *)
(* an owner makes one call at a time.                                      *)
(*                                                                         *)
(* Abstractions.  What a request asks for is left to ServerRuntime and     *)
(* SecureConversation; here it only runs for some time.  A transport is    *)
(* its connection's stage.  A gate is one AsyncCompletion, numbered by the *)
(* Open that made it, and so is the accept loop of that Open.  The         *)
(* acceptor and the transports are external: accept fails when it likes,   *)
(* by its result, and succeeds only while the acceptor listens; a          *)
(* transport reports an error or throws.                                   *)
(***************************************************************************)
EXTENDS Integers, FiniteSets

CONSTANTS Owners, Connections,
          Kinds,         \* the servers there are: "websocket", "binary"
          MaxOpens,      \* bound on the times a server is opened
          MaxHandlers,   \* bound on the requests of one connection at a time
          MaxSize        \* the largest std::size_t

ASSUME ListeningServerAssumption ==
    /\ IsFiniteSet(Connections)
    /\ MaxOpens \in Nat
    /\ MaxHandlers \in Nat
    /\ MaxSize \in Nat
    /\ Cardinality(Connections) < MaxSize

VARIABLES kind,
          opened, closing,
          active_tasks,
          tasks_closed,   \* the gate in place, 0 before the first Open
          completed,      \* the gates that are completed
          acceptor,       \* whether it listens
          call,           \* where each owner stands
          gate,           \* the gate an owner waits at
          loop,           \* where the accept loop of each Open stands
          stage,          \* where the task of each connection stands
          accepted_by,    \* the accept loop that took the connection
          handlers        \* the requests of a connection that are running

gate_vars == <<active_tasks, completed>>
server_state == <<opened, closing, tasks_closed>>
owner_vars == <<acceptor, call, gate>>
connection_vars == <<stage, accepted_by, handlers>>
listener_vars == <<kind, gate_vars, server_state, owner_vars, loop,
                   connection_vars>>

Opens == 1..MaxOpens
LoopStages == {"none", "spawned", "accepting", "accepted", "failed", "finished"}
Stages == {"absent", "arrived", "spawned", "reading", "faulting", "draining",
           "leaving", "done", "unwound", "lost"}

(***************************************************************************)
(* The task counter.                                                       *)
(***************************************************************************)
TaskStarted(n) == IF n = MaxSize THEN 0 ELSE n + 1

\* The decrement of an unsigned counter.
OneLess(n) == IF n = 0 THEN MaxSize ELSE n - 1

\* AsyncCompletion::Finish, unless the gate is completed: it lets through
\* everybody who waits at it and everybody who comes later.
Finish(g) == completed' = completed \cup {g}

\* The last task of a server that closes opens the gate for everybody who
\* waits there.
TaskFinished(n) ==
    /\ active_tasks' = OneLess(n)
    /\ IF closing /\ OneLess(n) = 0 /\ tasks_closed # 0
       THEN Finish(tasks_closed)
       ELSE UNCHANGED completed

(***************************************************************************)
(* Open and Close.                                                         *)
(***************************************************************************)
Idle(o) == call[o] \in {"away", "closed"}

Goes(o, where) == call' = [call EXCEPT ![o] = where]

CallOpen(o) ==
    /\ Idle(o)
    /\ Goes(o, IF opened THEN "away" ELSE "opening")
    /\ UNCHANGED <<kind, gate_vars, server_state, acceptor, gate, loop,
                   connection_vars>>

OpenFails(o) ==
    /\ call[o] = "opening"
    /\ Goes(o, "away")
    /\ UNCHANGED <<kind, gate_vars, server_state, acceptor, gate, loop,
                   connection_vars>>

\* acceptor.open() succeeded.  Nothing looks at opened_ again, or at the tasks
\* of an earlier Open.  (An acceptor that listens refuses to be opened.)
OpenDone(o) ==
    /\ call[o] = "opening"
    /\ acceptor = "closed"
    /\ tasks_closed < MaxOpens
    /\ acceptor' = "listening"
    /\ opened' = TRUE
    /\ closing' = FALSE
    /\ tasks_closed' = tasks_closed + 1
    /\ active_tasks' = TaskStarted(0)
    /\ loop' = [loop EXCEPT ![tasks_closed + 1] = "spawned"]
    /\ Goes(o, "away")
    /\ UNCHANGED <<kind, completed, gate, connection_vars>>

CallClose(o) ==
    /\ Idle(o)
    /\ IF opened
       THEN /\ opened' = FALSE
            /\ closing' = TRUE
            /\ Goes(o, "closing")
       ELSE Goes(o, "closed") /\ UNCHANGED <<opened, closing>>
    /\ UNCHANGED <<kind, gate_vars, tasks_closed, acceptor, gate, loop,
                   connection_vars>>

\* Defect: Close returns with the acceptor's answer.
CloseResumesAtOnce(o) ==
    /\ call[o] = "closing"
    /\ acceptor' = "closed"
    /\ Goes(o, "closed")
    /\ UNCHANGED <<kind, gate_vars, server_state, gate, loop, connection_vars>>

\* acceptor.close() is done; the owner returns or goes to the gate.
CloseResumes(o) ==
    /\ call[o] = "closing"
    /\ acceptor' = "closed"
    /\ IF active_tasks # 0 /\ tasks_closed # 0
       THEN Goes(o, "waiting") /\ gate' = [gate EXCEPT ![o] = tasks_closed]
       ELSE Goes(o, "closed") /\ UNCHANGED gate
    /\ UNCHANGED <<kind, gate_vars, server_state, loop, connection_vars>>

\* AsyncCompletion::Wait is over.
WaitReturns(o) ==
    /\ call[o] = "waiting"
    /\ gate[o] \in completed
    /\ Goes(o, "closed")
    /\ UNCHANGED <<kind, gate_vars, server_state, acceptor, gate, loop,
                   connection_vars>>

(***************************************************************************)
(* The accept loop.                                                        *)
(***************************************************************************)
LoopGoes(g, where) == loop' = [loop EXCEPT ![g] = where]

LoopStarts(g) ==
    /\ loop[g] = "spawned"
    /\ IF opened
       THEN LoopGoes(g, "accepting") /\ UNCHANGED gate_vars
       ELSE LoopGoes(g, "finished") /\ TaskFinished(active_tasks)
    /\ UNCHANGED <<kind, server_state, owner_vars, connection_vars>>

AcceptSucceeds(g, c) ==
    /\ loop[g] = "accepting"
    /\ acceptor = "listening"
    /\ stage[c] = "absent"
    /\ LoopGoes(g, "accepted")
    /\ stage' = [stage EXCEPT ![c] = "arrived"]
    /\ accepted_by' = [accepted_by EXCEPT ![c] = g]
    /\ UNCHANGED <<kind, gate_vars, server_state, owner_vars, handlers>>

\* Defect: the loop accepts again whatever the failure was.
AcceptFailsAgain(g) ==
    /\ loop[g] = "accepting"
    /\ LoopGoes(g, "accepting")
    /\ UNCHANGED <<kind, gate_vars, server_state, owner_vars, connection_vars>>

AcceptFails(g) ==
    /\ loop[g] = "accepting"
    /\ LoopGoes(g, "failed")
    /\ UNCHANGED <<kind, gate_vars, server_state, owner_vars, connection_vars>>

\* Defect: the loop goes on whether the server is open or not.
LoopServesForever(g, c) ==
    /\ loop[g] = "accepted"
    /\ stage[c] = "arrived"
    /\ accepted_by[c] = g
    /\ stage' = [stage EXCEPT ![c] = "spawned"]
    /\ LoopGoes(g, "accepting")
    /\ active_tasks' = TaskStarted(active_tasks)
    /\ UNCHANGED <<kind, completed, server_state, owner_vars, accepted_by,
                   handlers>>

\* accept() gave a transport: its task is spawned whatever happened to the
\* server meanwhile, and only then is opened_ looked at again.
LoopServes(g, c) ==
    /\ loop[g] = "accepted"
    /\ stage[c] = "arrived"
    /\ accepted_by[c] = g
    /\ stage' = [stage EXCEPT ![c] = "spawned"]
    /\ IF opened
       THEN /\ LoopGoes(g, "accepting")
            /\ active_tasks' = TaskStarted(active_tasks)
            /\ UNCHANGED completed
       ELSE LoopGoes(g, "finished") /\ TaskFinished(TaskStarted(active_tasks))
    /\ UNCHANGED <<kind, server_state, owner_vars, accepted_by, handlers>>

\* accept() failed: the loop ends, and opened_ stays as it is.
LoopEnds(g) ==
    /\ loop[g] = "failed"
    /\ LoopGoes(g, "finished")
    /\ TaskFinished(active_tasks)
    /\ UNCHANGED <<kind, server_state, owner_vars, connection_vars>>

(***************************************************************************)
(* The connections.                                                        *)
(***************************************************************************)
StageGoes(c, where) ==
    /\ stage' = [stage EXCEPT ![c] = where]
    /\ UNCHANGED <<kind, server_state, owner_vars, loop, accepted_by>>

\* The transport was opened, well or not; the connection reads.
ConnectionStarts(c) ==
    /\ stage[c] = "spawned"
    /\ StageGoes(c, "reading")
    /\ UNCHANGED <<gate_vars, handlers>>

\* A request was read: a coroutine of its own handles it and the connection
\* reads on.  The binary connection counts it in pending_service_frames_.
StartRequest(c) ==
    /\ stage[c] = "reading"
    /\ handlers[c] < MaxHandlers
    /\ handlers' = [handlers EXCEPT ![c] = @ + 1]
    /\ UNCHANGED <<kind, gate_vars, server_state, owner_vars, loop, stage,
                   accepted_by>>

\* The handler wrote its response, or gave up.
FinishRequest(c) ==
    /\ handlers[c] > 0
    /\ handlers' = [handlers EXCEPT ![c] = @ - 1]
    /\ UNCHANGED <<kind, gate_vars, server_state, owner_vars, loop, stage,
                   accepted_by>>

\* What was read cannot be decoded, and the connection writes a fault.
WriteFault(c) ==
    /\ stage[c] = "reading"
    /\ StageGoes(c, "faulting")
    /\ UNCHANGED <<gate_vars, handlers>>

\* WebSocket: the connection reads on.
FaultWritten(c) ==
    /\ kind = "websocket"
    /\ stage[c] = "faulting"
    /\ StageGoes(c, "reading")
    /\ UNCHANGED <<gate_vars, handlers>>

\* WebSocket: the read failed, the fault was too large or could not be
\* written.  The connection is detached and its transport is being closed;
\* requests that run are not waited for.
WebSocketLeaves(c) ==
    /\ kind = "websocket"
    /\ stage[c] \in {"reading", "faulting"}
    /\ StageGoes(c, "leaving")
    /\ UNCHANGED <<gate_vars, handlers>>

\* Binary: the read failed or an error was written; WaitForServiceFrames.
BinaryLeaves(c) ==
    /\ kind = "binary"
    /\ stage[c] \in {"reading", "faulting"}
    /\ StageGoes(c, "draining")
    /\ UNCHANGED <<gate_vars, handlers>>

\* Binary: no service frame is pending; the transport is being closed.
FramesDrained(c) ==
    /\ stage[c] = "draining"
    /\ handlers[c] = 0
    /\ StageGoes(c, "leaving")
    /\ UNCHANGED <<gate_vars, handlers>>

\* The transport is closed and the task of the connection is over.
ConnectionEnds(c) ==
    /\ stage[c] = "leaving"
    /\ StageGoes(c, "done")
    /\ TaskFinished(active_tasks)
    /\ UNCHANGED handlers

\* Defect: the exception skips TaskFinished.
RunThrowsOut(c) ==
    /\ kind = "binary"
    /\ stage[c] \in {"spawned", "reading", "faulting", "leaving"}
    /\ StageGoes(c, "unwound")
    /\ UNCHANGED <<gate_vars, handlers>>

\* Binary: TcpConnection::Run threw.  RunConnection catches it, and whatever
\* still runs for the connection is not waited for.
RunThrows(c) ==
    /\ kind = "binary"
    /\ stage[c] \in {"spawned", "reading", "faulting", "leaving"}
    /\ StageGoes(c, "unwound")
    /\ TaskFinished(active_tasks)
    /\ UNCHANGED handlers

\* WebSocket: the transport threw.  Neither RunConnection nor the task around
\* it catches that, and detached drops it: TaskFinished is skipped, the
\* connection is not detached, and its requests run on.
TaskThrows(c) ==
    /\ kind = "websocket"
    /\ stage[c] \in {"spawned", "reading", "faulting", "leaving"}
    /\ StageGoes(c, "lost")
    /\ UNCHANGED <<gate_vars, handlers>>

(***************************************************************************)
(* The specification.                                                      *)
(***************************************************************************)
ListenerInit ==
    /\ kind \in Kinds
    /\ opened = FALSE
    /\ closing = FALSE
    /\ active_tasks = 0
    /\ tasks_closed = 0
    /\ completed = {}
    /\ acceptor = "closed"
    /\ call = [o \in Owners |-> "away"]
    /\ gate = [o \in Owners |-> 0]
    /\ loop = [g \in Opens |-> "none"]
    /\ stage = [c \in Connections |-> "absent"]
    /\ accepted_by = [c \in Connections |-> 0]
    /\ handlers = [c \in Connections |-> 0]

Returns(o) == OpenFails(o) \/ OpenDone(o) \/ CloseResumes(o) \/ WaitReturns(o)

AcceptLoop(g) ==
    \/ LoopStarts(g)
    \/ AcceptFails(g)
    \/ LoopEnds(g)
    \/ \E c \in Connections : AcceptSucceeds(g, c) \/ LoopServes(g, c)

RunConnection(c) ==
    \/ ConnectionStarts(c)
    \/ FaultWritten(c)
    \/ FramesDrained(c)
    \/ ConnectionEnds(c)
    \/ WebSocketLeaves(c)
    \/ BinaryLeaves(c)
    \/ RunThrows(c)
    \/ TaskThrows(c)

ListenerNext ==
    \/ \E o \in Owners : CallOpen(o) \/ CallClose(o) \/ Returns(o)
    \/ \E g \in Opens : AcceptLoop(g)
    \/ \E c \in Connections : \/ RunConnection(c)
                              \/ WriteFault(c)
                              \/ StartRequest(c)
                              \/ FinishRequest(c)

ListenerSpec == ListenerInit /\ [][ListenerNext]_listener_vars

\* The executor resumes every coroutine that can go on, an accept ends once
\* its acceptor is closed, and a request is handled some time.  Nobody has to
\* call, to connect or to leave.
FairListenerSpec ==
    /\ ListenerSpec
    /\ \A o \in Owners : WF_listener_vars(CloseResumes(o) \/ WaitReturns(o))
    /\ \A g \in Opens :
          /\ WF_listener_vars(LoopStarts(g) \/ LoopEnds(g))
          /\ WF_listener_vars(\E c \in Connections : LoopServes(g, c))
          /\ WF_listener_vars(acceptor = "closed" /\ AcceptFails(g))
    /\ \A c \in Connections :
          /\ WF_listener_vars(ConnectionStarts(c) \/ FramesDrained(c)
                              \/ ConnectionEnds(c))
          /\ WF_listener_vars(FinishRequest(c))
          /\ WF_listener_vars(stage[c] = "faulting" /\ RunConnection(c))

(***************************************************************************)
(* Properties.                                                             *)
(***************************************************************************)
\* The accept loops and the connections' tasks that are under way, and the tasks
\* an exception took away; TaskStarted has counted all of them.
LiveLoops == {g \in Opens : loop[g] \in {"spawned", "accepting", "accepted", "failed"}}
Running == {c \in Connections :
              stage[c] \in {"spawned", "reading", "faulting", "draining", "leaving"}}
Lost == {c \in Connections : stage[c] = "lost"}
Counted == Running \cup Lost

\* The counter, the gates and the coroutines keep their shape.
ListenerTypeOK ==
    /\ kind \in Kinds
    /\ opened \in BOOLEAN /\ closing \in BOOLEAN
    /\ active_tasks \in 0..MaxSize
    /\ tasks_closed \in 0..MaxOpens
    /\ completed \subseteq Opens
    /\ acceptor \in {"closed", "listening"}
    /\ call \in [Owners -> {"away", "opening", "closing", "waiting", "closed"}]
    /\ gate \in [Owners -> 0..MaxOpens]
    /\ loop \in [Opens -> LoopStages]
    /\ stage \in [Connections -> Stages]
    /\ accepted_by \in [Connections -> 0..MaxOpens]
    /\ handlers \in [Connections -> 0..MaxHandlers]

\* With one owner active_tasks_ is the number of accept loops and connections
\* that are under way, over any number of times the server is closed and opened
\* again, and of the WebSocket connections that threw: those stay counted.
CountIsExact == active_tasks = Cardinality(LiveLoops) + Cardinality(Counted)

\* When Close has returned, nothing of the server runs but requests: those of
\* WebSocket connections, which nobody waits for, and those a binary
\* connection left behind when it was unwound.
CloseMeansQuiet ==
    \A o \in Owners : call[o] = "closed" =>
        /\ LiveLoops = {}
        /\ \A c \in Connections :
              /\ stage[c] \in {"absent", "done", "unwound"}
              /\ handlers[c] > 0 => kind = "websocket" \/ stage[c] = "unwound"

\* Whoever waits in Close waits at a gate that is completed or that the last
\* of the tasks still running will complete, unless a WebSocket task threw:
\* then nobody is left to complete it.
NoStrandedClose ==
    \A o \in Owners : call[o] = "waiting" /\ Lost = {} =>
        \/ gate[o] \in completed
        \/ closing /\ gate[o] = tasks_closed /\ LiveLoops \cup Running # {}

\* A connection that was accepted while Close began is still served, but it is
\* the last one: no accept loop is left that could bring another.
LastCall ==
    [][\A c \in Connections :
          stage[c] = "arrived" /\ stage'[c] = "spawned" /\ ~opened
          => \A g \in Opens : loop'[g] \in {"none", "finished"}]_listener_vars

\* A Close returns, provided that the peers leave and no WebSocket connection
\* is torn down by an exception.
CloseReturns ==
    <>[](\A c \in Connections : stage[c] # "reading") =>
        \A o \in Owners : call[o] = "closing" ~> (call[o] = "closed" \/ Lost # {})

\* What TaskFinished asserts: a task that is about to end is still counted.
AssertedCount ==
    (\/ \E g \in Opens : loop[g] = "failed"
     \/ \E c \in Connections : stage[c] = "leaving") => active_tasks # 0

\* TaskFinished and Close: the tasks are counted exactly, none ends uncounted,
\* and whoever waits for the count to reach zero will hear of it, but for the
\* tasks of WebSocket connections that threw.
TasksAccountedFor == CountIsExact /\ AssertedCount /\ NoStrandedClose

(***************************************************************************)
(* The inductive invariant behind these, for one owner.                    *)
(***************************************************************************)
OneOwner == \A o, p \in Owners : o = p

\* Nothing is accepted or served, and nothing will be before the next Open.
Quiet == /\ LiveLoops = {}
         /\ \A c \in Connections : stage[c] \in {"absent", "done", "unwound"}

\* Only the accept loop of the last Open is there, and what it accepted.
LoopInvariant ==
    /\ \A g \in Opens : /\ loop[g] = "none" <=> g > tasks_closed
                        /\ g < tasks_closed => loop[g] = "finished"
    /\ \A c \in Connections : stage[c] = "arrived" =>
          /\ accepted_by[c] = tasks_closed
          /\ tasks_closed # 0
          /\ loop[tasks_closed] = "accepted"
    /\ \A c, d \in Connections :
          stage[c] = "arrived" /\ stage[d] = "arrived" => c = d

\* A server that is not open is being closed by somebody, or quiet.
OwnerInvariant ==
    /\ opened => ~closing /\ tasks_closed # 0
    /\ \A g \in completed : g <= tasks_closed
    /\ tasks_closed \in completed => ~opened /\ Quiet
    /\ \A o \in Owners :
          /\ call[o] \in {"closing", "waiting"} => closing /\ tasks_closed # 0
          /\ call[o] \in {"opening", "closing", "waiting", "closed"} => ~opened
          /\ call[o] = "waiting" => /\ gate[o] = tasks_closed
                                    /\ tasks_closed \in completed \/ active_tasks # 0
          /\ ~opened /\ call[o] \notin {"closing", "waiting"} => Quiet

\* A binary connection that was not unwound leaves no request behind.
RequestInvariant ==
    \A c \in Connections :
        /\ stage[c] \in {"absent", "arrived", "spawned"} => handlers[c] = 0
        /\ kind # "websocket" /\ stage[c] \in {"leaving", "done"} => handlers[c] = 0

ListenerInvariant ==
    ListenerTypeOK /\ CountIsExact /\ LoopInvariant /\ OwnerInvariant /\ RequestInvariant
=============================================================================
