----------------------------- MODULE McpGateway -----------------------------
(***************************************************************************)
(* The operator's MCP gateway, which offers agents as tools, composed with *)
(* an agent pod that is both its server and its client.                    *)
(*                                                                         *)
(* A tool call becomes a task on the agent's queue, and the handler polls  *)
(* for its result.  External clients hold an SSE session and post their    *)
(* calls to it: the answer goes into the session's channel and from there  *)
(* to the stream.  The agents' MCP client (pkg/agent/mcp) posts to the     *)
(* REST endpoint and gives up after 30 s.  A pod whose tool is an agent    *)
(* waits in a slot for a task that needs a slot.                           *)
(***************************************************************************)
EXTENDS AgentPod, Sequences

CONSTANTS
    Calls,        \* requests that the gateway may come to serve
    Sessions,     \* SSE sessions that clients may come to open
    MaxSessions,  \* maxSSESessions
    ChanCap       \* capacity of a session's channel, 8 in the code

VARIABLES
    session,   \* per session: its state and its channel
    call       \* per request: where its handler is

gatewayVars == <<session, call>>
allVars == <<vars, gatewayVars>>

NoCall == [pc |-> "none", from |-> "none", task |-> Remote, gone |-> FALSE, due |-> FALSE]

Open == {x \in Sessions : session[x].st = "open"}

-----------------------------------------------------------------------------
(* handleSSE.                                                              *)

\* The semaphore refuses a session over the cap; otherwise the channel is
\* registered before the client learns where to post.
OpenSession(x) ==
    /\ world.clients /\ session[x].st = "none"
    /\ Cardinality(Open) < MaxSessions
    /\ session' = [session EXCEPT ![x].st = "open"]
    /\ UNCHANGED <<vars, call>>

\* The loop writes the next answer to the stream.
Forward(x) ==
    /\ session[x].st = "open" /\ session[x].chan # <<>>
    /\ session' = [session EXCEPT ![x].chan = Tail(@)]
    /\ UNCHANGED <<vars, call>>

\* The client disconnects: the session is deleted and its channel closed.
CloseSession(x) ==
    /\ session[x].st = "open"
    /\ session' = [session EXCEPT ![x].st = "closed", ![x].chan = <<>>]
    /\ UNCHANGED <<vars, call>>

-----------------------------------------------------------------------------
(* The requests.                                                           *)

\* handleMessage finds the session's channel.
Post(c, x) ==
    /\ call[c].pc = "none" /\ session[x].st = "open"
    /\ call' = [call EXCEPT ![c] = [NoCall EXCEPT !.pc = "serve", !.from = x]]
    /\ UNCHANGED <<vars, session>>

\* Manager.CallTool posts to tools/call.
CallPeer(s, c) ==
    /\ job[s].pc = "call" /\ job[s].tool = "peer" /\ call[c].pc = "none"
    /\ call' = [call EXCEPT ![c] = [NoCall EXCEPT !.pc = "serve", !.from = s]]
    /\ job' = [job EXCEPT ![s].pc = "peer"]
    /\ UNCHANGED <<world, task, shared, daily, faults, started, sent, session>>

\* The bound on Calls is reached: like a request that fails.
PeerRefused(s) ==
    /\ job[s].pc = "call" /\ job[s].tool = "peer"
    /\ \A c \in Calls : call[c].pc # "none"
    /\ Return(s, job[s], FALSE)
    /\ UNCHANGED <<world, task, gate, advised, daily, faults, started, sent, gatewayVars>>

\* initialize, ping, tools/list and unknown methods are answered at once, and so
\* is a call for an agent that is unknown, has no ready replica, does not expose
\* the tool, or whose queue does not take the task.
ServeAtOnce(c) ==
    /\ call[c].pc = "serve"
    /\ \/ call[c].from \in Sessions /\ UNCHANGED faults
       \/ Fault
    /\ call' = [call EXCEPT ![c].pc = "reply"]
    /\ UNCHANGED <<world, task, job, shared, daily, started, sent, session>>

\* handleToolsCall submits the task.
Serve(c, t) ==
    /\ call[c].pc = "serve"
    /\ Submit(t, 0)
    /\ call' = [call EXCEPT ![c].pc = "poll", ![c].task = t]
    /\ UNCHANGED <<world, job, shared, daily, faults, started, sent, session>>

\* The handler stops polling with the result, at the agent's timeout, or when
\* the request was cancelled.
PollStops(c) == call[c].task \in Answered \/ call[c].due \/ call[c].gone

StopPolling(c) ==
    /\ call[c].pc = "poll" /\ PollStops(c)
    /\ call' = [call EXCEPT ![c].pc = "reply"]
    /\ UNCHANGED <<vars, session>>

CallDue(c) ==
    /\ call[c].pc = "poll" /\ ~call[c].due
    /\ call' = [call EXCEPT ![c].due = TRUE]
    /\ UNCHANGED <<vars, session>>

\* The channel takes the answer, or drops it when it is full.
Enqueue(x, c) ==
    session' = [session EXCEPT ![x].chan =
                  IF Len(@) < ChanCap THEN Append(@, c) ELSE @]

\* Mutant: without the default the send waits for room and for a reader.
ReplyBlocks(c) ==
    /\ call[c].pc = "reply" /\ call[c].from \in Sessions
    /\ session[call[c].from].st = "open" /\ Len(session[call[c].from].chan) < ChanCap
    /\ Enqueue(call[c].from, c)
    /\ call' = [call EXCEPT ![c].pc = "done"]
    /\ UNCHANGED vars

\* A send on the channel of a session that was closed meanwhile panics, in a
\* select with a default too; the HTTP server recovers the handler's panic.
ReplySession(c) ==
    /\ call[c].pc = "reply" /\ call[c].from \in Sessions
    /\ IF session[call[c].from].st = "open"
       THEN /\ Enqueue(call[c].from, c)
            /\ call' = [call EXCEPT ![c].pc = "done"]
       ELSE /\ call' = [call EXCEPT ![c].pc = "panic"]
            /\ UNCHANGED session
    /\ UNCHANGED vars

\* The REST response, of either status, or nothing when the client is gone.
ReplyRest(c) ==
    /\ call[c].pc = "reply" /\ call[c].from \in Slots
    /\ call' = [call EXCEPT ![c].pc = "done"]
    /\ UNCHANGED <<vars, session>>

\* Manager.CallTool reads the body and not the status: the gateway's errors too
\* are results, and successes to the breaker.
PeerReturns(s, c) ==
    /\ job[s].pc = "peer" /\ call[c].from = s /\ call[c].pc = "done" /\ ~call[c].gone
    /\ Return(s, job[s], TRUE)
    /\ call' = [call EXCEPT ![c].gone = TRUE]
    /\ UNCHANGED <<world, task, gate, advised, daily, faults, started, sent, session>>

\* The client's 30 s or the task's deadline end first; the handler's context is
\* cancelled, and the task stays on the queue.
PeerTimesOut(s, c) ==
    /\ job[s].pc = "peer" /\ call[c].from = s /\ ~call[c].gone
    /\ Return(s, job[s], FALSE)
    /\ call' = [call EXCEPT ![c].gone = TRUE]
    /\ UNCHANGED <<world, task, gate, advised, daily, faults, started, sent, session>>

-----------------------------------------------------------------------------
GatewayInit ==
    /\ Init
    /\ session = [x \in Sessions |-> [st |-> "none", chan |-> <<>>]]
    /\ call = [c \in Calls |-> NoCall]

Handle(c) ==
    \/ ServeAtOnce(c)
    \/ \E t \in Tasks : Serve(c, t)
    \/ StopPolling(c)
    \/ ReplySession(c)
    \/ ReplyRest(c)

Peer(s) ==
    \/ \E c \in Calls : CallPeer(s, c) \/ PeerReturns(s, c) \/ PeerTimesOut(s, c)
    \/ PeerRefused(s)

Clients ==
    \E x \in Sessions : OpenSession(x) \/ CloseSession(x) \/ \E c \in Calls : Post(c, x)

GatewayNext ==
    \/ Next /\ UNCHANGED gatewayVars
    \/ \E s \in Slots : Peer(s)
    \/ \E c \in Calls : Handle(c) \/ CallDue(c)
    \/ \E x \in Sessions : Forward(x)
    \/ Clients

GatewaySpec == GatewayInit /\ [][GatewayNext]_allVars

\* What the pod and the gateway do by themselves, the timers of the waits
\* included; clients, cooldowns, days and task timeouts are not among it.
Progress ==
    \/ \E s \in Slots : (Step(s) \/ DeadlinePasses(s)) /\ UNCHANGED gatewayVars
    \/ \E s \in Slots : Peer(s)
    \/ \E c \in Calls : Handle(c) \/ CallDue(c)
    \/ \E x \in Sessions : Forward(x)

\* While a goroutine can run, one does.
FairGatewaySpec == GatewaySpec /\ WF_allVars(Progress)

-----------------------------------------------------------------------------
(* Properties.                                                             *)

\* Every request that the gateway takes is answered and its handler ends (there
\* comes a time, again and again, when the gateway has nothing to do),
\* although the client may disconnect, the channel may be full, and the pods
\* may all be waiting for calls of their own (handleMessage, handleToolsCall).
CallsEnd == []<>(\A c \in Calls : call[c].pc \in {"none", "done", "panic"})

\* Pods and gateway, which wait for one another, both get through their work.
PodAndGatewayProgress == TasksEnd /\ CallsEnd
=============================================================================
