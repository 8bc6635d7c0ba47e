--------------------------- MODULE ModuleSession ---------------------------
(***************************************************************************)
(* Calls from Boss into a module runtime: module_ipc/client.rs (invoke),   *)
(* pending.rs (PendingRegistry), registry.rs (RuntimeRegistry) and the     *)
(* life of a runtime connection in server.rs (handle_client).              *)
(*                                                                         *)
(* One module is modelled, because both registries key what they hold by   *)
(* module. Its runtime may connect, leave and come back: every connection  *)
(* has a handler thread that reads and a writer thread that writes. Every  *)
(* call of invoke() runs on a thread of its own. An action is one critical *)
(* section of a registry, one channel operation or one frame.              *)
(***************************************************************************)
EXTENDS FiniteSets

CONSTANTS
    Connections,  \* accepted connections of the module's runtimes
    SessionIds,   \* session identifiers, chosen by the runtimes
    SessionOf,    \* the identifier each connection registers with
    Requests,     \* calls of invoke(); their identifiers are never reused
    Timed,        \* the calls that carry a timeout
    WriterMayFail,\* whether a write may fail before the handler sees the peer leave
    NoConnection, \* no runtime is registered
    NoSession     \* no pending entry

ASSUME SessionAssumption == SessionOf \in [Connections -> SessionIds]
ASSUME TimedAssumption == Timed \subseteq Requests
ASSUME WriterAssumption == WriterMayFail \in BOOLEAN
ASSUME NullAssumption == NoConnection \notin Connections /\ NoSession \notin SessionIds

VARIABLES
    runtime,    \* RuntimeRegistry.runtimes: the registered connection
    handler,    \* where each connection's handler thread stands
    slot,       \* the request whose response the handler is handing over
    failing,    \* requests fail_session removed and has yet to wake
    left,       \* why the handler stopped reading
    writer,     \* whether the writer thread runs
    queue,      \* Invoke messages the writer has not written
    delivered,  \* requests whose Invoke the runtime has read
    pending,    \* PendingRegistry: session expected to answer, per request
    invoker,    \* where each calling thread stands
    target,     \* the runtime snapshot the call took
    answer,     \* the call's one-place channel
    answeredBy  \* the connection whose handler answered the call (history)

registries == <<runtime, pending>>
threads == <<handler, slot, failing, left>>
transport == <<writer, queue, delivered>>
calls == <<invoker, target, answer, answeredBy>>
vars == <<registries, threads, transport, calls>>

HandlerStates == {"absent", "rejected", "acknowledging", "refusing", "serving", "delivering",
                  "leaving", "unregistered", "failing", "joining", "gone"}
Errors == {"no_runtime", "gone_before_send", "send_failed", "timed_out"}
Outcomes == Errors \cup {"response", "disconnected"}
InvokerStates == {"idle", "resolved", "registered", "checked", "waiting",
                  "timing_out"} \cup Outcomes

Init ==
    /\ runtime = NoConnection
    /\ handler = [c \in Connections |-> "absent"]
    /\ slot = [c \in Connections |-> {}]
    /\ failing = [c \in Connections |-> {}]
    /\ left = [c \in Connections |-> "no"]
    /\ writer = [c \in Connections |-> FALSE]
    /\ queue = [c \in Connections |-> {}]
    /\ delivered = [c \in Connections |-> {}]
    /\ pending = [r \in Requests |-> NoSession]
    /\ invoker = [r \in Requests |-> "idle"]
    /\ target = [r \in Requests |-> NoConnection]
    /\ answer = [r \in Requests |-> "none"]
    /\ answeredBy = [r \in Requests |-> NoConnection]

Returned(r) == invoker[r] \in Outcomes
----------------------------------------------------------------------------
(* The connection: handle_client().                                        *)

Reading(c) == handler[c] = "serving"

\* RuntimeRegistry::register admits a runtime only when none is registered. From
\* here on calls resolve it, and the writer thread writes what they send.
Register(c) ==
    /\ handler[c] = "absent"
    /\ IF runtime = NoConnection
       THEN /\ runtime' = c
            /\ handler' = [handler EXCEPT ![c] = "acknowledging"]
            /\ writer' = [writer EXCEPT ![c] = TRUE]
       ELSE /\ handler' = [handler EXCEPT ![c] = "rejected"]
            /\ UNCHANGED <<runtime, writer>>
    /\ UNCHANGED <<slot, failing, left, queue, delivered, pending, calls>>

\* Registered goes through the same channel: it is accepted while the writer
\* thread runs, which a call's Invoke that could not be written has ended.
Acknowledge(c) ==
    /\ handler[c] = "acknowledging"
    /\ IF writer[c]
       THEN /\ handler' = [handler EXCEPT ![c] = "serving"]
            /\ UNCHANGED left
       ELSE /\ handler' = [handler EXCEPT ![c] = "refusing"]
            /\ left' = [left EXCEPT ![c] = "unacknowledged"]
    /\ UNCHANGED <<registries, slot, failing, transport, calls>>

\* RuntimeRegistry::unregister removes the entry that has this session's name.
Unregistered(c) ==
    runtime' = IF runtime # NoConnection /\ SessionOf[runtime] = SessionOf[c]
               THEN NoConnection ELSE runtime

\* The handler unregisters the runtime it could not acknowledge and returns. No
\* request of the session is failed.
Refuse(c) ==
    /\ handler[c] = "refusing"
    /\ Unregistered(c)
    /\ handler' = [handler EXCEPT ![c] = "gone"]
    /\ UNCHANGED <<slot, failing, left, transport, pending, calls>>

Leave(c, why) ==
    /\ handler' = [handler EXCEPT ![c] = "leaving"]
    /\ left' = [left EXCEPT ![c] = why]

\* client_loop ends on EOF, Unregister or ShutdownAck, at the runtime's will.
PeerLeaves(c) ==
    /\ Reading(c)
    /\ Leave(c, "peer")
    /\ UNCHANGED <<registries, slot, failing, transport, calls>>

\* Fault: the session of a response is not compared with the request's.
ExpectedOfAny(c, r, sameEndpoint) == sameEndpoint

\* A response is accepted when it comes from the session the request waits for
\* and names the contract and the endpoint that were called.
Expected(c, r, sameEndpoint) == pending[r] = SessionOf[c] /\ sameEndpoint

\* The identifiers the module's runtimes know: those of the requests any of them
\* was given, on this connection or on an earlier one.
Known(r) == \E d \in Connections : r \in delivered[d]

\* client_loop reads a Response or an Error for a request: resolve_response and
\* resolve_error take the entry out of the registry, ignore a request that is
\* not pending any more, or fail on a mismatch.
ReadResponse(c, r, sameEndpoint) ==
    /\ Reading(c)
    /\ Known(r)
    /\ pending[r] # NoSession
    /\ IF Expected(c, r, sameEndpoint)
       THEN /\ pending' = [pending EXCEPT ![r] = NoSession]
            /\ handler' = [handler EXCEPT ![c] = "delivering"]
            /\ slot' = [slot EXCEPT ![c] = {r}]
            /\ UNCHANGED left
       ELSE /\ Leave(c, "mismatch")
            /\ UNCHANGED <<pending, slot>>
    /\ UNCHANGED <<runtime, failing, transport, calls>>

\* ... and send the message to the caller, outside the lock. A caller that
\* returned has dropped its receiver: the error ends client_loop.
DeliverResponse(c, r) ==
    /\ handler[c] = "delivering"
    /\ r \in slot[c]
    /\ slot' = [slot EXCEPT ![c] = {}]
    /\ IF Returned(r)
       THEN /\ Leave(c, "undeliverable")
            /\ UNCHANGED <<answer, answeredBy>>
       ELSE /\ handler' = [handler EXCEPT ![c] = "serving"]
            /\ answer' = [answer EXCEPT ![r] = "response"]
            /\ answeredBy' = [answeredBy EXCEPT ![r] = c]
            /\ UNCHANGED left
    /\ UNCHANGED <<registries, failing, transport, invoker, target>>

Unregister(c) ==
    /\ handler[c] = "leaving"
    /\ Unregistered(c)
    /\ handler' = [handler EXCEPT ![c] = "unregistered"]
    /\ UNCHANGED <<slot, failing, left, transport, pending, calls>>

\* PendingRegistry::fail_session takes every request of the session ...
FailSession(c) ==
    /\ handler[c] = "unregistered"
    /\ failing' = [failing EXCEPT ![c] = {r \in Requests : pending[r] = SessionOf[c]}]
    /\ pending' = [r \in Requests |-> IF pending[r] = SessionOf[c] THEN NoSession
                                      ELSE pending[r]]
    /\ handler' = [handler EXCEPT ![c] = "failing"]
    /\ UNCHANGED <<runtime, slot, left, transport, calls>>

\* ... and wakes them one by one, ignoring callers that already returned.
WakeFailed(c, r) ==
    /\ handler[c] = "failing"
    /\ r \in failing[c]
    /\ failing' = [failing EXCEPT ![c] = @ \ {r}]
    /\ IF Returned(r)
       THEN UNCHANGED <<answer, answeredBy>>
       ELSE /\ answer' = [answer EXCEPT ![r] = "disconnected"]
            /\ answeredBy' = [answeredBy EXCEPT ![r] = c]
    /\ UNCHANGED <<registries, handler, slot, left, transport, invoker, target>>

\* The handler drops its sender and joins the writer thread.
StartJoin(c) ==
    /\ handler[c] = "failing"
    /\ failing[c] = {}
    /\ handler' = [handler EXCEPT ![c] = "joining"]
    /\ UNCHANGED <<registries, slot, failing, left, transport, calls>>

\* A call keeps the writer's channel open as long as it holds its snapshot.
Holds(r, c) == target[r] = c /\ ~Returned(r)

Joined(c) ==
    /\ handler[c] = "joining"
    /\ ~writer[c]
    /\ handler' = [handler EXCEPT ![c] = "gone"]
    /\ UNCHANGED <<registries, slot, failing, left, transport, calls>>
----------------------------------------------------------------------------
(* The writer thread.                                                      *)

WriteInvoke(c, r) ==
    /\ writer[c]
    /\ r \in queue[c]
    /\ left[c] # "peer"
    /\ queue' = [queue EXCEPT ![c] = @ \ {r}]
    /\ delivered' = [delivered EXCEPT ![c] = @ \cup {r}]
    /\ UNCHANGED <<registries, threads, writer, calls>>

\* A frame cannot be written: the thread ends and drops what is queued, while
\* the handler keeps reading.
WriteFails(c) ==
    /\ writer[c]
    /\ queue[c] # {}
    /\ WriterMayFail \/ left[c] = "peer"
    /\ writer' = [writer EXCEPT ![c] = FALSE]
    /\ queue' = [queue EXCEPT ![c] = {}]
    /\ UNCHANGED <<registries, threads, delivered, calls>>

\* Every sender is gone: the handler's, the registry's and the callers'.
WriterEnds(c) ==
    /\ writer[c]
    /\ handler[c] = "joining"
    /\ runtime # c
    /\ queue[c] = {}
    /\ ~\E r \in Requests : Holds(r, c)
    /\ writer' = [writer EXCEPT ![c] = FALSE]
    /\ UNCHANGED <<registries, threads, queue, delivered, calls>>
----------------------------------------------------------------------------
(* The call: client::invoke().                                             *)

Return(r, outcome) == invoker' = [invoker EXCEPT ![r] = outcome]
Advance(r, from, to) == invoker[r] = from /\ invoker' = [invoker EXCEPT ![r] = to]
Cancel(r) == pending' = [pending EXCEPT ![r] = NoSession]

\* runtime_registry().get(module): a snapshot of the registered runtime.
Resolve(r) ==
    /\ invoker[r] = "idle"
    /\ IF runtime = NoConnection
       THEN Return(r, "no_runtime") /\ UNCHANGED target
       ELSE /\ Return(r, "resolved")
            /\ target' = [target EXCEPT ![r] = runtime]
    /\ UNCHANGED <<registries, threads, transport, answer, answeredBy>>

RegisterPending(r) ==
    /\ Advance(r, "resolved", "registered")
    /\ pending' = [pending EXCEPT ![r] = SessionOf[target[r]]]
    /\ UNCHANGED <<runtime, threads, transport, target, answer, answeredBy>>

\* Fault: the registration is not checked again.
StillRegisteredAssumed(r) == TRUE

StillRegistered(r) == runtime # NoConnection /\ SessionOf[runtime] = SessionOf[target[r]]

\* The second get() closes the race with a teardown in between.
Recheck(r) ==
    /\ invoker[r] = "registered"
    /\ IF StillRegistered(r)
       THEN Return(r, "checked") /\ UNCHANGED pending
       ELSE Return(r, "gone_before_send") /\ Cancel(r)
    /\ UNCHANGED <<runtime, threads, transport, target, answer, answeredBy>>

\* Fault: the call is resent, to whoever is registered, before it fails.
SendAgain(r) ==
    /\ invoker[r] = "checked"
    /\ queue' = [c \in Connections |->
                    IF c \in {target[r], runtime} /\ writer[c] THEN queue[c] \cup {r} ELSE queue[c]]
    /\ IF writer[target[r]]
       THEN Return(r, "waiting") /\ UNCHANGED pending
       ELSE Return(r, "send_failed") /\ Cancel(r)
    /\ UNCHANGED <<runtime, threads, writer, delivered, target, answer, answeredBy>>

Send(r) ==
    /\ invoker[r] = "checked"
    /\ IF writer[target[r]]
       THEN /\ Return(r, "waiting")
            /\ queue' = [queue EXCEPT ![target[r]] = @ \cup {r}]
            /\ UNCHANGED pending
       ELSE Return(r, "send_failed") /\ Cancel(r) /\ UNCHANGED queue
    /\ UNCHANGED <<runtime, threads, writer, delivered, target, answer, answeredBy>>

Receive(r) ==
    /\ invoker[r] = "waiting"
    /\ answer[r] # "none"
    /\ Return(r, answer[r])
    /\ UNCHANGED <<registries, threads, transport, target, answer, answeredBy>>

\* Fault: the clock is only watched while the writer thread runs.
TimeoutWhileWriting(r) ==
    /\ r \in Timed
    /\ answer[r] = "none"
    /\ Advance(r, "waiting", "timing_out")
    /\ writer[target[r]]
    /\ UNCHANGED <<registries, threads, transport, target, answer, answeredBy>>

\* recv_timeout gives up ...
Timeout(r) ==
    /\ r \in Timed
    /\ answer[r] = "none"
    /\ Advance(r, "waiting", "timing_out")
    /\ UNCHANGED <<registries, threads, transport, target, answer, answeredBy>>

\* ... and the call takes its entry back before it returns.
ReturnTimedOut(r) ==
    /\ Advance(r, "timing_out", "timed_out")
    /\ Cancel(r)
    /\ UNCHANGED <<runtime, threads, transport, target, answer, answeredBy>>
----------------------------------------------------------------------------
Handler(c) ==
    \/ Acknowledge(c)
    \/ Refuse(c)
    \/ Unregister(c)
    \/ FailSession(c)
    \/ StartJoin(c)
    \/ Joined(c)
    \/ \E r \in Requests : DeliverResponse(c, r) \/ WakeFailed(c, r)

Writer(c) == WriterEnds(c) \/ WriteFails(c) \/ \E r \in Requests : WriteInvoke(c, r)

Invoke(r) ==
    Resolve(r) \/ RegisterPending(r) \/ Recheck(r) \/ Send(r)
        \/ Receive(r) \/ Timeout(r) \/ ReturnTimedOut(r)

Next ==
    \/ \E c \in Connections :
          \/ Register(c)
          \/ PeerLeaves(c)
          \/ \E r \in Requests, sameEndpoint \in BOOLEAN : ReadResponse(c, r, sameEndpoint)
          \/ Handler(c)
          \/ Writer(c)
    \/ \E r \in Requests : Invoke(r)

Spec == Init /\ [][Next]_vars

\* Threads run, writers write, and the clock of a call with a timeout runs.
\* Nothing obliges a runtime to answer or to leave.
FairSpec ==
    /\ Spec
    /\ \A c \in Connections : WF_vars(Handler(c)) /\ WF_vars(Writer(c))
    /\ \A r \in Requests :
          WF_vars(RegisterPending(r) \/ Recheck(r) \/ Send(r)
                     \/ Receive(r) \/ Timeout(r) \/ ReturnTimedOut(r))
----------------------------------------------------------------------------
TypeOK ==
    /\ runtime \in Connections \cup {NoConnection}
    /\ handler \in [Connections -> HandlerStates]
    /\ slot \in [Connections -> SUBSET Requests]
    /\ failing \in [Connections -> SUBSET Requests]
    /\ left \in [Connections -> {"no", "unacknowledged", "peer", "mismatch", "undeliverable"}]
    /\ writer \in [Connections -> BOOLEAN]
    /\ queue \in [Connections -> SUBSET Requests]
    /\ delivered \in [Connections -> SUBSET Requests]
    /\ pending \in [Requests -> SessionIds \cup {NoSession}]
    /\ invoker \in [Requests -> InvokerStates]
    /\ target \in [Requests -> Connections \cup {NoConnection}]
    /\ answer \in [Requests -> {"none", "response", "disconnected"}]
    /\ answeredBy \in [Requests -> Connections \cup {NoConnection}]

\* The handler has yet to unregister its runtime.
Serving == {"acknowledging", "refusing", "serving", "delivering", "leaving"}

\* Somebody is responsible for every call that waits: its entry stands where a
\* handler of the called session will still look for it, or a handler holds it
\* and is about to answer. No teardown slips between the snapshot, the entry, the
\* second look and the send - except the one of a runtime that could not be
\* acknowledged, which looks for nothing.
WaiterIsOwned ==
    \A r \in Requests : invoker[r] \in {"checked", "waiting"} /\ answer[r] = "none" =>
        \/ /\ pending[r] = SessionOf[target[r]]
           /\ \E c \in Connections :
                  /\ SessionOf[c] = SessionOf[target[r]]
                  /\ handler[c] \in Serving \cup {"unregistered"} \/ left[c] = "unacknowledged"
        \/ \E c \in Connections : r \in slot[c] \cup failing[c]

\* "A later runtime for the same module must never inherit or cancel requests
\* belonging to an older session": a call is answered, or failed, only by the
\* handler of a connection of the session it was sent to, whoever else of the
\* module knows its identifier.
ExactIncarnation ==
    \A r \in Requests : answeredBy[r] # NoConnection =>
        target[r] # NoConnection /\ SessionOf[answeredBy[r]] = SessionOf[target[r]]

\* What the caller is told is what happened to the request: one reported as
\* not sent reaches no runtime, and no request reaches two.
OutcomeIsHonest ==
    \A r \in Requests :
        LET reached == {c \in Connections : r \in queue[c] \cup delivered[c]} IN
        /\ reached \subseteq {target[r]}
        /\ invoker[r] \in {"no_runtime", "gone_before_send", "send_failed"} => reached = {}
        /\ invoker[r] = "response" => r \in delivered[target[r]]

\* A call with a timeout returns, whatever the runtime and its handler do.
FiniteCalls ==
    \A r \in Timed : invoker[r] # "idle" ~> Returned(r)

\* "Wake every request already in flight for this exact session immediately":
\* without any timeout, a call returns once the reading handler of the runtime it
\* was sent to stops. (A handler that could not acknowledge its runtime never got
\* to read, and fails nobody: server.rs:878.)
DisconnectWakes ==
    \A r \in Requests, c \in Connections :
        target[r] = c /\ handler[c] = "leaving" ~> Returned(r)

\* "The caller may already have disappeared due to its own timeout. That is not
\* a registry failure": a caller's timeout does not end the runtime's session.
TimeoutSparesSession ==
    \A c \in Connections : left[c] # "undeliverable"
=============================================================================
