--------------------------- MODULE NotificationHub ---------------------------
(***************************************************************************)
(* A desktop notification from the module that asks for it to the user and *)
(* back: the presentation transaction and ownership registry of Boss       *)
(* (notifications.rs), the presenter process of the desktop user and its   *)
(* per-notification return streams (notification_presenter.rs), and the    *)
(* routing of what the user did to the owning session (module_ipc).        *)
(*                                                                         *)
(* Every presentation opens a stream of its own to the presenter, so a     *)
(* stream and the presentation it carries have the same number.            *)
(***************************************************************************)
EXTENDS Naturals, Sequences, SequencesExt, Functions

CONSTANTS
    ModuleSessions, \* module sessions, each a connection's thread of Boss
    Boss,           \* Boss itself, which also shows notifications
    None,           \* no owner
    Ids,            \* ids the notification server gives out, never 0
    MaxShown,       \* presentations in a behaviour
    Limit           \* SIGNAL_BUFFER_LIMIT

ASSUME HubAssumption ==
    /\ Ids \subseteq Nat \ {0}
    /\ MaxShown \in Nat
    /\ Limit \in Nat \ {0}
    /\ Boss # None /\ {Boss, None} \cap ModuleSessions = {}

VARIABLES
    live,           \* the sessions whose connection is served
    owner,          \* NOTIFICATION_OWNERSHIP
    work,           \* the presentation that holds NOTIFICATION_PRESENTATION_GATE
    pending,        \* ROOT_PENDING: the stream kept until activation
    reader,         \* Boss's thread of each stream
    stream,         \* each stream: open, an Activate on its way, frames for Boss
    endpoint,       \* the presenter's return endpoint of each id
    unmatched,      \* signals of ids the presenter has no endpoint for
    late,           \* presentations Boss gave up that the presenter still serves
    signals,        \* signals of the notification server not yet read
    screen,         \* the presentation each id shows, 0 for none
    shows,          \* each presentation so far: by whom, under which id
    raised,         \* what the user did to each presentation, in order
    delivered,      \* what its session was sent of it, in order
    spoiled         \* ids a failed presentation, a restart or a full buffer touched

hubVars == <<live, owner, work, pending, reader, stream, endpoint, unmatched, late,
          signals, screen, shows, raised, delivered, spoiled>>

Shows == 1 .. MaxShown
Owners == ModuleSessions \cup {Boss}
NoWork == [pc |-> "free"]
NoEndpoint == [stream |-> 0, active |-> FALSE, staged |-> <<>>]
NewStream == [open |-> TRUE, activate |-> FALSE, frames |-> <<>>]
Event(k, kind) == [id |-> shows[k].id, of |-> k, kind |-> kind]
Terminal(e) == e.kind = "closed"

\* The events whose id is one of ids, in their order.
Kept(events, ids) ==
    LET kept[n \in 0 .. Len(events)] ==
            IF n = 0 THEN <<>>
            ELSE IF events[n].id \in ids THEN Append(kept[n - 1], events[n])
            ELSE kept[n - 1]
    IN  kept[Len(events)]

ForId(events, id) == Kept(events, {id})
NotForId(events, id) == Kept(events, Ids \ {id})

\* The streams in ks are shut down; what was written before stays readable.
Shut(s, ks) == [k \in Shows |-> IF k \in ks THEN [s[k] EXCEPT !.open = FALSE] ELSE s[k]]

-----------------------------------------------------------------------------
(* Boss: present_owned_for_module, emit *)

\* validate_module_replace: a module replaces its session's own notifications.
MayReplace(s, id) == s # Boss /\ owner[id] = s

\* A session, or Boss, takes the gate; what it replaces must be its own.
BeginPresent(s, replace) ==
    /\ work = NoWork
    /\ Len(shows) < MaxShown
    /\ s \in live \cup {Boss}
    /\ replace # 0 => MayReplace(s, replace)
    /\ shows' = Append(shows, [by |-> s, id |-> 0, replace |-> replace, done |-> FALSE])
    /\ stream' = [stream EXCEPT ![Len(shows) + 1] = NewStream]
    /\ work' = [pc |-> "notify", show |-> Len(shows) + 1, previous |-> None]
    /\ UNCHANGED <<live, owner, pending, reader, endpoint, unmatched, late, signals,
                   screen, raised, delivered, spoiled>>

Presenting(pc) == work.pc = pc
Show == shows[work.show]

\* Every error return after the stream was opened drops it and the gate.
Abandon ==
    /\ work' = NoWork
    /\ stream' = Shut(stream, {work.show})
    /\ spoiled' = spoiled \cup {Show.id}

\* The presenter, or the notification server, answers with a failure.
PresentFails ==
    /\ Presenting("notify")
    /\ Abandon
    /\ UNCHANGED <<live, owner, pending, reader, endpoint, unmatched, late, signals,
                   screen, shows, raised, delivered>>

\* Twenty seconds without an acknowledgement; the presenter goes on alone.
PresentTimesOut ==
    /\ Presenting("endpoint")
    /\ Abandon
    /\ late' = late \cup {work.show}
    /\ UNCHANGED <<live, owner, pending, reader, endpoint, unmatched, signals, screen,
                   shows, raised, delivered>>

\* The acknowledgement is read: the stream waits for activation and the
\* notification is registered, unless another owner has its id.
Register ==
    /\ Presenting("register")
    /\ LET id == Show.id
           replaced == pending[id]
       IN  IF owner[id] \in {None, Show.by}
           THEN /\ pending' = [pending EXCEPT ![id] = work.show]
                /\ stream' = Shut(stream, {replaced})
                /\ owner' = [owner EXCEPT ![id] = Show.by]
                /\ work' = [work EXCEPT !.pc = "activate", !.previous = owner[id]]
                /\ UNCHANGED spoiled
           ELSE /\ pending' = [pending EXCEPT ![id] = 0]
                /\ stream' = Shut(stream, {replaced, work.show})
                /\ work' = NoWork
                /\ spoiled' = spoiled \cup {id}
                /\ UNCHANGED owner
    /\ UNCHANGED <<live, reader, endpoint, unmatched, late, signals, screen, shows, raised,
                   delivered>>

\* activate: the presenter is told to release what it staged and a thread of
\* Boss reads the stream from now on.
Activate ==
    /\ Presenting("activate")
    /\ stream[work.show].open
    /\ pending' = [pending EXCEPT ![Show.id] = 0]
    /\ stream' = [stream EXCEPT ![work.show].activate = TRUE]
    /\ reader' = [reader EXCEPT ![work.show] = "reading"]
    /\ work' = [work EXCEPT !.pc = "settle"]
    /\ UNCHANGED <<live, owner, endpoint, unmatched, late, signals, screen, shows, raised,
                   delivered, spoiled>>

\* activate fails (the stream broke, no thread): a new owner is unregistered.
ActivateFails ==
    /\ Presenting("activate")
    /\ pending' = [pending EXCEPT ![Show.id] = 0]
    /\ owner' = IF work.previous = None THEN [owner EXCEPT ![Show.id] = None] ELSE owner
    /\ Abandon
    /\ UNCHANGED <<live, reader, endpoint, unmatched, late, signals, screen, shows, raised,
                   delivered>>

\* The replaced notification is no longer owned if the new one has another id.
Settle ==
    /\ Presenting("settle")
    /\ owner' = IF Show.replace \notin {0, Show.id}
                THEN [owner EXCEPT ![Show.replace] = None] ELSE owner
    /\ shows' = [shows EXCEPT ![work.show].done = TRUE]
    /\ work' = NoWork
    /\ UNCHANGED <<live, pending, reader, stream, endpoint, unmatched, late, signals, screen,
                   raised, delivered, spoiled>>

-----------------------------------------------------------------------------
(* Boss: the reading thread of a stream and route_notification_return_event *)

Send(e) ==
    IF owner[e.id] \in live
    THEN [delivered EXCEPT ![e.of] = Append(@, <<owner[e.id], e.kind>>)]
    ELSE delivered

\* A thread that forwards every frame and releases nothing.
RouteOnly(k) ==
    /\ reader[k] = "reading"
    /\ stream[k].frames # <<>>
    /\ delivered' = Send(Head(stream[k].frames))
    /\ stream' = [stream EXCEPT ![k].frames = Tail(@)]
    /\ UNCHANGED <<live, owner, work, pending, reader, endpoint, unmatched, late, signals,
                   screen, shows, raised, spoiled>>

\* The thread routes a frame; a terminal one is followed by the release.
Route(k) ==
    /\ reader[k] = "reading"
    /\ stream[k].frames # <<>>
    /\ LET e == Head(stream[k].frames)
       IN  /\ delivered' = Send(e)
           /\ reader' = [reader EXCEPT ![k] = IF ~Terminal(e) THEN "reading"
                            ELSE IF owner[e.id] = None THEN "ended" ELSE "release"]
           /\ stream' = [stream EXCEPT ![k].frames = Tail(@),
                            ![k].open = @ /\ (Terminal(e) => owner[e.id] # None)]
    /\ UNCHANGED <<live, owner, work, pending, endpoint, unmatched, late, signals, screen,
                   shows, raised, spoiled>>

\* release_owner removes whatever the id's entry is by now.
Release(k) ==
    /\ reader[k] = "release"
    /\ owner' = [owner EXCEPT ![shows[k].id] = None]
    /\ reader' = [reader EXCEPT ![k] = "ended"]
    /\ stream' = Shut(stream, {k})
    /\ UNCHANGED <<live, work, pending, endpoint, unmatched, late, signals, screen, shows,
                   raised, delivered, spoiled>>

\* The stream is closed and read to its end.
ReaderEnds(k) ==
    /\ reader[k] = "reading"
    /\ ~stream[k].open
    /\ stream[k].frames = <<>>
    /\ reader' = [reader EXCEPT ![k] = "ended"]
    /\ UNCHANGED <<live, owner, work, pending, stream, endpoint, unmatched, late, signals,
                   screen, shows, raised, delivered, spoiled>>

\* A session's connection ends: its thread, which is not presenting, releases
\* every notification of the session.
SessionEnds(s) ==
    /\ s \in live
    /\ work # NoWork => Show.by # s
    /\ live' = live \ {s}
    /\ owner' = [id \in Ids |-> IF owner[id] = s THEN None ELSE owner[id]]
    /\ UNCHANGED <<work, pending, reader, stream, endpoint, unmatched, late, signals, screen,
                   shows, raised, delivered, spoiled>>

-----------------------------------------------------------------------------
(* The presenter *)

\* physical_notify_for_presenter: the server shows it under the replaced id or,
\* when what had that id is closed or there was none, under one it never gave out.
Notify ==
    /\ Presenting("notify")
    /\ \E id \in Ids :
          /\ \/ id = Show.replace
             \/ /\ \A i \in DOMAIN shows : shows[i].id # id
                /\ Show.replace # 0 => screen[Show.replace] = 0
          /\ shows' = [shows EXCEPT ![work.show].id = id]
          /\ screen' = [screen EXCEPT ![id] = work.show]
    /\ work' = [work EXCEPT !.pc = "endpoint"]
    /\ UNCHANGED <<live, owner, pending, reader, stream, endpoint, unmatched, late, signals,
                   raised, delivered, spoiled>>

\* An endpoint that leaves the signals that came first where they are.
InstallEndpointByCopy(k) ==
    LET id == shows[k].id
    IN  /\ endpoint' = [endpoint EXCEPT ![id] =
              [stream |-> k, active |-> FALSE, staged |-> ForId(unmatched, id)]]
        /\ unmatched' = unmatched
        /\ stream' = Shut(stream, {endpoint[id].stream})

\* An endpoint that forgets the signals it came too late for.
InstallEmptyEndpoint(k) ==
    LET id == shows[k].id
    IN  /\ endpoint' = [endpoint EXCEPT ![id] =
              [stream |-> k, active |-> FALSE, staged |-> <<>>]]
        /\ unmatched' = unmatched
        /\ stream' = Shut(stream, {endpoint[id].stream})

\* accept_client installs the endpoint of presentation k, inactive, with the
\* signals that came first, and shuts the stream of the one it replaces.
InstallEndpoint(k) ==
    LET id == shows[k].id
    IN  /\ endpoint' = [endpoint EXCEPT ![id] =
              [stream |-> k, active |-> FALSE, staged |-> ForId(unmatched, id)]]
        /\ unmatched' = NotForId(unmatched, id)
        /\ stream' = Shut(stream, {endpoint[id].stream})

Acknowledge ==
    /\ Presenting("endpoint")
    /\ InstallEndpoint(work.show)
    /\ work' = [work EXCEPT !.pc = "register"]
    /\ UNCHANGED <<live, owner, pending, reader, late, signals, screen, shows, raised,
                   delivered, spoiled>>

LateEndpoint(k) ==
    /\ k \in late
    /\ late' = late \ {k}
    /\ InstallEndpoint(k)
    /\ UNCHANGED <<live, owner, work, pending, reader, signals, screen, shows, raised,
                   delivered, spoiled>>

\* Frames written to a stream Boss no longer reads are lost.
Written(k, events) ==
    IF stream[k].open THEN [stream EXCEPT ![k].frames = @ \o events] ELSE stream

\* forward_signal: to the endpoint's stream, or staged until it is activated,
\* or kept for an endpoint that may come.
ForwardSignal ==
    /\ signals # <<>>
    /\ signals' = Tail(signals)
    /\ LET e == Head(signals)
           end == endpoint[e.id]
       IN  \/ /\ end.stream = 0
              /\ IF Len(unmatched) < Limit
                 THEN unmatched' = Append(unmatched, e) /\ UNCHANGED spoiled
                 ELSE /\ unmatched' = Append(Tail(unmatched), e)
                      /\ spoiled' = spoiled \cup {Head(unmatched).id}
              /\ UNCHANGED <<endpoint, stream>>
           \/ /\ end.stream # 0 /\ ~end.active
              /\ IF Len(end.staged) < Limit
                 THEN endpoint' = [endpoint EXCEPT ![e.id].staged = Append(@, e)]
                      /\ UNCHANGED spoiled
                 ELSE spoiled' = spoiled \cup {e.id} /\ UNCHANGED endpoint
              /\ UNCHANGED <<unmatched, stream>>
           \/ /\ end.stream # 0 /\ end.active
              /\ endpoint' = IF Terminal(e) THEN [endpoint EXCEPT ![e.id] = NoEndpoint]
                             ELSE endpoint
              /\ stream' = IF Terminal(e) THEN Shut(Written(end.stream, <<e>>), {end.stream})
                           ELSE Written(end.stream, <<e>>)
              /\ UNCHANGED <<unmatched, spoiled>>
    /\ UNCHANGED <<live, owner, work, pending, reader, late, screen, shows, raised, delivered>>

\* The Activate frame of stream k: what was staged goes out in its order, if
\* the endpoint is still this stream's.
ReceiveActivate(k) ==
    /\ stream[k].activate
    /\ LET id == shows[k].id
           end == endpoint[id]
           closed == \E i \in DOMAIN end.staged : Terminal(end.staged[i])
           taken == [Written(k, end.staged) EXCEPT ![k].activate = FALSE]
       IN  IF end.stream = k
           THEN /\ endpoint' = [endpoint EXCEPT ![id] =
                      IF closed THEN NoEndpoint
                      ELSE [stream |-> k, active |-> TRUE, staged |-> <<>>]]
                /\ stream' = IF closed THEN Shut(taken, {k}) ELSE taken
           ELSE /\ stream' = [stream EXCEPT ![k].activate = FALSE]
                /\ UNCHANGED endpoint
    /\ UNCHANGED <<live, owner, work, pending, reader, unmatched, late, signals, screen, shows,
                   raised, delivered, spoiled>>

\* The presenter's connection thread forgets every endpoint of the id.
ForgetId(k) ==
    /\ k \in DOMAIN shows
    /\ ~stream[k].open
    /\ shows[k].id # 0 /\ endpoint[shows[k].id].stream # 0
    /\ endpoint' = [endpoint EXCEPT ![shows[k].id] = NoEndpoint]
    /\ UNCHANGED <<live, owner, work, pending, reader, stream, unmatched, late, signals, screen,
                   shows, raised, delivered, spoiled>>

\* The presenter's connection thread sees its stream end and removes the
\* endpoints that are its own (a read error leaves them).
ForgetStream(k) ==
    /\ k \in DOMAIN shows
    /\ ~stream[k].open
    /\ shows[k].id # 0 /\ endpoint[shows[k].id].stream = k
    /\ endpoint' = [endpoint EXCEPT ![shows[k].id] = NoEndpoint]
    /\ UNCHANGED <<live, owner, work, pending, reader, stream, unmatched, late, signals, screen,
                   shows, raised, delivered, spoiled>>

\* The presenter process ends, is restarted by its unit and knows nothing.
PresenterRestarts ==
    /\ spoiled # Ids \cup {0}
    /\ endpoint' = [id \in Ids |-> NoEndpoint]
    /\ unmatched' = <<>>
    /\ signals' = <<>>
    /\ late' = {}
    /\ stream' = [k \in Shows |-> [Shut(stream, Shows)[k] EXCEPT !.activate = FALSE]]
    /\ work' = IF work.pc \in {"notify", "endpoint"} THEN NoWork ELSE work
    /\ spoiled' = Ids \cup {0}
    /\ UNCHANGED <<live, owner, pending, reader, screen, shows, raised, delivered>>

-----------------------------------------------------------------------------
(* The user, before the notification server *)

Raise(k, kind) ==
    /\ raised' = [raised EXCEPT ![k] = Append(@, kind)]
    /\ signals' = Append(signals, Event(k, kind))
    /\ UNCHANGED <<live, owner, work, pending, reader, stream, endpoint, unmatched, late,
                   shows, delivered, spoiled>>

\* The user uses an action, or the inline reply, of the notification shown.
Act(id) ==
    /\ screen[id] # 0
    /\ raised[screen[id]] = <<>>
    /\ Raise(screen[id], "action")
    /\ UNCHANGED screen

\* The notification is dismissed, expires or is closed by the server.
Close(id) ==
    /\ screen[id] # 0
    /\ Raise(screen[id], "closed")
    /\ screen' = [screen EXCEPT ![id] = 0]

-----------------------------------------------------------------------------

HubInit ==
    /\ live = ModuleSessions
    /\ owner = [id \in Ids |-> None]
    /\ work = NoWork
    /\ pending = [id \in Ids |-> 0]
    /\ reader = [k \in Shows |-> "none"]
    /\ stream = [k \in Shows |-> [NewStream EXCEPT !.open = FALSE]]
    /\ endpoint = [id \in Ids |-> NoEndpoint]
    /\ unmatched = <<>>
    /\ late = {}
    /\ signals = <<>>
    /\ screen = [id \in Ids |-> 0]
    /\ shows = <<>>
    /\ raised = [k \in Shows |-> <<>>]
    /\ delivered = [k \in Shows |-> <<>>]
    /\ spoiled = {}

BossSteps ==
    \/ PresentFails \/ PresentTimesOut \/ Register \/ Activate \/ ActivateFails \/ Settle
    \/ \E k \in Shows : Route(k) \/ Release(k) \/ ReaderEnds(k)

Presenter ==
    \/ Notify \/ Acknowledge \/ ForwardSignal \/ PresenterRestarts
    \/ \E k \in Shows : LateEndpoint(k) \/ ReceiveActivate(k) \/ ForgetStream(k)

HubNext ==
    \/ \E s \in Owners, replace \in Ids \cup {0} : BeginPresent(s, replace)
    \/ \E s \in ModuleSessions : SessionEnds(s)
    \/ BossSteps
    \/ Presenter
    \/ \E id \in Ids : Act(id) \/ Close(id)

\* Threads that have something to do are scheduled; nobody has to succeed.
Fairness ==
    /\ WF_hubVars(Settle) /\ WF_hubVars(Register) /\ WF_hubVars(Activate \/ ActivateFails)
    /\ WF_hubVars(Acknowledge \/ PresentTimesOut)
    /\ WF_hubVars(ForwardSignal)
    /\ \A k \in Shows :
          WF_hubVars(Route(k) \/ ReaderEnds(k)) /\ WF_hubVars(Release(k)) /\ WF_hubVars(ReceiveActivate(k))

HubSpec == HubInit /\ [][HubNext]_hubVars /\ Fairness

-----------------------------------------------------------------------------
(* Properties *)

\* The ids that name a presentation after the end of an earlier one: the server
\* may keep the id of a closed notification for what replaces it.
Closed(k) == \E i \in DOMAIN raised[k] : raised[k][i] = "closed"
Reused ==
    {id \in Ids : \E k \in DOMAIN shows : shows[k].id = id /\
                     \E j \in 1 .. k - 1 : shows[j].id = id /\ Closed(j)}

\* What the user does to a notification reaches only the session that showed
\* it, once, and in the order it was done, whatever was staged, unmatched or
\* released in between.  (Two notifications under one id may have two streams,
\* and then two threads, on their way back: there the order is not promised to
\* the later one, nor to any if the id was reused.)
ReachesItsSession ==
    \A k \in DOMAIN shows :
        LET told == [i \in DOMAIN delivered[k] |-> delivered[k][i][2]]
        IN  /\ \A i \in DOMAIN delivered[k] : delivered[k][i][1] = shows[k].by
            /\ IsInjective(told)
            /\ shows[k].id \notin {shows[k].replace} \cup Reused =>
                  told \in {<<>>, <<"action">>, <<"closed">>, raised[k]}

\* A notification on the screen whose presentation succeeded is owned by its
\* session and has a whole way back: an endpoint, an open stream and a thread,
\* unless a failure or a full buffer touched its id or the id was reused.
ShownIsRouted ==
    \A id \in Ids \ (spoiled \cup Reused) :
        LET k == screen[id]
        IN  k # 0 /\ shows[k].done /\ shows[k].by \in live \cup {Boss} =>
                /\ owner[id] = shows[k].by
                /\ endpoint[id].stream = k
                /\ stream[k].open
                /\ stream[k].activate \/ endpoint[id].active
                /\ reader[k] = "reading"

\* The presentation of k succeeded, for a session; the session ended, replaced
\* it, or its id was spoiled or reused.
Succeeded(k) == k \in DOMAIN shows /\ shows[k].done /\ shows[k].by # Boss
Spoiled(k) ==
    k \in DOMAIN shows /\ (shows[k].id \in spoiled \cup Reused \/ shows[k].by \notin live)
Replaced(k) ==
    k \in DOMAIN shows /\ \E j \in DOMAIN shows : shows[j].replace = shows[k].id

\* The first action on such a notification is delivered, unless its session
\* ends or replaces it, or a presentation under its id fails.
ActionsArrive ==
    \A k \in Shows :
        Succeeded(k) /\ IsPrefix(<<"action">>, raised[k])
            ~> delivered[k] # <<>> \/ Spoiled(k) \/ Replaced(k)

\* The ownership of a notification ends with the notification: a closed one is
\* released, whichever of stream, staging and registration was first.  (One that
\* took over the id of a notification may lose its end to the old stream.)
ClosedIsReleased ==
    \A k \in Shows :
        Succeeded(k) /\ shows[k].replace # shows[k].id /\ IsSuffix(<<"closed">>, raised[k])
            ~> \/ Succeeded(k) /\ (owner[shows[k].id] = None \/ screen[shows[k].id] # 0)
               \/ Spoiled(k)
=============================================================================
