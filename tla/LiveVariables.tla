---------------------------- MODULE LiveVariables ----------------------------
(***************************************************************************)
(* The variables a module's processes publish while they live:             *)
(* module_ipc/variables.rs (LiveModuleVariables) and the two kinds of      *)
(* connection that publish, in server.rs: the module's runtime             *)
(* (handle_client, client_loop) and its services (service_publisher_loop). *)
(*                                                                         *)
(* One module is modelled: publications are kept per module. Every         *)
(* connection has a handler thread of its own. An action is one critical   *)
(* section of LiveModuleVariables or of the runtime registry.              *)
(***************************************************************************)
EXTENDS Naturals, FiniteSets

CONSTANTS
    Runtimes,      \* connections of the module's runtime
    Services,      \* connections of the module's services
    Sessions,      \* session identifiers, chosen by the peers
    Processes,     \* process incarnations: a pid with its start time
    SessionOf,     \* the session each connection names
    ProcessOf,     \* the process Boss verified behind each connection
    Snapshots,     \* what may be published: functions from keys to values
    MaxPublishers, \* the limit of 32 publishers of a module
    Nothing        \* no publication, no runtime

Connections == Runtimes \cup Services

ASSUME ConnectionAssumption ==
    /\ Runtimes \cap Services = {}
    /\ SessionOf \in [Connections -> Sessions]
    /\ ProcessOf \in [Connections -> Processes]
ASSUME LimitAssumption == MaxPublishers \in Nat \ {0}
ASSUME NullAssumption ==
    Nothing \notin Connections \cup [owner : Processes, variables : Snapshots]

VARIABLES
    published, \* PublisherSet: the publication of each session
    runtime,   \* RuntimeRegistry.runtimes: the registered connection
    handler,   \* where each connection's handler stands
    telling,   \* handlers that changed what is visible and have yet to tell it
    alive,     \* processes that run
    overruled, \* served connections that a twin published or revoked for (history)
    accepted,  \* what each served connection was last told is published (history)
    shown      \* the variables a surface read at the last event

registry == <<published, runtime>>
vars == <<published, runtime, handler, telling, alive, overruled, accepted, shown>>

\* The empty snapshot withdraws what was published.
Empty == [k \in {} |-> 0]

ASSUME SnapshotAssumption ==
    /\ Empty \in Snapshots
    /\ \A v \in Snapshots : v = [k \in DOMAIN v |-> v[k]]

Publications == [owner : Processes, variables : Snapshots \ {Empty}]
HandlerStates == {"absent", "serving", "leaving", "revoked", "gone"}

Init ==
    /\ published = [s \in Sessions |-> Nothing]
    /\ runtime = Nothing
    /\ handler = [c \in Connections |-> "absent"]
    /\ telling = {}
    /\ alive = Processes
    /\ overruled = {}
    /\ accepted = [c \in Connections |-> Empty]
    /\ shown = Empty

Publishers(set) == {s \in Sessions : set[s] # Nothing}

\* merge_publisher_set refuses a key that has two owners ...
Mergeable(set) ==
    \A s, t \in Publishers(set) : s # t =>
        DOMAIN set[s].variables \cap DOMAIN set[t].variables = {}

\* ... and otherwise returns every publication's variables.
Merged(set) ==
    [k \in UNION {DOMAIN set[s].variables : s \in Publishers(set)} |->
        LET s == CHOOSE s \in Publishers(set) : k \in DOMAIN set[s].variables
        IN set[s].variables[k]]

Serves(c) == handler[c] = "serving" /\ c \notin telling
Move(c, state) == handler' = [handler EXCEPT ![c] = state]

\* Fault: only the names of the variables are compared.
NamesChanged(set) == DOMAIN Merged(set) # DOMAIN Merged(published)

\* publish() and revoke() return whether what is visible has changed, and the
\* handler sends an event when it has.
Changed(set) == Merged(set) # Merged(published)
Tells(c, set) == telling' = IF Changed(set) THEN telling \cup {c} ELSE telling
----------------------------------------------------------------------------
(* The handler of a connection.                                            *)

\* A runtime is registered when the module has none; a service is not.
Connect(c) ==
    /\ handler[c] = "absent"
    /\ ProcessOf[c] \in alive
    /\ IF c \in Services
       THEN Move(c, "serving") /\ UNCHANGED runtime
       ELSE IF runtime = Nothing
       THEN Move(c, "serving") /\ runtime' = c
       ELSE Move(c, "gone") /\ UNCHANGED runtime
    /\ UNCHANGED <<published, telling, alive, overruled, accepted, shown>>

\* The peer closes, unregisters or errs, or is refused further service.
Leave(c) ==
    /\ Serves(c)
    /\ Move(c, "leaving")
    /\ accepted' = [accepted EXCEPT ![c] = Empty]
    /\ UNCHANGED <<registry, telling, alive, overruled, shown>>

\* Every publication of a service is certified again.
Certified(c) == c \in Services => ProcessOf[c] \in alive

Publication(c, vals) ==
    IF vals = Empty THEN Nothing ELSE [owner |-> ProcessOf[c], variables |-> vals]

\* publish() refuses a session that another incarnation still holds, one
\* publisher too many, and a key that another session publishes.
Admits(c, set) ==
    /\ published[SessionOf[c]] # Nothing => published[SessionOf[c]].owner = ProcessOf[c]
    /\ Cardinality(Publishers(set)) <= MaxPublishers
    /\ Mergeable(set)

\* Connections that publish and revoke alike: a publication is told apart by its
\* session and its process. Two of the runtime's own are never served together.
Twins(c) ==
    {d \in Connections \ {c} :
        /\ SessionOf[d] = SessionOf[c] /\ ProcessOf[d] = ProcessOf[c]
        /\ ~({c, d} \subseteq Runtimes)}

\* VariablesPublish: an accepted snapshot replaces the previous one.
Publish(c, vals) ==
    /\ Serves(c)
    /\ Certified(c)
    /\ LET set == [published EXCEPT ![SessionOf[c]] = Publication(c, vals)]
       IN IF Admits(c, set)
          THEN /\ published' = set
               /\ accepted' = [accepted EXCEPT ![c] = vals]
               /\ overruled' = (overruled \ {c}) \cup Twins(c)
               /\ Tells(c, set)
          ELSE UNCHANGED <<published, overruled, accepted, telling>>
    /\ UNCHANGED <<runtime, handler, alive, shown>>

\* A service that cannot be certified any more loses its connection.
PublishUncertified(c) ==
    /\ ~Certified(c)
    /\ Leave(c)

\* broadcast_event: a surface that is told reads the snapshot again.
Tell(c) ==
    /\ c \in telling
    /\ telling' = telling \ {c}
    /\ shown' = Merged(published)
    /\ UNCHANGED <<registry, handler, alive, overruled, accepted>>

\* Fault: whoever named the session revokes it.
HoldsSession(c) == published[SessionOf[c]] # Nothing

\* revoke() acts for the exact incarnation that published.
Holds(c) ==
    /\ published[SessionOf[c]] # Nothing
    /\ published[SessionOf[c]].owner = ProcessOf[c]

\* Fault: the connection ends without revoking.
RevokeNever(c) ==
    /\ handler[c] = "leaving"
    /\ Move(c, IF c \in Runtimes THEN "revoked" ELSE "gone")
    /\ UNCHANGED <<registry, telling, alive, overruled, accepted, shown>>

\* Whatever ended the connection, its handler revokes first ...
Revoke(c) ==
    /\ handler[c] = "leaving"
    /\ Move(c, IF c \in Runtimes THEN "revoked" ELSE "gone")
    /\ LET set == IF Holds(c) THEN [published EXCEPT ![SessionOf[c]] = Nothing]
                             ELSE published
       IN published' = set /\ Tells(c, set)
    /\ overruled' = IF Holds(c) THEN overruled \cup Twins(c) ELSE overruled
    /\ UNCHANGED <<runtime, alive, accepted, shown>>

\* Fault: a runtime is let go before its variables are revoked.
UnregisterEarly(c) ==
    /\ c \in Runtimes
    /\ handler[c] = "leaving"
    /\ runtime' = IF runtime = c THEN Nothing ELSE runtime
    /\ UNCHANGED <<published, handler, telling, alive, overruled, accepted, shown>>

\* ... and a runtime is unregistered after it: its successor can only publish
\* once nothing of its own is left.
Unregister(c) ==
    /\ handler[c] = "revoked"
    /\ c \notin telling
    /\ runtime' = IF runtime # Nothing /\ SessionOf[runtime] = SessionOf[c]
                  THEN Nothing ELSE runtime
    /\ Move(c, "gone")
    /\ UNCHANGED <<published, telling, alive, overruled, accepted, shown>>

\* A process ends; its handlers find out later.
Die(p) ==
    /\ p \in alive
    /\ alive' = alive \ {p}
    /\ UNCHANGED <<registry, handler, telling, overruled, accepted, shown>>
----------------------------------------------------------------------------
Handle(c) ==
    \/ Connect(c) \/ Leave(c) \/ PublishUncertified(c)
    \/ Tell(c) \/ Revoke(c) \/ Unregister(c)
    \/ \E vals \in Snapshots : Publish(c, vals)

Next == (\E c \in Connections : Handle(c)) \/ (\E p \in Processes : Die(p))

Spec == Init /\ [][Next]_vars
----------------------------------------------------------------------------
(* Properties.                                                             *)

TypeOK ==
    /\ published \in [Sessions -> Publications \cup {Nothing}]
    /\ runtime \in Runtimes \cup {Nothing}
    /\ handler \in [Connections -> HandlerStates]
    /\ telling \subseteq Connections
    /\ alive \subseteq Processes
    /\ overruled \subseteq Connections
    /\ accepted \in [Connections -> Snapshots]
    /\ \A k \in DOMAIN shown : \E v \in Snapshots : k \in DOMAIN v /\ shown[k] = v[k]

\* Every publication has a connection of the process that made it whose handler
\* will still revoke it, so nothing a dead process published stays for good.
PublicationHasRevoker ==
    \A s \in Publishers(published) : \E c \in Connections :
        /\ SessionOf[c] = s
        /\ ProcessOf[c] = published[s].owner
        /\ handler[c] \in {"serving", "leaving"}

\* A late disconnect of one incarnation changes nothing a newer one published:
\* a publication goes, or is replaced, by its owner's doing only.
OnlyOwnerWithdraws ==
    [][\A s \in Publishers(published) : published'[s] # published[s] =>
          \E c \in Connections :
              /\ SessionOf[c] = s /\ ProcessOf[c] = published[s].owner
              /\ handler'[c] # handler[c] \/ c \in telling' \ telling]_vars

\* A publication lasts as long as the connection it was made on: what a served
\* connection was told is published is published (variables.rs:13), however
\* connections of other processes and its own predecessors end, unless a service
\* connection of the same process and session has published or revoked since.
ConnectionScoped ==
    \A c \in Connections \ overruled : handler[c] = "serving" /\ accepted[c] # Empty =>
        published[SessionOf[c]] = [owner |-> ProcessOf[c], variables |-> accepted[c]]

\* When every event has been sent, a surface shows the variables that are
\* visible: no change is reported as none, by publish or by revoke.
ShownIsCurrent == telling = {} => shown = Merged(published)
=============================================================================
