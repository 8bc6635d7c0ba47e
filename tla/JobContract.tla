---------------------------- MODULE JobContract ----------------------------
(***************************************************************************)
(* What the job registry promises to the peers that use it, without its    *)
(* mutex, its threads and its channel: a request is refused or admitted,   *)
(* at most MaxActive admitted requests execute at a time, and the result   *)
(* of an execution is handed out after the execution ended, to the         *)
(* requester and to nobody else, at most once.                             *)
(***************************************************************************)
EXTENDS Integers, Sequences, FiniteSets

CONSTANTS
    Owners,     \* peers that make requests
    Ids,        \* job identifiers
    MaxActive,  \* executions the registry allows at a time
    NoOwner     \* requester of an identifier not yet drawn

VARIABLES
    phase,      \* how far each request has come
    requester,  \* who made it
    deliveries  \* whom its result was handed to, in order

vars == <<phase, requester, deliveries>>

Init ==
    /\ phase = [i \in Ids |-> "idle"]
    /\ requester = [i \in Ids |-> NoOwner]
    /\ deliveries = [i \in Ids |-> <<>>]

Executing == {i \in Ids : phase[i] = "executing"}

\* A new request: refused, admitted, or admitted and never started.
Submit(i, o, outcome) ==
    /\ phase[i] = "idle"
    /\ outcome \in {"refused", "executing", "stuck"}
    /\ outcome # "refused" => Cardinality(Executing) < MaxActive
    /\ phase' = [phase EXCEPT ![i] = outcome]
    /\ requester' = [requester EXCEPT ![i] = o]
    /\ UNCHANGED deliveries

Finish(i) ==
    /\ phase[i] = "executing"
    /\ phase' = [phase EXCEPT ![i] = "ready"]
    /\ UNCHANGED <<requester, deliveries>>

HandOver(i) ==
    /\ phase[i] = "ready"
    /\ deliveries[i] = <<>>
    /\ deliveries' = [deliveries EXCEPT ![i] = <<requester[i]>>]
    /\ UNCHANGED <<phase, requester>>

Next ==
    \E i \in Ids :
        \/ \E o \in Owners, outcome \in {"refused", "executing", "stuck"} :
              Submit(i, o, outcome)
        \/ Finish(i)
        \/ HandOver(i)

Spec == Init /\ [][Next]_vars
=============================================================================
