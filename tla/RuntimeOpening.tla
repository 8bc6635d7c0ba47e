--------------------------- MODULE RuntimeOpening ---------------------------
(***************************************************************************)
(* Opening a module: the openings of RuntimeRegistry (module_ipc/          *)
(* registry.rs), the Open operation of the Governor (modules.rs,           *)
(* execute_governor_target_with_observer) and the persistent processes its *)
(* execution starts (lifecycle_available_capabilities.rs).                 *)
(*                                                                         *)
(* One module is modelled: the registry keys openings by module. An Open   *)
(* call runs on a thread of its own, so does the wait for each process it  *)
(* started and the handler of the connection a process registers on. An    *)
(* action is one critical section of the registry, or what a process does. *)
(***************************************************************************)
EXTENDS Naturals, FiniteSets

CONSTANTS
    Opens,      \* calls of Open
    Processes,  \* persistent processes; process identifiers are not reused
    Nobody,     \* no runtime, or a process no call started
    NoOpening   \* the module is not being opened

ASSUME OpensAssumption == IsFiniteSet(Opens)
ASSUME NullAssumption == Nobody \notin Processes /\ Nobody \notin Opens
ASSUME NoOpeningAssumption ==
    NoOpening \notin [generation : Nat, owners : SUBSET Processes, sealed : BOOLEAN]

VARIABLES
    runtime,     \* RuntimeRegistry.runtimes: the process that registered
    opening,     \* RuntimeRegistry.openings
    generations, \* next_opening_generation
    caller,      \* where each Open call stands
    generation,  \* the generation each Open call was given
    process,     \* what each process, and the thread that waits for it, does
    opener,      \* the Open call that started the process
    readied,     \* Open calls that saw a registration (history)
    announcing,  \* changes whose surface event has yet to be sent
    shown        \* the state a surface read at the last event

registry == <<runtime, opening, generations>>
surface == <<announcing, shown>>
vars == <<registry, caller, generation, process, opener, readied, surface>>

Ends == {"refused", "failed", "opened"}
Results == {"ok", "error", "unbound"}
CallerStates == {"idle", "executing", "sealing_ok", "sealing_error",
                 "sealing_unbound", "checking"} \cup Ends
\* A process runs, and may be registered, from "started" until it dies.
\* "started": not yet offered to the opening. "owner"/"unowned": after the
\* offer, its wait thread runs. "dead_*": gone, its wait thread has yet to act.
ProcessStates == {"none", "started", "dead_started", "owner", "dead_owner",
                  "unowned", "gone"}
Alive(p) == process[p] \in {"started", "owner", "unowned"}
RuntimeStates == {"Closed", "Opening", "Open"}

\* RuntimeRegistry::state
State == IF runtime # Nobody THEN "Open"
         ELSE IF opening # NoOpening THEN "Opening" ELSE "Closed"

Init ==
    /\ runtime = Nobody
    /\ opening = NoOpening
    /\ generations = 0
    /\ caller = [o \in Opens |-> "idle"]
    /\ generation = [o \in Opens |-> 0]
    /\ process = [p \in Processes |-> "none"]
    /\ opener = [p \in Processes |-> Nobody]
    /\ readied = {}
    /\ announcing = {}
    /\ shown = "Closed"

\* broadcast_surface_module_change, the event a thread sends after it let go
\* of the registry. A surface that is told reads the registry again.
Announce(who) ==
    /\ who \in announcing
    /\ announcing' = announcing \ {who}
    /\ shown' = State
    /\ UNCHANGED <<registry, caller, generation, process, opener, readied>>
Quiet == UNCHANGED surface
Tells(who) == announcing' = announcing \cup {who} /\ UNCHANGED shown

Move(o, state) == caller' = [caller EXCEPT ![o] = state]
Become(p, state) == process' = [process EXCEPT ![p] = state]
----------------------------------------------------------------------------
(* The Open call.                                                          *)

NextGeneration == generations + 1

\* begin_opening: only a closed module can be opened.
Begin(o) ==
    /\ caller[o] = "idle"
    /\ IF State = "Closed"
       THEN /\ generations' = NextGeneration
            /\ generation' = [generation EXCEPT ![o] = NextGeneration]
            /\ opening' = [generation |-> NextGeneration, owners |-> {},
                           sealed |-> FALSE]
            /\ Move(o, "executing")
            /\ Tells(o)
       ELSE /\ Move(o, "refused")
            /\ UNCHANGED <<generations, generation, opening>>
            /\ Quiet
    /\ UNCHANGED <<runtime, process, opener, readied>>

\* The execution reaches a persistent step and starts its process. The event
\* of begin_opening was sent before the execution began.
Start(o, p) ==
    /\ caller[o] = "executing" /\ o \notin announcing
    /\ process[p] = "none"
    /\ Become(p, "started")
    /\ opener' = [opener EXCEPT ![p] = o]
    /\ UNCHANGED <<registry, caller, generation, readied, surface>>

\* A process Boss did not start through Open.
StartOutside(p) ==
    /\ process[p] = "none"
    /\ Become(p, "unowned")
    /\ UNCHANGED <<registry, caller, generation, opener, readied, surface>>

\* The execution that started p is the one the opening belongs to.
SameExecution(p) == opening.generation = generation[opener[p]]

\* claim_opening_owner: a process of another execution is killed and reaped,
\* and fails its step. A module that is open, or closed again, takes no owner.
Claim(p) ==
    /\ process[p] \in {"started", "dead_started"}
    /\ IF runtime # Nobody \/ opening = NoOpening
       THEN /\ Become(p, IF process[p] = "started" THEN "unowned" ELSE "gone")
            /\ UNCHANGED opening
       ELSE IF ~SameExecution(p)
       THEN /\ Become(p, "gone")
            /\ UNCHANGED opening
       ELSE IF opening.sealed
       THEN /\ Become(p, IF process[p] = "started" THEN "unowned" ELSE "gone")
            /\ UNCHANGED opening
       ELSE /\ opening' = [opening EXCEPT !.owners = @ \cup {p}]
            /\ Become(p, IF process[p] = "started" THEN "owner" ELSE "dead_owner")
    /\ UNCHANGED <<runtime, generations, caller, generation, opener, readied, surface>>

\* execute_target_blocking_observed returns once its steps have. Without a
\* binding it has started nothing.
EndExecution(o, result) ==
    /\ caller[o] = "executing" /\ o \notin announcing
    /\ \A p \in Processes : opener[p] = o => process[p] \notin {"started", "dead_started"}
    /\ result = "unbound" => \A p \in Processes : opener[p] # o
    /\ Move(o, CASE result = "ok" -> "sealing_ok"
                 [] result = "error" -> "sealing_error"
                 [] result = "unbound" -> "sealing_unbound")
    /\ UNCHANGED <<registry, generation, process, opener, readied, surface>>

\* Fault: a sealed opening is kept although it has no owners.
SealedForEver == [opening EXCEPT !.sealed = TRUE]

\* Fault: the opening is not marked.
NotSealed == IF opening.owners = {} THEN NoOpening ELSE opening

\* What seal_opening leaves of an opening: nothing when it has no owners.
Sealed == IF opening.owners = {} THEN NoOpening
          ELSE [opening EXCEPT !.sealed = TRUE]

\* The caller seals the opening it began, no later one.
OwnGeneration(o) == opening.generation = generation[o]

\* seal_opening, and what the three ends of an execution make of its answer.
Seal(o) ==
    /\ caller[o] \in {"sealing_ok", "sealing_error", "sealing_unbound"}
    /\ LET kept == CASE runtime # Nobody -> "yes"
                     [] runtime = Nobody /\ opening = NoOpening -> "no"
                     [] OTHER -> IF ~OwnGeneration(o) THEN "mismatch"
                                 ELSE IF opening.owners # {} THEN "yes" ELSE "no"
       IN /\ opening' = IF State = "Opening" /\ OwnGeneration(o) THEN Sealed ELSE opening
          /\ CASE kept = "mismatch" -> Move(o, "failed") /\ Quiet
               [] kept # "mismatch" /\ caller[o] = "sealing_unbound" ->
                      Move(o, "failed") /\ Tells(o)
               [] kept # "mismatch" /\ caller[o] = "sealing_error" ->
                      /\ Move(o, "failed")
                      /\ IF kept = "no" THEN Tells(o) ELSE Quiet
               [] kept = "yes" /\ caller[o] = "sealing_ok" -> Move(o, "opened") /\ Quiet
               [] kept = "no" /\ caller[o] = "sealing_ok" -> Move(o, "checking") /\ Quiet
    /\ UNCHANGED <<runtime, generations, generation, process, opener, readied>>

\* Fault: an execution without an error counts as an opened module.
TrustExecution(o) ==
    /\ caller[o] = "checking"
    /\ Move(o, "opened") /\ Quiet
    /\ UNCHANGED <<registry, generation, process, opener, readied>>

\* No opening was left: the module is open, or the call has failed.
Check(o) ==
    /\ caller[o] = "checking"
    /\ IF State = "Open" THEN Move(o, "opened") /\ Quiet
                         ELSE Move(o, "failed") /\ Tells(o)
    /\ UNCHANGED <<registry, generation, process, opener, readied>>
----------------------------------------------------------------------------
(* The processes.                                                          *)

Exit(p) ==
    /\ Alive(p)
    /\ Become(p, CASE process[p] = "started" -> "dead_started"
                   [] process[p] = "owner" -> "dead_owner"
                   [] process[p] = "unowned" -> "gone")
    /\ UNCHANGED <<registry, caller, generation, opener, readied, surface>>

\* Fault: the last owner closes an opening that is still being executed.
OwnersEnded(left) == left = {}

\* An opening ends with its last owner, once it takes no more of them.
EndsOpening(left) == opening.sealed /\ left = {}

\* Fault: nobody is told.
EndSilently(p) == opening' = NoOpening /\ Quiet

EndOpening(p) == opening' = NoOpening /\ Tells(p)

\* release_opening_owner, by the thread that waited for the process.
Release(p) ==
    /\ process[p] = "dead_owner"
    /\ Become(p, "gone")
    /\ IF runtime = Nobody /\ opening # NoOpening /\ SameExecution(p) /\ p \in opening.owners
       THEN LET left == opening.owners \ {p}
            IN IF EndsOpening(left)
               THEN EndOpening(p)
               ELSE opening' = [opening EXCEPT !.owners = left] /\ Quiet
       ELSE UNCHANGED <<opening, surface>>
    /\ UNCHANGED <<runtime, generations, caller, generation, opener, readied>>

\* RuntimeRegistry::register ends the opening, whoever began it.
Register(p) ==
    /\ Alive(p)
    /\ runtime = Nobody
    /\ runtime' = p
    /\ opening' = NoOpening
    /\ readied' = readied \cup {o \in Opens : caller[o] \notin Ends \cup {"idle"}}
    /\ Tells(p)
    /\ UNCHANGED <<generations, caller, generation, process, opener>>

\* RuntimeRegistry::unregister, once the connection ended.
Unregister(p) ==
    /\ runtime = p
    /\ p \notin announcing
    /\ runtime' = Nobody
    /\ opening' = NoOpening
    /\ Tells(p)
    /\ UNCHANGED <<generations, caller, generation, process, opener, readied>>
----------------------------------------------------------------------------
Call(o) == \/ Begin(o) \/ Seal(o) \/ Check(o) \/ Announce(o)
           \/ \E result \in Results : EndExecution(o, result)
           \/ \E p \in Processes : Start(o, p)
Wait(p) == Claim(p) \/ Release(p) \/ Announce(p)
Run(p) == StartOutside(p) \/ Exit(p) \/ Register(p) \/ Unregister(p)

Next == (\E o \in Opens : Call(o)) \/ (\E p \in Processes : Wait(p) \/ Run(p))

Spec == Init /\ [][Next]_vars

\* Executions return, threads run, and the handler of a dead process's
\* connection reads the end of the stream. No process has to exit or register.
Fairness ==
    /\ \A o \in Opens : WF_vars(Seal(o) \/ Check(o) \/ Announce(o)
                                \/ EndExecution(o, "ok") \/ EndExecution(o, "error"))
    /\ \A p \in Processes : WF_vars(Wait(p))
    /\ \A p \in Processes : WF_vars(~Alive(p) /\ Unregister(p))
FairSpec == Spec /\ Fairness
----------------------------------------------------------------------------
(* Properties.                                                             *)

TypeOK ==
    /\ runtime \in Processes \cup {Nobody}
    /\ opening \in {NoOpening} \cup [generation : 1..generations, owners : SUBSET Processes,
                                     sealed : BOOLEAN]
    /\ generations \in Nat
    /\ caller \in [Opens -> CallerStates]
    /\ generation \in [Opens -> Nat]
    /\ process \in [Processes -> ProcessStates]
    /\ opener \in [Processes -> Opens \cup {Nobody}]
    /\ readied \subseteq Opens
    /\ announcing \subseteq Opens \cup Processes
    /\ shown \in RuntimeStates

\* The owners of an opening are processes of its own execution that nobody has
\* reaped: a slow execution that was overtaken by a newer Open of the same
\* module lends it no owners (registry.rs, claim_opening_owner).
OwnersBelong ==
    opening # NoOpening => \A p \in opening.owners :
        /\ process[p] \in {"owner", "dead_owner"}
        /\ opener[p] \in Opens
        /\ opening.generation = generation[opener[p]]

\* An opening always has somebody who will end it: the call that began it and
\* has yet to seal it or, once sealed, a process of its own execution that was
\* not reaped. Without one the module would be "already opening" for ever.
SomebodyEndsIt ==
    OwnersBelong /\
    (opening # NoOpening =>
        IF opening.sealed THEN opening.owners # {}
        ELSE \E o \in Opens : /\ generation[o] = opening.generation
                              /\ caller[o] \notin Ends \cup {"idle", "checking"})

\* While an execution runs its opening stays in the registry, so that no other
\* Open of the module begins, unless a runtime of the module has registered.
ExecutionIsCovered ==
    \A o \in Opens : caller[o] \in {"executing", "sealing_ok", "sealing_error",
                                    "sealing_unbound"} =>
        \/ o \in readied
        \/ opening # NoOpening /\ opening.generation = generation[o]

\* When every event has been sent and no call is still looking at its own
\* result, a surface shows the state of the registry: no change of the state
\* goes untold, however the threads interleave.
ShownIsCurrent ==
    announcing = {} /\ (\A o \in Opens : caller[o] # "checking") => shown = State

\* A call reports success only while the module is open or a process of some
\* execution still holds the opening.
SuccessIsBacked ==
    [][\A o \in Opens : caller[o] # "opened" /\ caller'[o] = "opened" =>
           runtime # Nobody \/ (opening # NoOpening /\ opening.owners # {})]_vars

\* An opening whose processes have all died does not last: its module can be
\* opened again.
DeadOpeningEnds ==
    \A g \in 1..Cardinality(Opens) :
        (/\ opening # NoOpening /\ opening.generation = g
         /\ \A p \in Processes : process[p] \in {"dead_started", "dead_owner", "gone"})
        ~> (opening = NoOpening \/ opening.generation # g)
=============================================================================
