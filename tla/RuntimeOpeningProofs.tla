------------------------ MODULE RuntimeOpeningProofs ------------------------
(***************************************************************************)
(* Proofs about the opening of a module, for any number of Open calls and  *)
(* processes.                                                              *)
(*                                                                         *)
(* What the safety properties rest on is the identity of an opening: every *)
(* call of Open that began one has a generation of its own, and the        *)
(* registry holds the opening of one generation, only while no runtime is  *)
(* registered. From it follow who will end an opening, that an execution   *)
(* stays covered by it, and that no change of the state goes untold.       *)
(***************************************************************************)
EXTENDS RuntimeOpening, TLAPS

Opening == [generation : 1..generations, owners : SUBSET Processes, sealed : BOOLEAN]
Active == {"executing", "sealing_ok", "sealing_error", "sealing_unbound"}

\* A call has a generation once it began an opening, and no two have the same.
Generations ==
    /\ \A o \in Opens : /\ generation[o] \in 0..generations
                        /\ generation[o] = 0 <=> caller[o] \in {"idle", "refused"}
    /\ \A o1, o2 \in Opens :
           generation[o1] = generation[o2] /\ generation[o1] # 0 => o1 = o2

\* A process that may yet become an owner has an opener. A registered runtime
\* leaves no opening.
Exclusive ==
    /\ \A p \in Processes : process[p] \in {"started", "dead_started"} => opener[p] \in Opens
    /\ opening # NoOpening => runtime = Nobody

\* A sealed opening is left by the call that began it.
SealedByItsCall ==
    opening # NoOpening /\ opening.sealed =>
        \A o \in Opens : generation[o] = opening.generation => caller[o] \notin Active

\* A surface that missed nothing shows an open module as open, even while a
\* call is still looking at its result.
OpenIsShown == announcing = {} /\ runtime # Nobody => shown = "Open"

USE DEF Ends, Results, CallerStates, ProcessStates, RuntimeStates, registry, surface,
        Quiet, NextGeneration, Active

\* The record that stands for an opening is told from its absence.
LEMMA OpeningIsThere == \A x \in Opening : generations \in Nat => x # NoOpening
  BY NoOpeningAssumption DEF Opening

\* Every step of Next is one of these.
LEMMA StepKinds ==
    ASSUME Next
    PROVE  \/ \E o \in Opens : \/ Begin(o) \/ Seal(o) \/ Check(o) \/ Announce(o)
                               \/ \E result \in Results : EndExecution(o, result)
                               \/ \E p \in Processes : Start(o, p)
           \/ \E p \in Processes : \/ Claim(p) \/ Release(p) \/ Announce(p) \/ StartOutside(p)
                                   \/ Exit(p) \/ Register(p) \/ Unregister(p)
  BY DEF Next, Call, Wait, Run

\* The state of the registry is one of three.
LEMMA StateType == State \in RuntimeStates
  BY DEF State

\* Sealing an opening changes nothing else of it.
LEMMA SealedOpening ==
    ASSUME NEW G, NEW x \in [generation : G, owners : SUBSET Processes, sealed : BOOLEAN],
           NEW y, y = [x EXCEPT !.sealed = TRUE]
    PROVE  /\ y \in [generation : G, owners : SUBSET Processes, sealed : BOOLEAN]
           /\ y.generation = x.generation /\ y.owners = x.owners /\ y.sealed = TRUE
  OBVIOUS

\* seal_opening leaves the opening alone, ends it, or seals it; with it the
\* call leaves its execution.
LEMMA SealDoes ==
    ASSUME TypeOK, NEW o \in Opens, Seal(o)
    PROVE  /\ \/ opening' = opening
              \/ /\ opening # NoOpening /\ runtime = Nobody
                 /\ opening.generation = generation[o]
                 /\ opening.owners = {} /\ opening' = NoOpening
              \/ /\ opening # NoOpening /\ runtime = Nobody
                 /\ opening.generation = generation[o]
                 /\ opening.owners # {} /\ opening' = [opening EXCEPT !.sealed = TRUE]
                 /\ opening' \in Opening
                 /\ opening'.generation = opening.generation
                 /\ opening'.owners = opening.owners /\ opening'.sealed = TRUE
           /\ \E end \in {"checking", "failed", "opened"} : caller' = [caller EXCEPT ![o] = end]
           /\ (announcing' = announcing \/ announcing' = announcing \cup {o}) /\ shown' = shown
           /\ UNCHANGED <<runtime, generations, generation, process, opener, readied>>
<1>1. \E end \in {"checking", "failed", "opened"} : caller' = [caller EXCEPT ![o] = end]
  BY DEF Seal, Move
<1>0. /\ (announcing' = announcing \/ announcing' = announcing \cup {o}) /\ shown' = shown
      /\ UNCHANGED <<runtime, generations, generation, process, opener, readied>>
  BY DEF Seal, Tells
<1>2. CASE State = "Opening" /\ OwnGeneration(o)
  <2>1. opening # NoOpening /\ runtime = Nobody /\ opening \in Opening
    BY <1>2 DEF State, TypeOK, Opening
  <2>2. CASE opening.owners = {}
    <3>1. opening' = NoOpening
      BY <1>2, <2>2 DEF Seal, Sealed
    <3> QED
      BY <1>0, <1>1, <1>2, <2>1, <2>2, <3>1 DEF OwnGeneration
  <2>3. CASE opening.owners # {}
    <3>1. opening' = [opening EXCEPT !.sealed = TRUE]
      BY <1>2, <2>3 DEF Seal, Sealed
    <3> QED
      BY <1>0, <1>1, <1>2, <2>1, <2>3, <3>1, SealedOpening DEF OwnGeneration, Opening
  <2> QED
    BY <2>2, <2>3
<1>3. CASE ~(State = "Opening" /\ OwnGeneration(o))
  <2>1. opening' = opening
    BY <1>3 DEF Seal
  <2> QED
    BY <1>0, <1>1, <2>1
<1> QED
  BY <1>2, <1>3

\* The types hold before the first call.
LEMMA InitTyped == Init => TypeOK
  BY DEF Init, TypeOK

\* Every step keeps the types.
LEMMA TypeStep == TypeOK /\ Next => TypeOK'
<1> SUFFICES ASSUME TypeOK, Next PROVE TypeOK'
  OBVIOUS
<1> USE DEF TypeOK, Move, Become, Tells
<1>1. ASSUME NEW o \in Opens, Begin(o) PROVE TypeOK'
  <2>1. CASE State = "Closed"
    <3>1. generations' \in Nat /\ generations' \in 1..generations'
      BY <1>1, <2>1 DEF Begin
    <3>2. opening' \in [generation : 1..generations', owners : SUBSET Processes, sealed : BOOLEAN]
      <4>1. opening' = [generation |-> generations', owners |-> {}, sealed |-> FALSE]
        BY <1>1, <2>1 DEF Begin
      <4> QED
        BY <3>1, <4>1
    <3> QED
      BY <1>1, <2>1, <3>1, <3>2 DEF Begin
  <2>2. CASE State # "Closed"
    BY <1>1, <2>2 DEF Begin
  <2> QED
    BY <2>1, <2>2
<1>2. ASSUME NEW o \in Opens, Seal(o) PROVE TypeOK'
  <2>1. caller' \in [Opens -> CallerStates]
    BY <1>2, SealDoes
  <2>2. opening' \in {NoOpening} \cup Opening
    BY <1>2, SealDoes DEF Opening
  <2>3. announcing' \subseteq Opens \cup Processes
    <3>1. announcing' = announcing \/ announcing' = announcing \cup {o}
      BY <1>2, SealDoes
    <3> QED
      BY <3>1
  <2>4. shown' = shown /\ UNCHANGED <<runtime, generations, generation, process, opener, readied>>
    BY <1>2, SealDoes
  <2> QED
    BY <2>1, <2>2, <2>3, <2>4 DEF Opening
<1>3. ASSUME NEW o \in Opens, Check(o) PROVE TypeOK'
  BY <1>3 DEF Check
<1>4. ASSUME NEW who, Announce(who) PROVE TypeOK'
  BY <1>4, StateType DEF Announce
<1>5. ASSUME NEW o \in Opens, NEW result \in Results, EndExecution(o, result) PROVE TypeOK'
  BY <1>5 DEF EndExecution
<1>6. ASSUME NEW o \in Opens, NEW p \in Processes, Start(o, p) PROVE TypeOK'
  BY <1>6 DEF Start
<1>7. ASSUME NEW p \in Processes, Claim(p) PROVE TypeOK'
  BY <1>7 DEF Claim
<1>8. ASSUME NEW p \in Processes, Release(p) PROVE TypeOK'
  BY <1>8 DEF Release, EndOpening
<1>9. ASSUME NEW p \in Processes, StartOutside(p) PROVE TypeOK'
  BY <1>9 DEF StartOutside
<1>10. ASSUME NEW p \in Processes, Exit(p) PROVE TypeOK'
  BY <1>10 DEF Exit, Alive
<1>11. ASSUME NEW p \in Processes, Register(p) PROVE TypeOK'
  BY <1>11 DEF Register
<1>12. ASSUME NEW p \in Processes, Unregister(p) PROVE TypeOK'
  BY <1>12 DEF Unregister
<1> QED
  BY <1>1, <1>2, <1>3, <1>4, <1>5, <1>6, <1>7, <1>8, <1>9, <1>10, <1>11, <1>12, StepKinds

\* Generations are given once, by the calls that begin an opening.
LEMMA GenerationsStep == TypeOK /\ Generations /\ Next => Generations'
<1> SUFFICES ASSUME TypeOK, Generations, Next PROVE Generations'
  OBVIOUS
<1> USE DEF TypeOK, Generations, Move
<1>1. ASSUME NEW o \in Opens, Begin(o) PROVE Generations'
  <2>1. CASE State = "Closed"
    <3>1. /\ generations' = generations + 1 /\ generations \in Nat
          /\ generation' = [generation EXCEPT ![o] = generations + 1]
          /\ caller' = [caller EXCEPT ![o] = "executing"]
      BY <1>1, <2>1 DEF Begin
    <3> QED
      BY <3>1
  <2>2. CASE State # "Closed"
    BY <1>1, <2>2 DEF Begin
  <2> QED
    BY <2>1, <2>2
<1>2. ASSUME NEW o \in Opens, Seal(o) PROVE Generations'
  BY <1>2 DEF Seal
<1>3. ASSUME NEW o \in Opens, Check(o) PROVE Generations'
  BY <1>3 DEF Check
<1>4. ASSUME NEW o \in Opens, NEW result \in Results, EndExecution(o, result) PROVE Generations'
  BY <1>4 DEF EndExecution
<1>5. CASE UNCHANGED <<generations, generation, caller>>
  BY <1>5
<1> QED
  BY <1>1, <1>2, <1>3, <1>4, <1>5, StepKinds DEF Announce, Start, Claim, Release,
     StartOutside, Exit, Register, Unregister

\* An opening begins only in a closed module, and a registration ends it.
LEMMA ExclusiveStep == TypeOK /\ Exclusive /\ Next => Exclusive'
<1> SUFFICES ASSUME TypeOK, Exclusive, Next PROVE Exclusive'
  OBVIOUS
<1> USE DEF TypeOK, Exclusive, Become
<1>1. ASSUME NEW o \in Opens, Begin(o) PROVE Exclusive'
  BY <1>1 DEF Begin, State
<1>2. ASSUME NEW o \in Opens, Seal(o) PROVE Exclusive'
  BY <1>2 DEF Seal, State, Sealed
<1>3. ASSUME NEW o \in Opens, NEW p \in Processes, Start(o, p) PROVE Exclusive'
  BY <1>3 DEF Start
<1>4. ASSUME NEW p \in Processes, Claim(p) PROVE Exclusive'
  BY <1>4 DEF Claim
<1>5. ASSUME NEW p \in Processes, Release(p) PROVE Exclusive'
  BY <1>5 DEF Release, EndOpening
<1>6. ASSUME NEW p \in Processes, StartOutside(p) PROVE Exclusive'
  BY <1>6 DEF StartOutside
<1>7. ASSUME NEW p \in Processes, Exit(p) PROVE Exclusive'
  BY <1>7 DEF Exit, Alive
<1>8. ASSUME NEW p \in Processes, Register(p) PROVE Exclusive'
  BY <1>8 DEF Register
<1>9. ASSUME NEW p \in Processes, Unregister(p) PROVE Exclusive'
  BY <1>9 DEF Unregister
<1>10. CASE UNCHANGED <<runtime, opening, process, opener>>
  BY <1>10
<1> QED
  BY <1>1, <1>2, <1>3, <1>4, <1>5, <1>6, <1>7, <1>8, <1>9, <1>10, StepKinds
     DEF Announce, Check, EndExecution

\* An opening is sealed by the call that began it, which then moves on.
LEMMA SealedStep == TypeOK /\ Generations /\ SealedByItsCall /\ Next => SealedByItsCall'
<1> SUFFICES ASSUME TypeOK, Generations, SealedByItsCall, Next PROVE SealedByItsCall'
  OBVIOUS
<1> USE DEF TypeOK, Generations, SealedByItsCall, Move
<1>1. ASSUME NEW o \in Opens, Begin(o) PROVE SealedByItsCall'
  BY <1>1 DEF Begin
<1>2. ASSUME NEW o \in Opens, Seal(o) PROVE SealedByItsCall'
  BY <1>2, SealDoes
<1>3. ASSUME NEW o \in Opens, Check(o) PROVE SealedByItsCall'
  BY <1>3 DEF Check
<1>4. ASSUME NEW o \in Opens, NEW result \in Results, EndExecution(o, result)
      PROVE SealedByItsCall'
  BY <1>4 DEF EndExecution
<1>5. ASSUME NEW p \in Processes, Claim(p) PROVE SealedByItsCall'
  BY <1>5 DEF Claim
<1>6. ASSUME NEW p \in Processes, Release(p) PROVE SealedByItsCall'
  BY <1>6 DEF Release, EndOpening
<1>7. ASSUME NEW p \in Processes, Register(p) \/ Unregister(p) PROVE SealedByItsCall'
  BY <1>7 DEF Register, Unregister
<1>8. CASE UNCHANGED <<opening, generation, caller>>
  BY <1>8
<1> QED
  BY <1>1, <1>2, <1>3, <1>4, <1>5, <1>6, <1>7, <1>8, StepKinds
     DEF Announce, Start, StartOutside, Exit

\* The owners of an opening stay processes of its own execution.
LEMMA OwnersStep == TypeOK /\ Generations /\ Exclusive /\ OwnersBelong /\ Next => OwnersBelong'
<1> SUFFICES ASSUME TypeOK, Generations, Exclusive, OwnersBelong, Next PROVE OwnersBelong'
  OBVIOUS
<1> USE DEF TypeOK, OwnersBelong, Become
<1>1. ASSUME NEW o \in Opens, Begin(o) PROVE OwnersBelong'
  <2>1. CASE State = "Closed"
    BY <1>1, <2>1 DEF Begin
  <2>2. CASE State # "Closed"
    BY <1>1, <2>2 DEF Begin
  <2> QED
    BY <2>1, <2>2
<1>2. ASSUME NEW o \in Opens, Seal(o) PROVE OwnersBelong'
  BY <1>2, SealDoes
<1>3. ASSUME NEW o \in Opens, NEW p \in Processes, Start(o, p) PROVE OwnersBelong'
  BY <1>3 DEF Start
<1>4. ASSUME NEW p \in Processes, Claim(p) PROVE OwnersBelong'
  <2>1. CASE runtime = Nobody /\ opening # NoOpening /\ SameExecution(p) /\ ~opening.sealed
    <3>1. /\ opening' = [opening EXCEPT !.owners = @ \cup {p}]
          /\ process' = [process EXCEPT ![p] = IF process[p] = "started" THEN "owner" ELSE "dead_owner"]
          /\ opener' = opener /\ generation' = generation
          /\ opener[p] \in Opens /\ opening.generation = generation[opener[p]]
      BY <1>4, <2>1 DEF Claim, SameExecution, Exclusive
    <3>2. opening'.owners = opening.owners \cup {p} /\ opening'.generation = opening.generation
      BY <2>1, <3>1
    <3> QED
      BY <2>1, <3>1, <3>2
  <2>2. CASE ~(runtime = Nobody /\ opening # NoOpening /\ SameExecution(p) /\ ~opening.sealed)
    BY <1>4, <2>2 DEF Claim
  <2> QED
    BY <2>1, <2>2
<1>5. ASSUME NEW p \in Processes, Release(p) PROVE OwnersBelong'
  <2>1. CASE opening # NoOpening /\ p \in opening.owners
    <3>1. opening' = NoOpening \/ opening' = [opening EXCEPT !.owners = @ \ {p}]
      BY <1>5, <2>1 DEF Release, EndOpening, SameExecution, Exclusive
    <3>2. /\ process' = [process EXCEPT ![p] = "gone"]
          /\ opener' = opener /\ generation' = generation
      BY <1>5 DEF Release
    <3> QED
      BY <2>1, <3>1, <3>2
  <2>2. CASE ~(opening # NoOpening /\ p \in opening.owners)
    BY <1>5, <2>2 DEF Release
  <2> QED
    BY <2>1, <2>2
<1>6. ASSUME NEW p \in Processes, StartOutside(p) PROVE OwnersBelong'
  BY <1>6 DEF StartOutside
<1>7. ASSUME NEW p \in Processes, Exit(p) PROVE OwnersBelong'
  BY <1>7 DEF Exit, Alive
<1>8. ASSUME NEW p \in Processes, Register(p) \/ Unregister(p) PROVE OwnersBelong'
  BY <1>8 DEF Register, Unregister
<1>9. CASE UNCHANGED <<opening, generation, process, opener>>
  BY <1>9
<1> QED
  BY <1>1, <1>2, <1>3, <1>4, <1>5, <1>6, <1>7, <1>8, <1>9, StepKinds
     DEF Announce, Check, EndExecution

\* The part of SomebodyEndsIt that says who.
EndedBySomebody ==
    opening # NoOpening =>
        IF opening.sealed THEN opening.owners # {}
        ELSE \E o \in Opens : /\ generation[o] = opening.generation
                              /\ caller[o] \notin Ends \cup {"idle", "checking"}

\* An opening passes from the call that began it to its owners, and ends with
\* the last of them.
LEMMA EndedStep ==
    TypeOK /\ Generations /\ Exclusive /\ EndedBySomebody /\ Next => EndedBySomebody'
<1> SUFFICES ASSUME TypeOK, Generations, Exclusive, EndedBySomebody, Next PROVE EndedBySomebody'
  OBVIOUS
<1> USE DEF TypeOK, EndedBySomebody, Move
<1>1. ASSUME NEW o \in Opens, Begin(o) PROVE EndedBySomebody'
  <2>1. CASE State = "Closed"
    <3>1. /\ opening' = [generation |-> generations + 1, owners |-> {}, sealed |-> FALSE]
          /\ generation'[o] = generations + 1 /\ caller'[o] = "executing"
      BY <1>1, <2>1 DEF Begin
    <3> QED
      BY <3>1
  <2>2. CASE State # "Closed"
    BY <1>1, <2>2 DEF Begin
  <2> QED
    BY <2>1, <2>2
<1>2. ASSUME NEW o \in Opens, Seal(o) PROVE EndedBySomebody'
  <2>1. CASE opening' = opening /\ opening # NoOpening /\ ~opening.sealed
    <3>1. PICK o1 \in Opens : /\ generation[o1] = opening.generation
                              /\ caller[o1] \notin Ends \cup {"idle", "checking"}
      BY <2>1
    <3>2. o1 # o
      BY <1>2, <2>1, <3>1 DEF Seal, OwnGeneration, State, Sealed, Exclusive
    <3> QED
      BY <1>2, <2>1, <3>1, <3>2, SealDoes
  <2>2. CASE ~(opening' = opening /\ opening # NoOpening /\ ~opening.sealed)
    BY <1>2, <2>2, SealDoes
  <2> QED
    BY <2>1, <2>2
<1>3. ASSUME NEW o \in Opens, Check(o) PROVE EndedBySomebody'
  BY <1>3 DEF Check
<1>4. ASSUME NEW o \in Opens, NEW result \in Results, EndExecution(o, result)
      PROVE EndedBySomebody'
  BY <1>4 DEF EndExecution
<1>5. ASSUME NEW p \in Processes, Claim(p) PROVE EndedBySomebody'
  BY <1>5 DEF Claim
<1>6. ASSUME NEW p \in Processes, Release(p) PROVE EndedBySomebody'
  BY <1>6 DEF Release, EndOpening, EndsOpening
<1>7. ASSUME NEW p \in Processes, Register(p) \/ Unregister(p) PROVE EndedBySomebody'
  BY <1>7 DEF Register, Unregister
<1>8. CASE UNCHANGED <<opening, generation, caller>>
  BY <1>8
<1> QED
  BY <1>1, <1>2, <1>3, <1>4, <1>5, <1>6, <1>7, <1>8, StepKinds
     DEF Announce, Start, StartOutside, Exit

\* An opening ends under an execution only with the registration of a runtime.
LEMMA CoveredStep ==
    /\ TypeOK /\ Generations /\ Exclusive /\ SealedByItsCall /\ ExecutionIsCovered
    /\ Next
    => ExecutionIsCovered'
<1> SUFFICES ASSUME TypeOK, Generations, Exclusive, SealedByItsCall, ExecutionIsCovered, Next
             PROVE  ExecutionIsCovered'
  OBVIOUS
<1> USE DEF TypeOK, ExecutionIsCovered, Move
<1>1. ASSUME NEW o \in Opens, Begin(o) PROVE ExecutionIsCovered'
  <2>1. CASE State = "Closed"
    <3>1. /\ opening' = [generation |-> generations + 1, owners |-> {}, sealed |-> FALSE]
          /\ generation' = [generation EXCEPT ![o] = generations + 1]
          /\ caller' = [caller EXCEPT ![o] = "executing"]
          /\ readied' = readied
      BY <1>1, <2>1 DEF Begin
    <3>2. opening' \in [generation : Nat, owners : SUBSET Processes, sealed : BOOLEAN]
      BY <3>1
    <3>3. opening' # NoOpening
      BY <3>2, NoOpeningAssumption
    <3>4. opening = NoOpening
      BY <2>1 DEF State
    <3> QED
      BY <3>1, <3>3, <3>4
  <2>2. CASE State # "Closed"
    BY <1>1, <2>2 DEF Begin
  <2> QED
    BY <2>1, <2>2
<1>2. ASSUME NEW o \in Opens, Seal(o) PROVE ExecutionIsCovered'
  <2>2. caller[o] \in Active /\ UNCHANGED <<readied, generation>>
    BY <1>2, SealDoes DEF Seal
  <2>1. PICK end \in {"checking", "failed", "opened"} : caller' = [caller EXCEPT ![o] = end]
    BY <1>2, SealDoes
  <2>3. \A o1 \in Opens \ {o} : caller'[o1] = caller[o1]
    BY <2>1
  <2>4. caller'[o] \notin Active
    BY <2>1
  <2>5. \A o1 \in Opens \ {o} : generation[o1] = generation[o] => generation[o1] = 0
    BY DEF Generations
  <2>6. generation[o] # 0
    BY <2>2 DEF Generations
  <2>7. \/ opening' = opening
        \/ opening.generation = generation[o]
    BY <1>2, SealDoes
  <2> QED
    BY <2>2, <2>3, <2>4, <2>5, <2>6, <2>7
<1>3. ASSUME NEW o \in Opens, Check(o) PROVE ExecutionIsCovered'
  BY <1>3 DEF Check
<1>4. ASSUME NEW o \in Opens, NEW result \in Results, EndExecution(o, result)
      PROVE ExecutionIsCovered'
  BY <1>4 DEF EndExecution
<1>5. ASSUME NEW p \in Processes, Claim(p) PROVE ExecutionIsCovered'
  <2>1. CASE opening' = opening
    BY <1>5, <2>1 DEF Claim
  <2>2. CASE opening' # opening
    <3>1. opening # NoOpening /\ opening' = [opening EXCEPT !.owners = @ \cup {p}]
      BY <1>5, <2>2 DEF Claim
    <3>2. opening' \in Opening /\ opening'.generation = opening.generation
      BY <3>1 DEF Opening
    <3>3. opening' # NoOpening
      BY <3>2, OpeningIsThere
    <3> QED
      BY <1>5, <3>1, <3>2, <3>3 DEF Claim
  <2> QED
    BY <2>1, <2>2
<1>6. ASSUME NEW p \in Processes, Release(p) PROVE ExecutionIsCovered'
  <2>1. CASE opening' = opening
    BY <1>6, <2>1 DEF Release
  <2>2. CASE opening' # opening /\ ~opening.sealed
    <3>1. opening # NoOpening /\ opening' = [opening EXCEPT !.owners = @ \ {p}]
      BY <1>6, <2>2 DEF Release, EndsOpening
    <3>2. opening' \in Opening /\ opening'.generation = opening.generation
      BY <3>1 DEF Opening
    <3>3. opening' # NoOpening
      BY <3>2, OpeningIsThere
    <3> QED
      BY <1>6, <3>1, <3>2, <3>3 DEF Release
  <2>3. CASE opening' # opening /\ opening.sealed
    <3>1. /\ opening # NoOpening /\ UNCHANGED <<caller, generation, readied>>
      BY <1>6, <2>3 DEF Release
    <3>2. \A o \in Opens : caller[o] \in Active => o \in readied
      BY <2>3, <3>1 DEF SealedByItsCall
    <3> QED
      BY <3>1, <3>2
  <2> QED
    BY <2>1, <2>2, <2>3
<1>7. ASSUME NEW p \in Processes, Register(p) PROVE ExecutionIsCovered'
  BY <1>7 DEF Register
<1>8. ASSUME NEW p \in Processes, Unregister(p) PROVE ExecutionIsCovered'
  BY <1>8, NullAssumption DEF Unregister, Exclusive
<1>9. CASE UNCHANGED <<opening, generation, caller, readied>>
  BY <1>9
<1> QED
  BY <1>1, <1>2, <1>3, <1>4, <1>5, <1>6, <1>7, <1>8, <1>9, StepKinds
     DEF Announce, Start, StartOutside, Exit

\* Who changes the state of the registry tells, or is a call that has yet to
\* look at its result.
LEMMA ChangeIsTold ==
    ASSUME TypeOK, Exclusive, Next, State' # State
    PROVE  shown' = shown /\ (announcing' # {} \/ (runtime' = Nobody /\
             \E o \in Opens : caller'[o] = "checking"))
<1> USE DEF TypeOK, Move, Tells
<1>1. ASSUME NEW o \in Opens, Begin(o)
      PROVE  shown' = shown /\ announcing' # {}
  BY <1>1 DEF Begin, State
<1>2. ASSUME NEW o \in Opens, Seal(o)
      PROVE  shown' = shown /\ (announcing' # {} \/ (runtime' = Nobody /\ caller'[o] = "checking"))
  <2>1. opening # NoOpening /\ opening' = NoOpening /\ runtime = Nobody
        /\ runtime' = Nobody /\ opening.generation = generation[o] /\ opening.owners = {}
    <3>1. ASSUME opening # NoOpening, opening' \in Opening PROVE opening' # NoOpening
      BY <3>1, OpeningIsThere
    <3> QED
      BY <1>2, <3>1, SealDoes DEF State
  <2>2. caller[o] = "sealing_ok" => caller'[o] = "checking"
    BY <1>2, <2>1 DEF Seal, OwnGeneration
  <2>3. caller[o] # "sealing_ok" => announcing' # {}
    BY <1>2, <2>1 DEF Seal, OwnGeneration
  <2> QED
    BY <1>2, <2>1, <2>2, <2>3, SealDoes
<1>3. ASSUME NEW p \in Processes, Claim(p) PROVE FALSE
  <2>1. runtime' = runtime
    BY <1>3 DEF Claim
  <2>2. opening # NoOpening /\ opening' = [opening EXCEPT !.owners = @ \cup {p}]
    BY <1>3, <2>1 DEF Claim, State
  <2>3. opening' \in Opening
    BY <2>2 DEF Opening
  <2> QED
    BY <2>1, <2>2, <2>3, OpeningIsThere DEF State
<1>4. ASSUME NEW p \in Processes, Release(p) PROVE shown' = shown /\ announcing' # {}
  <2>1. runtime' = runtime /\ opening # NoOpening
    BY <1>4 DEF Release, State
  <2>2. CASE opening' = [opening EXCEPT !.owners = @ \ {p}]
    <3>1. opening' \in Opening
      BY <2>1, <2>2 DEF Opening
    <3> QED
      BY <2>1, <3>1, OpeningIsThere DEF State
  <2>3. CASE opening' # [opening EXCEPT !.owners = @ \ {p}]
    BY <1>4, <2>3 DEF Release, EndOpening, State
  <2> QED
    BY <2>2, <2>3
<1>5. ASSUME NEW p \in Processes, Register(p) \/ Unregister(p)
      PROVE  shown' = shown /\ announcing' # {}
  BY <1>5 DEF Register, Unregister
<1> QED
  BY <1>1, <1>2, <1>3, <1>4, <1>5, StepKinds DEF State, Announce, Start, StartOutside, Exit,
     Check, EndExecution, registry

\* A surface is behind only while there is somebody who will tell it.
LEMMA ShownStep ==
    TypeOK /\ Exclusive /\ OpenIsShown /\ ShownIsCurrent /\ Next => OpenIsShown' /\ ShownIsCurrent'
<1> SUFFICES ASSUME TypeOK, Exclusive, OpenIsShown, ShownIsCurrent, Next
             PROVE  OpenIsShown' /\ ShownIsCurrent'
  OBVIOUS
<1> USE DEF TypeOK, OpenIsShown, ShownIsCurrent
<1>1. CASE State' # State
  BY <1>1, ChangeIsTold
<1>2. ASSUME NEW who, Announce(who) PROVE OpenIsShown' /\ ShownIsCurrent'
  BY <1>2 DEF Announce, State, registry
<1>3. CASE State' = State /\ \A who \in Opens \cup Processes : ~Announce(who)
  <2>1. shown' = shown /\ announcing \subseteq announcing'
    BY <1>3, StepKinds, SealDoes DEF Begin, Check, EndExecution, Start, Claim, Release,
       EndOpening, StartOutside, Exit, Register, Unregister, Tells
  <2>2. runtime' # Nobody => State = "Open"
    BY <1>3 DEF State
  <2>3. State = "Open" => runtime # Nobody
    BY DEF State
  <2>4. ASSUME announcing' = {}, NEW o \in Opens, caller[o] = "checking", caller'[o] # "checking"
        PROVE  State = "Open"
    <3>1. Check(o)
      <4>1. \A o1 \in Opens : o1 # o /\ caller' = [caller EXCEPT ![o1] = caller'[o1]]
              => caller'[o] = caller[o]
        BY <2>4
      <4> QED
        BY <1>3, <2>4, StepKinds, SealDoes DEF Begin, Seal, Check, EndExecution, Start, Claim,
           Release, StartOutside, Exit, Register, Unregister, Move
    <3> QED
      BY <2>4, <3>1 DEF Check, Tells
  <2> QED
    BY <1>3, <2>1, <2>2, <2>3, <2>4
<1> QED
  BY <1>1, <1>2, <1>3
----------------------------------------------------------------------------
IInv == /\ TypeOK /\ Generations /\ Exclusive /\ SealedByItsCall
        /\ SomebodyEndsIt /\ ExecutionIsCovered /\ OpenIsShown /\ ShownIsCurrent

\* The inductive invariant holds throughout.
THEOREM Invariant == Spec => []IInv
<1>1. Init => IInv
  BY InitTyped DEF Init, IInv, Generations, Exclusive, SealedByItsCall, SomebodyEndsIt,
     OwnersBelong, ExecutionIsCovered, OpenIsShown, ShownIsCurrent, State
<1>2. IInv /\ [Next]_vars => IInv'
  <2> SUFFICES ASSUME IInv, [Next]_vars PROVE IInv'
    OBVIOUS
  <2> USE DEF IInv
  <2>1. CASE Next
    <3>1. SomebodyEndsIt'
      BY <2>1, OwnersStep, EndedStep DEF SomebodyEndsIt, EndedBySomebody
    <3> QED
      BY <2>1, <3>1, TypeStep, GenerationsStep, ExclusiveStep, SealedStep, CoveredStep, ShownStep
  <2>2. CASE UNCHANGED vars
    BY <2>2 DEF vars, TypeOK, Generations, Exclusive, SealedByItsCall, SomebodyEndsIt,
       OwnersBelong, ExecutionIsCovered, OpenIsShown, ShownIsCurrent, State
  <2> QED
    BY <2>1, <2>2
<1> QED
  BY <1>1, <1>2, PTL DEF Spec

\* Type correctness of the opening of a module.
THEOREM TypeInvariant == Spec => []TypeOK
<1>1. IInv => TypeOK
  BY DEF IInv
<1> QED
  BY <1>1, Invariant, PTL

\* No opening is orphaned: its own execution, or a process that it left behind
\* unreaped, will end it (claim_opening_owner, seal_opening,
\* release_opening_owner).
THEOREM OpeningsAreEnded == Spec => []SomebodyEndsIt
<1>1. IInv => SomebodyEndsIt
  BY DEF IInv
<1> QED
  BY <1>1, Invariant, PTL

\* The registry holds the opening of an execution as long as it runs, unless
\* a runtime registered meanwhile.
THEOREM ExecutionsAreCovered == Spec => []ExecutionIsCovered
<1>1. IInv => ExecutionIsCovered
  BY DEF IInv
<1> QED
  BY <1>1, Invariant, PTL

\* Two Open calls execute at once only if a runtime registered while one of
\* them did: begin_opening keeps their executions apart until then.
OneExecution ==
    \A o1, o2 \in Opens \ readied :
        caller[o1] \in Active /\ caller[o2] \in Active => o1 = o2

THEOREM ExecutionsAreApart == Spec => []OneExecution
<1>1. IInv => OneExecution
  BY DEF IInv, OneExecution, Generations, ExecutionIsCovered
<1> QED
  BY <1>1, Invariant, PTL

\* Every change of the state of a module reaches the surfaces
\* (broadcast_surface_module_change).
THEOREM SurfacesAreCurrent == Spec => []ShownIsCurrent
<1>1. IInv => ShownIsCurrent
  BY DEF IInv
<1> QED
  BY <1>1, Invariant, PTL

\* Open reports success with the module open, or with a process that will
\* open it or end the opening (execute_governor_target_with_observer).
THEOREM SuccessesAreBacked == Spec => SuccessIsBacked
<1>1. ASSUME IInv, Next, NEW o \in Opens, caller[o] # "opened", caller'[o] = "opened"
      PROVE  runtime # Nobody \/ (opening # NoOpening /\ opening.owners # {})
  <2> USE DEF IInv, TypeOK, Move
  <2>1. \E o1 \in Opens : Seal(o1) \/ Check(o1)
    BY <1>1, StepKinds DEF Begin, EndExecution, Announce, Start, Claim, Release, StartOutside,
       Exit, Register, Unregister
  <2>2. ASSUME NEW o1 \in Opens, Seal(o1)
        PROVE  runtime # Nobody \/ (opening # NoOpening /\ opening.owners # {})
    <3>1. o1 = o
      <4>1. PICK end \in {"checking", "failed", "opened"} : caller' = [caller EXCEPT ![o1] = end]
        BY <1>1, <2>2, SealDoes
      <4> QED
        BY <1>1, <4>1
    <3> QED
      BY <1>1, <2>2, <3>1 DEF Seal
  <2>3. ASSUME NEW o1 \in Opens, Check(o1) PROVE runtime # Nobody
    BY <1>1, <2>3 DEF Check, State
  <2> QED
    BY <2>1, <2>2, <2>3
<1>2. IInv /\ [Next]_vars =>
        [\A o \in Opens : caller[o] # "opened" /\ caller'[o] = "opened" =>
            runtime # Nobody \/ (opening # NoOpening /\ opening.owners # {})]_vars
  BY <1>1
<1> QED
  BY <1>2, Invariant, PTL DEF Spec, SuccessIsBacked
=============================================================================
