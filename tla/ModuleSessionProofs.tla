------------------------- MODULE ModuleSessionProofs -------------------------
(***************************************************************************)
(* Proofs about the calls into a module runtime, for any connections and   *)
(* any calls.                                                              *)
(*                                                                         *)
(* The invariant says where a call can be found at each point of its       *)
(* thread: in the pending registry under the session of its target, in the *)
(* hands of a handler, answered, or nowhere any more. What a caller is     *)
(* told needs no more. That somebody is left to tell it, and who, is said  *)
(* of sessions: a session identifier is all that the registries compare,   *)
(* and nothing here supposes that two connections never share one.         *)
(***************************************************************************)
EXTENDS ModuleSession, TLAPS

Sent == {"waiting", "timing_out", "timed_out", "response", "disconnected"}

\* Whom a call was addressed to, and where it went.
Addressed ==
    \A r \in Requests :
        /\ target[r] = NoConnection <=> invoker[r] \in {"idle", "no_runtime"}
        /\ pending[r] # NoSession =>
               /\ invoker[r] \in {"registered", "checked", "waiting", "timing_out"}
               /\ pending[r] = SessionOf[target[r]]
        /\ \A c \in Connections : r \in queue[c] \cup delivered[c] =>
               target[r] = c /\ invoker[r] \in Sent

\* What a handler took out of the pending registry, and what it made of it.
Held ==
    \A r \in Requests :
        /\ \A c \in Connections : r \in slot[c] =>
               /\ handler[c] = "delivering" /\ slot[c] = {r}
               /\ target[r] # NoConnection /\ SessionOf[c] = SessionOf[target[r]]
               /\ r \in delivered[target[r]]
        /\ \A c \in Connections : r \in failing[c] =>
               /\ handler[c] = "failing"
               /\ target[r] # NoConnection /\ SessionOf[target[r]] = SessionOf[c]
        /\ answer[r] = "response" => target[r] # NoConnection /\ r \in delivered[target[r]]
        /\ answeredBy[r] # NoConnection =>
               target[r] # NoConnection /\ SessionOf[answeredBy[r]] = SessionOf[target[r]]

\* What was taken out of the pending registry does not come back to it, and a
\* call that returned with a response was given one.
TakenOut ==
    \A r \in Requests :
        /\ answer[r] # "none" \/ (\E c \in Connections : r \in slot[c] \cup failing[c]) =>
            pending[r] = NoSession /\ invoker[r] \notin {"idle", "no_runtime", "resolved"}
        /\ invoker[r] = "response" => answer[r] = "response"

\* A registered runtime has a handler that has yet to unregister it.
RuntimeServes == runtime # NoConnection => handler[runtime] \in Serving

\* A handler that could not acknowledge its runtime never reads.
Unheard ==
    \A c \in Connections :
        /\ handler[c] = "refusing" => left[c] = "unacknowledged"
        /\ left[c] = "unacknowledged" => handler[c] \in {"refusing", "gone"}

\* A handler has yet to fail its session, or ended without doing so.
Looks(c) == handler[c] \in Serving \cup {"unregistered"} \/ left[c] = "unacknowledged"

\* There is one for the session a call was sent to.
SomebodyLooks(r) == \E c \in Connections : SessionOf[c] = SessionOf[target[r]] /\ Looks(c)

\* A call that was not answered is where somebody will find it.
CallIsOwned ==
    \A r \in Requests : invoker[r] \in {"registered", "checked", "waiting"} /\ answer[r] = "none" =>
        \/ /\ pending[r] = SessionOf[target[r]]
           /\ invoker[r] # "registered" => SomebodyLooks(r)
        \/ \E c \in Connections : r \in slot[c] \cup failing[c]

USE DEF HandlerStates, Errors, Outcomes, InvokerStates, Serving, Sent,
        registries, threads, transport, calls, Reading, Leave, Returned, Return, Advance, Cancel
----------------------------------------------------------------------------
\* Every step of Next is one of these.
LEMMA StepKinds ==
    ASSUME Next
    PROVE  \/ \E c \in Connections :
                  \/ Register(c) \/ Acknowledge(c) \/ Refuse(c) \/ PeerLeaves(c) \/ Unregister(c) \/ FailSession(c)
                  \/ StartJoin(c) \/ Joined(c) \/ WriterEnds(c) \/ WriteFails(c)
           \/ \E c \in Connections, r \in Requests :
                  \/ \E sameEndpoint \in BOOLEAN : ReadResponse(c, r, sameEndpoint)
                  \/ DeliverResponse(c, r) \/ WakeFailed(c, r) \/ WriteInvoke(c, r)
           \/ \E r \in Requests :
                  \/ Resolve(r) \/ RegisterPending(r) \/ Recheck(r) \/ Send(r)
                  \/ Receive(r) \/ Timeout(r) \/ ReturnTimedOut(r)
  BY DEF Next, Handler, Writer, Invoke

\* The types hold before anybody connects.
LEMMA InitTyped == Init => TypeOK
<1> SUFFICES ASSUME Init PROVE TypeOK
  OBVIOUS
<1>1. writer \in [Connections -> BOOLEAN]
  BY DEF Init
<1> QED
  BY <1>1 DEF Init, TypeOK

\* Every step keeps the types.
LEMMA TypeStep == TypeOK /\ Addressed /\ Next => TypeOK'
<1> SUFFICES ASSUME TypeOK, Addressed, Next PROVE TypeOK'
  OBVIOUS
<1> USE DEF TypeOK
<1>1. ASSUME NEW c \in Connections, Register(c) PROVE TypeOK'
  <2>1. writer' \in [Connections -> BOOLEAN]
    BY <1>1 DEF Register
  <2> QED
    BY <1>1, <2>1 DEF Register
<1>2. ASSUME NEW c \in Connections, PeerLeaves(c) PROVE TypeOK'
  BY <1>2 DEF PeerLeaves
<1>3. ASSUME NEW c \in Connections, Unregister(c) PROVE TypeOK'
  BY <1>3 DEF Unregister, Unregistered
<1>4. ASSUME NEW c \in Connections, FailSession(c) PROVE TypeOK'
  BY <1>4 DEF FailSession
<1>5. ASSUME NEW c \in Connections, StartJoin(c) PROVE TypeOK'
  BY <1>5 DEF StartJoin
<1>6. ASSUME NEW c \in Connections, Joined(c) PROVE TypeOK'
  BY <1>6 DEF Joined
<1>7. ASSUME NEW c \in Connections, WriterEnds(c) PROVE TypeOK'
  <2>1. writer' \in [Connections -> BOOLEAN]
    BY <1>7 DEF WriterEnds
  <2> QED
    BY <1>7, <2>1 DEF WriterEnds
<1>8. ASSUME NEW c \in Connections, WriteFails(c) PROVE TypeOK'
  <2>1. writer' \in [Connections -> BOOLEAN]
    BY <1>8 DEF WriteFails
  <2> QED
    BY <1>8, <2>1 DEF WriteFails
<1>9. ASSUME NEW c \in Connections, NEW r \in Requests, NEW sameEndpoint \in BOOLEAN,
             ReadResponse(c, r, sameEndpoint)
      PROVE  TypeOK'
  BY <1>9 DEF ReadResponse
<1>10. ASSUME NEW c \in Connections, NEW r \in Requests, DeliverResponse(c, r) PROVE TypeOK'
  BY <1>10 DEF DeliverResponse
<1>11. ASSUME NEW c \in Connections, NEW r \in Requests, WakeFailed(c, r) PROVE TypeOK'
  BY <1>11 DEF WakeFailed
<1>12. ASSUME NEW c \in Connections, NEW r \in Requests, WriteInvoke(c, r) PROVE TypeOK'
  BY <1>12 DEF WriteInvoke
<1>13. ASSUME NEW r \in Requests, Resolve(r) PROVE TypeOK'
  BY <1>13 DEF Resolve
<1>14. ASSUME NEW r \in Requests, RegisterPending(r) PROVE TypeOK'
  BY <1>14, SessionAssumption DEF RegisterPending, Addressed
<1>15. ASSUME NEW r \in Requests, Recheck(r) PROVE TypeOK'
  BY <1>15 DEF Recheck
<1>16. ASSUME NEW r \in Requests, Send(r) PROVE TypeOK'
  BY <1>16 DEF Send, Addressed
<1>17. ASSUME NEW r \in Requests, Receive(r) PROVE TypeOK'
  BY <1>17 DEF Receive
<1>18. ASSUME NEW r \in Requests, Timeout(r) PROVE TypeOK'
  BY <1>18 DEF Timeout
<1>19. ASSUME NEW r \in Requests, ReturnTimedOut(r) PROVE TypeOK'
  BY <1>19 DEF ReturnTimedOut
<1>20. ASSUME NEW c \in Connections, Acknowledge(c) PROVE TypeOK'
  BY <1>20 DEF Acknowledge
<1>21. ASSUME NEW c \in Connections, Refuse(c) PROVE TypeOK'
  BY <1>21 DEF Refuse, Unregistered
<1> QED
  BY <1>1, <1>2, <1>3, <1>4, <1>5, <1>6, <1>7, <1>8, <1>9, <1>10, <1>11, <1>12, <1>13, <1>14,
     <1>15, <1>16, <1>17, <1>18, <1>19, <1>20, <1>21, StepKinds

\* The handler that fails its session takes exactly the entries of the session.
LEMMA FailSessionDoes ==
    ASSUME TypeOK, NEW c \in Connections, FailSession(c)
    PROVE  /\ handler[c] = "unregistered" /\ handler' = [handler EXCEPT ![c] = "failing"]
           /\ \A r \in Requests : r \in failing'[c] <=> pending[r] = SessionOf[c]
           /\ \A d \in Connections \ {c} : failing'[d] = failing[d]
           /\ \A r \in Requests :
                  pending'[r] = IF pending[r] = SessionOf[c] THEN NoSession ELSE pending[r]
           /\ SessionOf[c] # NoSession
           /\ UNCHANGED <<runtime, slot, left, transport, calls>>
<1>1. SessionOf[c] # NoSession
  BY SessionAssumption, NullAssumption
<1>2. \A r \in Requests : r \in failing'[c] <=> pending[r] = SessionOf[c]
  BY DEF FailSession, TypeOK
<1>3. \A d \in Connections \ {c} : failing'[d] = failing[d]
  BY DEF FailSession, TypeOK
<1>4. \A r \in Requests :
          pending'[r] = IF pending[r] = SessionOf[c] THEN NoSession ELSE pending[r]
  BY DEF FailSession
<1> QED
  BY <1>1, <1>2, <1>3, <1>4 DEF FailSession

\* A handler takes a request of its own session, or leaves with nothing in its
\* hands.
LEMMA ReadDoes ==
    ASSUME TypeOK, Addressed, Held, NEW c \in Connections, NEW r \in Requests, NEW same \in BOOLEAN,
           ReadResponse(c, r, same)
    PROVE  /\ handler[c] = "serving"
           /\ target[r] # NoConnection /\ r \in delivered[target[r]]
           /\ \A q \in Requests : q \notin slot[c]
           /\ \A d \in Connections \ {c} : handler'[d] = handler[d] /\ slot'[d] = slot[d]
           /\ \/ /\ handler'[c] = "delivering" /\ slot'[c] = {r}
                 /\ SessionOf[c] = SessionOf[target[r]]
              \/ handler'[c] = "leaving" /\ slot'[c] = slot[c]
           /\ UNCHANGED <<runtime, failing, transport, calls>>
<1>1. target[r] # NoConnection /\ r \in delivered[target[r]]
  BY NullAssumption DEF ReadResponse, Known, TypeOK, Addressed
<1>2. pending[r] = SessionOf[target[r]]
  BY DEF ReadResponse, Addressed
<1> QED
  BY <1>1, <1>2 DEF ReadResponse, Expected, TypeOK, Held

\* A call has a target from its snapshot on, an entry while it may be answered,
\* and goes to its target only.
LEMMA AddressedStep == TypeOK /\ Addressed /\ TakenOut /\ Next => Addressed'
<1> SUFFICES ASSUME TypeOK, Addressed, TakenOut, Next PROVE Addressed'
  OBVIOUS
<1> USE DEF TypeOK, Addressed, TakenOut
<1>1. ASSUME NEW c \in Connections, FailSession(c) PROVE Addressed'
  BY <1>1, NullAssumption DEF FailSession
<1>2. ASSUME NEW c \in Connections, WriteFails(c) PROVE Addressed'
  BY <1>2 DEF WriteFails
<1>3. ASSUME NEW c \in Connections, NEW r \in Requests, NEW same \in BOOLEAN, ReadResponse(c, r, same)
      PROVE  Addressed'
  BY <1>3 DEF ReadResponse
<1>4. ASSUME NEW c \in Connections, NEW r \in Requests, WriteInvoke(c, r) PROVE Addressed'
  BY <1>4 DEF WriteInvoke
<1>5. ASSUME NEW r \in Requests, Resolve(r) PROVE Addressed'
  BY <1>5, NullAssumption DEF Resolve
<1>6. ASSUME NEW r \in Requests, RegisterPending(r) PROVE Addressed'
  BY <1>6 DEF RegisterPending
<1>7. ASSUME NEW r \in Requests, Recheck(r) PROVE Addressed'
  BY <1>7 DEF Recheck
<1>8. ASSUME NEW r \in Requests, Send(r) PROVE Addressed'
  BY <1>8 DEF Send
<1>9. ASSUME NEW r \in Requests, Receive(r) PROVE Addressed'
  BY <1>9 DEF Receive
<1>10. ASSUME NEW r \in Requests, Timeout(r) PROVE Addressed'
  BY <1>10 DEF Timeout
<1>11. ASSUME NEW r \in Requests, ReturnTimedOut(r) PROVE Addressed'
  BY <1>11 DEF ReturnTimedOut
<1>12. CASE UNCHANGED <<target, invoker, pending, queue, delivered>>
  BY <1>12
<1> QED
  BY <1>1, <1>2, <1>3, <1>4, <1>5, <1>6, <1>7, <1>8, <1>9, <1>10, <1>11, <1>12, StepKinds
     DEF Register, Acknowledge, Refuse, PeerLeaves, Unregister, StartJoin, Joined, WriterEnds,
         DeliverResponse, WakeFailed

\* A handler holds only what it read, or failed, for its own session.
LEMMA HeldStep == TypeOK /\ Addressed /\ Held /\ Next => Held'
<1> SUFFICES ASSUME TypeOK, Addressed, Held, Next PROVE Held'
  OBVIOUS
<1> USE DEF TypeOK, Addressed, Held
<1>1. ASSUME NEW c \in Connections, Register(c) PROVE Held'
  BY <1>1 DEF Register
<1>2. ASSUME NEW c \in Connections, PeerLeaves(c) PROVE Held'
  BY <1>2 DEF PeerLeaves
<1>3. ASSUME NEW c \in Connections, Unregister(c) PROVE Held'
  BY <1>3 DEF Unregister, Unregistered
<1>4. ASSUME NEW c \in Connections, FailSession(c) PROVE Held'
  BY <1>4, FailSessionDoes
<1>5. ASSUME NEW c \in Connections, StartJoin(c) PROVE Held'
  BY <1>5 DEF StartJoin
<1>6. ASSUME NEW c \in Connections, Joined(c) PROVE Held'
  BY <1>6 DEF Joined
<1>7. ASSUME NEW c \in Connections, NEW r \in Requests, NEW same \in BOOLEAN, ReadResponse(c, r, same)
      PROVE  Held'
  <2>1. \A q \in Requests, d \in Connections : q \in slot'[d] =>
            /\ handler'[d] = "delivering" /\ slot'[d] = {q}
            /\ target[q] # NoConnection /\ SessionOf[d] = SessionOf[target[q]]
            /\ q \in delivered[target[q]]
    <3> SUFFICES ASSUME NEW q \in Requests, NEW d \in Connections, q \in slot'[d]
                 PROVE  /\ handler'[d] = "delivering" /\ slot'[d] = {q}
                        /\ target[q] # NoConnection /\ SessionOf[d] = SessionOf[target[q]]
                        /\ q \in delivered[target[q]]
      OBVIOUS
    <3>1. CASE d = c
      BY <1>7, <3>1, ReadDoes
    <3>2. CASE d # c
      BY <1>7, <3>2, ReadDoes
    <3> QED
      BY <3>1, <3>2
  <2>2. \A q \in Requests, d \in Connections : q \in failing'[d] => handler'[d] = "failing"
    <3> SUFFICES ASSUME NEW q \in Requests, NEW d \in Connections, q \in failing'[d]
                 PROVE  handler'[d] = "failing"
      OBVIOUS
    <3>1. q \in failing[d] /\ handler[d] = "failing" /\ d # c
      BY <1>7, ReadDoes
    <3> QED
      BY <1>7, <3>1, ReadDoes
  <2>3. UNCHANGED <<failing, target, answer, answeredBy, delivered>>
    BY <1>7, ReadDoes
  <2> QED
    BY <2>1, <2>2, <2>3
<1>8. ASSUME NEW c \in Connections, NEW r \in Requests, DeliverResponse(c, r) PROVE Held'
  BY <1>8 DEF DeliverResponse
<1>9. ASSUME NEW c \in Connections, NEW r \in Requests, WakeFailed(c, r) PROVE Held'
  BY <1>9 DEF WakeFailed
<1>10. ASSUME NEW c \in Connections, NEW r \in Requests, WriteInvoke(c, r) PROVE Held'
  BY <1>10 DEF WriteInvoke
<1>11. ASSUME NEW r \in Requests, Resolve(r) PROVE Held'
  BY <1>11 DEF Resolve
<1>12. CASE UNCHANGED <<slot, failing, handler, delivered, target, answer, answeredBy>>
  BY <1>12
<1>13. ASSUME NEW c \in Connections, Acknowledge(c) PROVE Held'
  BY <1>13 DEF Acknowledge
<1>14. ASSUME NEW c \in Connections, Refuse(c) PROVE Held'
  BY <1>14 DEF Refuse
<1> QED
  BY <1>1, <1>2, <1>3, <1>4, <1>5, <1>6, <1>7, <1>8, <1>9, <1>10, <1>11, <1>12, <1>13, <1>14, StepKinds
     DEF WriterEnds, WriteFails, RegisterPending, Recheck, Send, Receive, Timeout, ReturnTimedOut

\* An entry is made once, and taken once.
LEMMA TakenStep == TypeOK /\ Addressed /\ TakenOut /\ Next => TakenOut'
<1> SUFFICES ASSUME TypeOK, Addressed, TakenOut, Next PROVE TakenOut'
  OBVIOUS
<1> USE DEF TypeOK, Addressed, TakenOut
<1>1. ASSUME NEW c \in Connections, FailSession(c) PROVE TakenOut'
  BY <1>1, FailSessionDoes
<1>2. ASSUME NEW c \in Connections, NEW r \in Requests, NEW same \in BOOLEAN, ReadResponse(c, r, same)
      PROVE  TakenOut'
  BY <1>2 DEF ReadResponse
<1>3. ASSUME NEW c \in Connections, NEW r \in Requests, DeliverResponse(c, r) PROVE TakenOut'
  BY <1>3 DEF DeliverResponse
<1>4. ASSUME NEW c \in Connections, NEW r \in Requests, WakeFailed(c, r) PROVE TakenOut'
  BY <1>4 DEF WakeFailed
<1>5. ASSUME NEW r \in Requests, Resolve(r) PROVE TakenOut'
  BY <1>5 DEF Resolve
<1>6. ASSUME NEW r \in Requests, RegisterPending(r) PROVE TakenOut'
  BY <1>6 DEF RegisterPending
<1>7. ASSUME NEW r \in Requests, Recheck(r) PROVE TakenOut'
  BY <1>7 DEF Recheck
<1>8. ASSUME NEW r \in Requests, Send(r) PROVE TakenOut'
  BY <1>8 DEF Send
<1>9. ASSUME NEW r \in Requests, Receive(r) PROVE TakenOut'
  BY <1>9 DEF Receive
<1>10. ASSUME NEW r \in Requests, Timeout(r) PROVE TakenOut'
  BY <1>10 DEF Timeout
<1>11. ASSUME NEW r \in Requests, ReturnTimedOut(r) PROVE TakenOut'
  BY <1>11 DEF ReturnTimedOut
<1>12. CASE UNCHANGED <<slot, failing, answer, pending, invoker>>
  BY <1>12
<1> QED
  BY <1>1, <1>2, <1>3, <1>4, <1>5, <1>6, <1>7, <1>8, <1>9, <1>10, <1>11, <1>12, StepKinds
     DEF Register, Acknowledge, Refuse, PeerLeaves, Unregister, StartJoin, Joined, WriterEnds,
         WriteFails, WriteInvoke

\* A handler unregisters its runtime before it goes on.
LEMMA RuntimeStep == TypeOK /\ RuntimeServes /\ Next => RuntimeServes'
<1> SUFFICES ASSUME TypeOK, RuntimeServes, Next PROVE RuntimeServes'
  OBVIOUS
<1> USE DEF TypeOK, RuntimeServes
<1>1. ASSUME NEW c \in Connections, Register(c) PROVE RuntimeServes'
  BY <1>1 DEF Register
<1>2. ASSUME NEW c \in Connections, PeerLeaves(c) PROVE RuntimeServes'
  BY <1>2 DEF PeerLeaves
<1>3. ASSUME NEW c \in Connections, Unregister(c) PROVE RuntimeServes'
  BY <1>3 DEF Unregister, Unregistered
<1>4. ASSUME NEW c \in Connections, FailSession(c) PROVE RuntimeServes'
  BY <1>4 DEF FailSession
<1>5. ASSUME NEW c \in Connections, StartJoin(c) PROVE RuntimeServes'
  BY <1>5 DEF StartJoin
<1>6. ASSUME NEW c \in Connections, Joined(c) PROVE RuntimeServes'
  BY <1>6 DEF Joined
<1>7. ASSUME NEW c \in Connections, NEW r \in Requests, NEW same \in BOOLEAN, ReadResponse(c, r, same)
      PROVE  RuntimeServes'
  BY <1>7 DEF ReadResponse
<1>8. ASSUME NEW c \in Connections, NEW r \in Requests, DeliverResponse(c, r) PROVE RuntimeServes'
  BY <1>8 DEF DeliverResponse
<1>9. CASE UNCHANGED <<runtime, handler>>
  BY <1>9
<1>10. ASSUME NEW c \in Connections, Acknowledge(c) PROVE RuntimeServes'
  BY <1>10 DEF Acknowledge
<1>11. ASSUME NEW c \in Connections, Refuse(c) PROVE RuntimeServes'
  BY <1>11 DEF Refuse, Unregistered
<1> QED
  BY <1>1, <1>2, <1>3, <1>4, <1>5, <1>6, <1>7, <1>8, <1>9, <1>10, <1>11, StepKinds
     DEF WriterEnds, WriteFails, WakeFailed, WriteInvoke, Resolve, RegisterPending, Recheck, Send, Receive, Timeout, ReturnTimedOut

\* Only Acknowledge says that a runtime could not be acknowledged.
LEMMA UnheardStep == TypeOK /\ Held /\ Unheard /\ Next => Unheard'
<1> SUFFICES ASSUME TypeOK, Held, Unheard, Next PROVE Unheard'
  OBVIOUS
<1> USE DEF TypeOK, Unheard
<1>1. ASSUME NEW c \in Connections, Register(c) PROVE Unheard'
  BY <1>1 DEF Register
<1>2. ASSUME NEW c \in Connections, Acknowledge(c) PROVE Unheard'
  BY <1>2 DEF Acknowledge
<1>3. ASSUME NEW c \in Connections, Refuse(c) PROVE Unheard'
  BY <1>3 DEF Refuse
<1>4. ASSUME NEW c \in Connections, PeerLeaves(c) PROVE Unheard'
  BY <1>4 DEF PeerLeaves
<1>5. ASSUME NEW c \in Connections, Unregister(c) PROVE Unheard'
  BY <1>5 DEF Unregister
<1>6. ASSUME NEW c \in Connections, FailSession(c) PROVE Unheard'
  BY <1>6 DEF FailSession
<1>7. ASSUME NEW c \in Connections, StartJoin(c) \/ Joined(c) PROVE Unheard'
  BY <1>7 DEF StartJoin, Joined
<1>8. ASSUME NEW c \in Connections, NEW r \in Requests, NEW same \in BOOLEAN, ReadResponse(c, r, same)
      PROVE  Unheard'
  BY <1>8 DEF ReadResponse
<1>9. ASSUME NEW c \in Connections, NEW r \in Requests, DeliverResponse(c, r) PROVE Unheard'
  BY <1>9 DEF DeliverResponse
<1>10. CASE UNCHANGED <<handler, left>>
  BY <1>10
<1> QED
  BY <1>1, <1>2, <1>3, <1>4, <1>5, <1>6, <1>7, <1>8, <1>9, <1>10, StepKinds
     DEF WriterEnds, WriteFails, WakeFailed, WriteInvoke, Resolve, RegisterPending, Recheck, Send,
         Receive, Timeout, ReturnTimedOut

\* A handler that has yet to fail its session stays, until it fails it.
LEMMA LookersStay ==
    ASSUME TypeOK, Held, Unheard, Next, NEW d \in Connections, Looks(d), ~FailSession(d)
    PROVE  Looks(d)'
<1> SUFFICES handler'[d] \in Serving \cup {"unregistered"} \/ left'[d] = "unacknowledged"
  BY DEF Looks
<1>2. left[d] = "unacknowledged" => handler[d] \in {"refusing", "gone"}
  BY DEF Unheard
<1>3. handler[d] = "refusing" => left[d] = "unacknowledged"
  BY DEF Unheard
<1> USE <1>2, <1>3 DEF TypeOK, Looks
<1>4. ASSUME NEW c \in Connections, Register(c) \/ Acknowledge(c) \/ Refuse(c)
      PROVE  handler'[d] \in Serving \cup {"unregistered"} \/ left'[d] = "unacknowledged"
  BY <1>4 DEF Register, Acknowledge, Refuse
<1>5. ASSUME NEW c \in Connections, PeerLeaves(c) \/ Unregister(c)
      PROVE  handler'[d] \in Serving \cup {"unregistered"} \/ left'[d] = "unacknowledged"
  BY <1>5 DEF PeerLeaves, Unregister
<1>6. ASSUME NEW c \in Connections, FailSession(c)
      PROVE  handler'[d] \in Serving \cup {"unregistered"} \/ left'[d] = "unacknowledged"
  <2>1. c # d
    BY <1>6
  <2> QED
    BY <1>6, <2>1 DEF FailSession
<1>7. ASSUME NEW c \in Connections, StartJoin(c) \/ Joined(c)
      PROVE  handler'[d] \in Serving \cup {"unregistered"} \/ left'[d] = "unacknowledged"
  BY <1>7 DEF StartJoin, Joined
<1>8. ASSUME NEW c \in Connections, NEW q \in Requests, NEW same \in BOOLEAN, ReadResponse(c, q, same)
      PROVE  handler'[d] \in Serving \cup {"unregistered"} \/ left'[d] = "unacknowledged"
  BY <1>8 DEF ReadResponse
<1>9. ASSUME NEW c \in Connections, NEW q \in Requests, DeliverResponse(c, q)
      PROVE  handler'[d] \in Serving \cup {"unregistered"} \/ left'[d] = "unacknowledged"
  BY <1>9 DEF DeliverResponse
<1>10. CASE UNCHANGED <<handler, left>>
  BY <1>10
<1> QED
  BY <1>4, <1>5, <1>6, <1>7, <1>8, <1>9, <1>10, StepKinds
     DEF WriterEnds, WriteFails, WakeFailed, WriteInvoke, Resolve, RegisterPending, Recheck, Send,
         Receive, Timeout, ReturnTimedOut

\* Until a call is answered it stays with a handler of its session, in the
\* registry or in the handler's hands: whoever comes between its steps.
LEMMA OwnedStep ==
    ASSUME TypeOK, Addressed, Held, TakenOut, RuntimeServes, Unheard, CallIsOwned, Next
    PROVE  CallIsOwned'
<1> DEFINE Open(r) == invoker[r] \in {"registered", "checked", "waiting"} /\ answer[r] = "none"
           Kept(r) == pending[r] = SessionOf[target[r]] /\ (invoker[r] # "registered" => SomebodyLooks(r))
           Taken(r) == \E c \in Connections : r \in slot[c] \cup failing[c]
<1> SUFFICES ASSUME NEW r \in Requests, Open(r)' PROVE Kept(r)' \/ Taken(r)'
  BY DEF CallIsOwned
<1>0. Open(r) => Kept(r) \/ Taken(r)
  BY DEF CallIsOwned
<1>a. ASSUME SomebodyLooks(r), target'[r] = target[r],
             \A c \in Connections : FailSession(c) => SessionOf[c] # SessionOf[target[r]]
      PROVE  SomebodyLooks(r)'
  <2>1. PICK d \in Connections : SessionOf[d] = SessionOf[target[r]] /\ Looks(d)
    BY <1>a DEF SomebodyLooks
  <2>2. Looks(d)'
    BY <1>a, <2>1, LookersStay
  <2> QED
    BY <1>a, <2>1, <2>2 DEF SomebodyLooks
<1>b. ASSUME \A c \in Connections : ~FailSession(c), Kept(r), target'[r] = target[r],
             pending'[r] = pending[r], invoker'[r] = invoker[r]
      PROVE  Kept(r)'
  BY <1>a, <1>b
<1> USE DEF TypeOK
<1>1. ASSUME NEW c \in Connections, FailSession(c) PROVE Kept(r)' \/ Taken(r)'
  <2>1. Open(r) /\ target' = target /\ invoker' = invoker
    BY <1>1, FailSessionDoes
  <2>2. CASE Taken(r)
    <3>1. PICK d \in Connections : r \in slot[d] \cup failing[d]
      BY <2>2
    <3>2. d # c \/ r \in slot[d]
      BY <1>1, <3>1, FailSessionDoes DEF Held
    <3> QED
      BY <1>1, <3>1, <3>2, FailSessionDoes
  <2>3. CASE Kept(r) /\ pending[r] = SessionOf[c]
    BY <1>1, <2>3, FailSessionDoes
  <2>4. CASE Kept(r) /\ pending[r] # SessionOf[c]
    <3>1. pending'[r] = pending[r]
      BY <1>1, <2>4, FailSessionDoes
    <3>2. ASSUME NEW e \in Connections, FailSession(e) PROVE SessionOf[e] # SessionOf[target[r]]
      <4>1. handler[c] = "unregistered" /\ handler'[c] = "failing"
        BY <1>1, FailSessionDoes
      <4>2. handler[e] = "unregistered" /\ \A d \in Connections \ {e} : handler'[d] = handler[d]
        BY <3>2, FailSessionDoes
      <4> QED
        BY <2>4, <4>1, <4>2
    <3>3. invoker[r] # "registered" => SomebodyLooks(r)'
      BY <1>a, <2>1, <2>4, <3>2
    <3> QED
      BY <2>1, <2>4, <3>1, <3>3
  <2> QED
    BY <1>0, <2>1, <2>2, <2>3, <2>4
<1>2. CASE \E c \in Connections : FailSession(c)
  BY <1>1, <1>2
<1>3. ASSUME \A c \in Connections : ~FailSession(c) PROVE Kept(r)' \/ Taken(r)'
  <2>1. ASSUME Open(r), UNCHANGED <<slot, failing, target, pending, invoker>>
        PROVE  Kept(r)' \/ Taken(r)'
    BY <1>0, <1>3, <1>b, <2>1
  <2>2. ASSUME NEW c \in Connections, NEW q \in Requests, NEW same \in BOOLEAN,
               ReadResponse(c, q, same)
        PROVE  Kept(r)' \/ Taken(r)'
    <3>1. Open(r) /\ target' = target /\ invoker' = invoker /\ failing' = failing
      BY <2>2, ReadDoes
    <3>2. CASE Taken(r)
      <4>1. PICK d \in Connections : r \in slot[d] \cup failing[d]
        BY <3>2
      <4>2. d # c \/ r \in failing[d]
        BY <2>2, <4>1, ReadDoes
      <4>3. d # c => slot'[d] = slot[d]
        BY <2>2, ReadDoes
      <4> QED
        BY <3>1, <4>1, <4>2, <4>3
    <3>3. CASE Kept(r) /\ pending'[r] = pending[r]
      BY <1>3, <1>b, <3>1, <3>3
    <3>4. CASE Kept(r) /\ pending'[r] # pending[r]
      BY <2>2, <3>4 DEF ReadResponse
    <3> QED
      BY <1>0, <3>1, <3>2, <3>3, <3>4
  <2>3. ASSUME NEW c \in Connections, NEW q \in Requests, DeliverResponse(c, q)
        PROVE  Kept(r)' \/ Taken(r)'
    <3>1. UNCHANGED <<target, pending, failing, invoker>> /\ slot' = [slot EXCEPT ![c] = {}]
      BY <2>3 DEF DeliverResponse
    <3>2. q # r
      BY <2>3, <3>1 DEF DeliverResponse
    <3>3. Open(r)
      BY <2>3, <3>2 DEF DeliverResponse
    <3>4. CASE Taken(r)
      <4>1. PICK d \in Connections : r \in slot[d] \cup failing[d]
        BY <3>4
      <4>2. r \in slot[d] => d # c
        BY <2>3, <3>2 DEF DeliverResponse, Held
      <4> QED
        BY <3>1, <4>1, <4>2
    <3>5. CASE Kept(r)
      BY <1>3, <1>b, <3>1, <3>5
    <3> QED
      BY <1>0, <3>3, <3>4, <3>5
  <2>4. ASSUME NEW c \in Connections, NEW q \in Requests, WakeFailed(c, q)
        PROVE  Kept(r)' \/ Taken(r)'
    <3>1. UNCHANGED <<target, pending, slot, invoker>> /\ failing' = [failing EXCEPT ![c] = @ \ {q}]
      BY <2>4 DEF WakeFailed
    <3>2. q # r
      BY <2>4, <3>1 DEF WakeFailed
    <3>3. Open(r)
      BY <2>4, <3>2 DEF WakeFailed
    <3>4. CASE Taken(r)
      BY <3>1, <3>2, <3>4
    <3>5. CASE Kept(r)
      BY <1>3, <1>b, <3>1, <3>5
    <3> QED
      BY <1>0, <3>3, <3>4, <3>5
  <2>5. ASSUME NEW q \in Requests, RegisterPending(q) PROVE Kept(r)' \/ Taken(r)'
    <3>1. UNCHANGED <<target, slot, failing, answer>>
      BY <2>5 DEF RegisterPending
    <3>2. CASE q = r
      BY <2>5, <3>2 DEF RegisterPending
    <3>3. CASE q # r
      <4>1. pending'[r] = pending[r] /\ invoker'[r] = invoker[r]
        BY <2>5, <3>3 DEF RegisterPending
      <4>2. Open(r)
        BY <3>1, <4>1
      <4> QED
        BY <1>0, <1>3, <1>b, <3>1, <4>1, <4>2
    <3> QED
      BY <3>2, <3>3
  <2>6. ASSUME NEW q \in Requests, Recheck(q) PROVE Kept(r)' \/ Taken(r)'
    <3>1. UNCHANGED <<target, slot, failing, answer>>
      BY <2>6 DEF Recheck
    <3>2. CASE q = r
      <4>1. invoker[r] = "registered" /\ StillRegistered(r) /\ pending' = pending
        BY <2>6, <3>2 DEF Recheck
      <4>2. SomebodyLooks(r)
        BY <4>1, NullAssumption DEF StillRegistered, RuntimeServes, SomebodyLooks, Looks
      <4>3. SomebodyLooks(r)'
        BY <1>3, <1>a, <3>1, <4>2
      <4> QED
        BY <1>0, <3>1, <4>1, <4>3
    <3>3. CASE q # r
      <4>1. pending'[r] = pending[r] /\ invoker'[r] = invoker[r]
        BY <2>6, <3>3 DEF Recheck
      <4> QED
        BY <1>0, <1>3, <1>b, <3>1, <4>1
    <3> QED
      BY <3>2, <3>3
  <2>7. ASSUME NEW q \in Requests, Resolve(q) PROVE Kept(r)' \/ Taken(r)'
    <3>1. UNCHANGED <<pending, slot, failing, answer>>
      BY <2>7 DEF Resolve
    <3>2. q # r
      BY <2>7 DEF Resolve
    <3>3. invoker'[r] = invoker[r] /\ target'[r] = target[r]
      BY <2>7, <3>2 DEF Resolve
    <3> QED
      BY <1>0, <1>3, <1>b, <3>1, <3>3
  <2>8. ASSUME NEW q \in Requests, Send(q) PROVE Kept(r)' \/ Taken(r)'
    <3>1. UNCHANGED <<target, slot, failing, answer>>
      BY <2>8 DEF Send
    <3>2. CASE q = r
      <4>1. invoker[r] = "checked" /\ invoker'[r] = "waiting" /\ pending' = pending
        BY <2>8, <3>2 DEF Send
      <4>2. Open(r)
        BY <3>1, <4>1
      <4>3. SomebodyLooks(r) => SomebodyLooks(r)'
        BY <1>3, <1>a, <3>1
      <4> QED
        BY <1>0, <3>1, <4>1, <4>2, <4>3
    <3>3. CASE q # r
      <4>1. pending'[r] = pending[r] /\ invoker'[r] = invoker[r]
        BY <2>8, <3>3 DEF Send
      <4> QED
        BY <1>0, <1>3, <1>b, <3>1, <4>1
    <3> QED
      BY <3>2, <3>3
  <2>9. ASSUME NEW q \in Requests, Receive(q) \/ Timeout(q) \/ ReturnTimedOut(q)
        PROVE  Kept(r)' \/ Taken(r)'
    <3>1. UNCHANGED <<target, slot, failing, answer>>
      BY <2>9 DEF Receive, Timeout, ReturnTimedOut
    <3>2. q # r
      BY <2>9 DEF Receive, Timeout, ReturnTimedOut
    <3>3. invoker'[r] = invoker[r] /\ pending'[r] = pending[r]
      BY <2>9, <3>2 DEF Receive, Timeout, ReturnTimedOut
    <3> QED
      BY <1>0, <1>3, <1>b, <3>1, <3>3
  <2>10. ASSUME NEW c \in Connections,
                \/ Register(c) \/ Acknowledge(c) \/ Refuse(c) \/ PeerLeaves(c) \/ Unregister(c)
                \/ StartJoin(c) \/ Joined(c) \/ WriterEnds(c) \/ WriteFails(c)
         PROVE  Kept(r)' \/ Taken(r)'
    <3>1. UNCHANGED <<slot, failing, target, pending, invoker, answer>>
      BY <2>10 DEF Register, Acknowledge, Refuse, PeerLeaves, Unregister, StartJoin, Joined,
                   WriterEnds, WriteFails
    <3> QED
      BY <2>1, <3>1
  <2>11. ASSUME NEW c \in Connections, NEW q \in Requests, WriteInvoke(c, q)
         PROVE  Kept(r)' \/ Taken(r)'
    <3>1. UNCHANGED <<slot, failing, target, pending, invoker, answer>>
      BY <2>11 DEF WriteInvoke
    <3> QED
      BY <2>1, <3>1
  <2> QED
    BY <1>3, <2>2, <2>3, <2>4, <2>5, <2>6, <2>7, <2>8, <2>9, <2>10, <2>11, StepKinds
<1> QED
  BY <1>2, <1>3
----------------------------------------------------------------------------
IInv == TypeOK /\ Addressed /\ Held /\ TakenOut /\ RuntimeServes /\ Unheard

\* The inductive invariant holds throughout.
THEOREM Invariant == Spec => []IInv
<1>1. Init => IInv
  BY InitTyped DEF Init, IInv, Addressed, Held, TakenOut, RuntimeServes, Unheard
<1>2. IInv /\ [Next]_vars => IInv'
  <2> SUFFICES ASSUME IInv, [Next]_vars PROVE IInv'
    OBVIOUS
  <2> USE DEF IInv
  <2>1. CASE Next
    BY <2>1, TypeStep, AddressedStep, HeldStep, TakenStep, RuntimeStep, UnheardStep
  <2>2. CASE UNCHANGED vars
    BY <2>2 DEF vars, TypeOK, Addressed, Held, TakenOut, RuntimeServes, Unheard
  <2> QED
    BY <2>1, <2>2
<1> QED
  BY <1>1, <1>2, PTL DEF Spec

\* Type correctness of the calls into a module.
THEOREM TypeInvariant == Spec => []TypeOK
<1>1. IInv => TypeOK
  BY DEF IInv
<1> QED
  BY <1>1, Invariant, PTL

\* What invoke() tells its caller is what happened to the request, whatever
\* the runtimes call their sessions.
THEOREM OutcomesAreHonest == Spec => []OutcomeIsHonest
<1>1. IInv => OutcomeIsHonest
  <2> SUFFICES ASSUME IInv, NEW r \in Requests
               PROVE  LET reached == {c \in Connections : r \in queue[c] \cup delivered[c]} IN
                      /\ reached \subseteq {target[r]}
                      /\ invoker[r] \in {"no_runtime", "gone_before_send", "send_failed"} => reached = {}
                      /\ invoker[r] = "response" => r \in delivered[target[r]]
    BY DEF OutcomeIsHonest
  <2>1. \A c \in Connections : r \in queue[c] \cup delivered[c] => target[r] = c /\ invoker[r] \in Sent
    BY DEF IInv, Addressed
  <2>2. invoker[r] = "response" => r \in delivered[target[r]]
    BY DEF IInv, Held, TakenOut
  <2> QED
    BY <2>1, <2>2
<1> QED
  BY <1>1, Invariant, PTL

\* Somebody will answer every call that waits, or fail it, however many runtimes
\* name the same session - unless its runtime could not be acknowledged
\* (client::invoke, fail_session, handle_client).
THEOREM WaitersAreOwned == Spec => []WaiterIsOwned
<1>1. Init => CallIsOwned
  BY DEF Init, CallIsOwned
<1>2. IInv /\ CallIsOwned /\ [Next]_vars => CallIsOwned'
  <2> SUFFICES ASSUME IInv, CallIsOwned, [Next]_vars PROVE CallIsOwned'
    OBVIOUS
  <2>1. CASE Next
    BY <2>1, OwnedStep DEF IInv
  <2>2. CASE UNCHANGED vars
    BY <2>2 DEF vars, CallIsOwned, SomebodyLooks, Looks
  <2> QED
    BY <2>1, <2>2
<1>3. CallIsOwned => WaiterIsOwned
  BY DEF CallIsOwned, SomebodyLooks, Looks, WaiterIsOwned
<1> QED
  BY <1>1, <1>2, <1>3, Invariant, PTL DEF Spec

\* A call is answered, or failed, by a connection of the session it was sent to,
\* whatever identifiers the module's other connections answer (resolve_response,
\* fail_session).
THEOREM IncarnationsAreExact == Spec => []ExactIncarnation
<1>1. IInv => ExactIncarnation
  BY DEF IInv, Held, ExactIncarnation
<1> QED
  BY <1>1, Invariant, PTL
=============================================================================
