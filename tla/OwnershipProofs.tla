-------------------------- MODULE OwnershipProofs --------------------------
(***************************************************************************)
(* Proofs about what Boss keeps for the sessions of modules: their         *)
(* notifications, and the live variables they publish.                     *)
(*                                                                         *)
(* Notifications.  An event is on its way through four kinds of places:    *)
(* the signals the presenter has not read, those of ids it has no endpoint *)
(* for, what an endpoint has staged, and the frames of a stream.  That it  *)
(* reaches its session once and in order is seen from a correspondence     *)
(* between these places before and after a step (Carried): every event     *)
(* comes from one place, two from two, and those of one presentation keep  *)
(* their order.  What a server with ids of its own for every notification  *)
(* adds (Unreused) is that the end of a notification is the end of its id.  *)
(*                                                                         *)
(* Live variables.  The publications of a module never share a key         *)
(* (Mergeable), so what is visible determines them: two of them are told   *)
(* apart by a surface.  With it, a publication is seen to belong to        *)
(* connections of its own process.                                         *)
(***************************************************************************)
EXTENDS LiveVariables, NotificationHub, SequenceTheorems, WellFoundedInduction, TLAPS

-----------------------------------------------------------------------------
(* The invariant, by what it speaks of *)

\* The records of the state.
Kinds == {"action", "closed"}
Events == [id : Ids, of : Shows, kind : Kinds]
Presentations ==
    [by : Owners, id : Ids \cup {0}, replace : Ids \cup {0}, done : BOOLEAN]
Stages == {"notify", "endpoint", "register", "activate", "settle"}
Works == [pc : Stages, show : Shows, previous : Owners \cup {None}]
Streams == [open : BOOLEAN, activate : BOOLEAN, frames : Seq(Events)]
Ends == [stream : 0 .. MaxShown, active : BOOLEAN, staged : Seq(Events)]

\* The type of each variable.
HubTypeOK ==
    /\ live \subseteq ModuleSessions
    /\ owner \in [Ids -> Owners \cup {None}]
    /\ work \in {NoWork} \cup Works
    /\ pending \in [Ids -> 0 .. MaxShown]
    /\ reader \in [Shows -> {"none", "reading", "release", "ended"}]
    /\ stream \in [Shows -> Streams]
    /\ endpoint \in [Ids -> Ends]
    /\ unmatched \in Seq(Events)
    /\ late \subseteq Shows
    /\ signals \in Seq(Events)
    /\ screen \in [Ids -> 0 .. MaxShown]
    /\ shows \in Seq(Presentations) /\ Len(shows) <= MaxShown
    /\ raised \in [Shows -> Seq(Kinds)]
    /\ delivered \in [Shows -> Seq(Owners \X Kinds)]
    /\ spoiled \subseteq Ids \cup {0}

\* The gate is held by the latest presentation, whose session is served; it is
\* the only one that the server may not have named yet.
Gate ==
    work # NoWork =>
        /\ work.show = Len(shows) /\ Len(shows) # 0
        /\ ~Show.done
        /\ Show.by \in live \cup {Boss}
        /\ Show.id = 0 <=> work.pc = "notify"

\* Nobody reads or shuts the stream of a presentation before it is acknowledged.
Untouched ==
    /\ work.pc \in {"notify", "endpoint", "register", "activate"} => reader[work.show] = "none"
    /\ work.pc \in {"notify", "endpoint"} => stream[work.show].open

\* Presentations under one id are one session's; what a presentation replaces
\* was its session's; only a presented notification is owned, and by its session.
Owned ==
    /\ \A j, k \in DOMAIN shows : shows[j].id # 0 /\ shows[j].id = shows[k].id => shows[j].by = shows[k].by
    /\ \A k \in DOMAIN shows :
          shows[k].replace # 0 =>
             \E j \in 1 .. k - 1 : shows[j].id = shows[k].replace /\ shows[j].by = shows[k].by
    /\ \A id \in Ids :
          owner[id] # None => \E j \in DOMAIN shows : shows[j].id = id /\ shows[j].by = owner[id]

\* An id shows its latest presentation; one that did not take over its id is
\* the first of it.
Latest ==
    /\ \A id \in Ids :
          screen[id] # 0 =>
             /\ screen[id] \in DOMAIN shows
             /\ shows[screen[id]].id = id
             /\ \A j \in DOMAIN shows : shows[j].id = id => j <= screen[id]
    /\ \A j, k \in DOMAIN shows :
          shows[k].id = shows[j].id /\ shows[k].id \notin {0, shows[k].replace} => k <= j
    /\ \A k \in DOMAIN shows : shows[k].done => shows[k].id # 0

\* What a user does to a presentation: an action, then the end.
IsRaised(k, kind) == \E i \in DOMAIN raised[k] : raised[k][i] = kind
Orders == {<<>>, <<"action">>, <<"closed">>, <<"action", "closed">>}
Done ==
    /\ \A k \in Shows :
          /\ raised[k] \in Orders
          /\ raised[k] # <<>> => k \in DOMAIN shows /\ shows[k].id # 0
    /\ \A id \in Ids : screen[id] # 0 => ~IsRaised(screen[id], "closed")

\* The sequences an event passes on its way to its session.
Places == {<<"signals", 0>>, <<"unmatched", 0>>} \cup ({"staged"} \X Ids) \cup ({"frames"} \X Shows)
Buffer ==
    [p \in Places |->
        IF p[1] = "signals" THEN signals
        ELSE IF p[1] = "unmatched" THEN unmatched
        ELSE IF p[1] = "staged" THEN endpoint[p[2]].staged
        ELSE stream[p[2]].frames]

\* What is m-th at p is further on its way than what is n-th at q.
Rank(p) ==
    IF p[1] = "signals" THEN 4 ELSE IF p[1] = "unmatched" THEN 3
    ELSE IF p[1] = "staged" THEN 2 ELSE 1
Ahead(p, m, q, n) == Rank(p) < Rank(q) \/ (p = q /\ m < n)

\* An event under way was raised, was not told yet, and is where those of its
\* notification go.
IsTold(k, kind) == \E i \in DOMAIN delivered[k] : delivered[k][i][2] = kind
Belongs(p, e) ==
    /\ p[1] = "staged" => p[2] = e.id
    /\ p[1] = "frames" => p[2] \in DOMAIN shows /\ shows[p[2]].id = e.id
Underway ==
    \A p \in Places : \A n \in DOMAIN Buffer[p] :
        LET e == Buffer[p][n]
        IN  /\ e.of \in DOMAIN shows
            /\ e.id = shows[e.of].id
            /\ IsRaised(e.of, e.kind)
            /\ ~IsTold(e.of, e.kind)
            /\ Belongs(p, e)

\* No event is in two places, and none of a presentation is behind its end.
Once ==
    \A p, q \in Places : \A m \in DOMAIN Buffer[p], n \in DOMAIN Buffer[q] :
        Buffer[p][m] = Buffer[q][n] => p = q /\ m = n
InOrder ==
    \A p, q \in Places : \A m \in DOMAIN Buffer[p], n \in DOMAIN Buffer[q] :
        Buffer[p][m].of = Buffer[q][n].of /\ Buffer[p][m].kind = "closed"
            /\ Buffer[q][n].kind = "action" => ~Ahead(p, m, q, n)

\* An endpoint is of its id; while there is one, nothing of its id is unmatched,
\* and nothing is staged once it is active.
Endpoints ==
    \A id \in Ids :
       /\ endpoint[id].stream = 0 => endpoint[id] = NoEndpoint
       /\ endpoint[id].active => endpoint[id].staged = <<>>
       /\ endpoint[id].stream # 0 =>
             /\ endpoint[id].stream \in DOMAIN shows
             /\ shows[endpoint[id].stream].id = id
             /\ work.pc \in {"notify", "endpoint"} => endpoint[id].stream # work.show
             /\ \A i \in DOMAIN unmatched : unmatched[i].id # id

\* Only a named presentation is given up to the presenter, is activated or has
\* a thread; the only stream that waits for activation is the one at work.
Begun ==
    /\ \A k \in late :
          /\ k \in DOMAIN shows
          /\ shows[k].id # 0 /\ shows[k].id \in spoiled
          /\ work # NoWork => k # work.show
    /\ \A k \in Shows :
          stream[k].activate \/ reader[k] # "none" => k \in DOMAIN shows /\ shows[k].id # 0
    /\ \A id \in Ids :
          pending[id] # 0 => work.pc = "activate" /\ pending[id] = work.show /\ id = Show.id

\* What a session was told was raised, once each, and by its own notifications.
Told ==
    \A k \in Shows :
        /\ \A i \in DOMAIN delivered[k] :
              /\ k \in DOMAIN shows
              /\ delivered[k][i][1] = shows[k].by
              /\ IsRaised(k, delivered[k][i][2])
        /\ \A i, j \in DOMAIN delivered[k] : delivered[k][i][2] = delivered[k][j][2] => i = j

\* The end of a notification takes it off the screen for good, unless its id is
\* given out again.
ClosedIsOff ==
    \A k \in DOMAIN shows :
        IsRaised(k, "closed") /\ shows[k].id \notin Reused => screen[shows[k].id] = 0

\* An id that names a presentation and shows none lost it to its end.
OffIsClosed ==
    \A j \in DOMAIN shows :
        shows[j].id # 0 /\ screen[shows[j].id] = 0 =>
            \E i \in DOMAIN shows : shows[i].id = shows[j].id /\ IsRaised(i, "closed")

\* A presentation that did not take over its id and was closed is the only one.
ClosedIsAlone ==
    \A j, k \in DOMAIN shows :
        /\ IsRaised(k, "closed") /\ shows[k].id \notin {0, shows[k].replace} \cup Reused
        /\ shows[j].id = shows[k].id
        => j = k

\* Once its end was told, nothing else of such a presentation is under way.
EndIsLast ==
    \A k \in DOMAIN shows :
        shows[k].id \notin {shows[k].replace} \cup Reused =>
            /\ IsTold(k, "closed") =>
                  \A p \in Places : \A n \in DOMAIN Buffer[p] :
                      Buffer[p][n].of = k => Buffer[p][n].kind # "action"
            /\ IsTold(k, "closed") /\ IsTold(k, "action") =>
                  \E i, j \in DOMAIN delivered[k] :
                      delivered[k][i][2] = "action" /\ delivered[k][j][2] = "closed" /\ i < j

\* A thread that is about to release its notification read of its end.
ReleasesClosed ==
    \A k \in Shows : reader[k] = "release" =>
        /\ k \in DOMAIN shows
        /\ \E j \in DOMAIN shows : shows[j].id = shows[k].id /\ IsRaised(j, "closed")

\* A notification that replaced another under another id did so after the end
\* of the other.
ReplacedIsOff ==
    \A k \in DOMAIN shows :
        shows[k].id # 0 /\ shows[k].replace \notin {0, shows[k].id} \cup Reused =>
            screen[shows[k].replace] = 0

\* How far the way back of what is shown has been built.
Past(k, stages) == shows[k].done \/ (work.pc \in stages /\ work.show = k)
WayBack ==
    \A id \in Ids \ (spoiled \cup Reused) :
        LET k == screen[id]
        IN  k # 0 =>
              /\ Past(k, {"endpoint", "register", "activate", "settle"})
              /\ Past(k, {"register", "activate", "settle"}) =>
                    endpoint[id].stream = k /\ stream[k].open
              /\ Past(k, {"activate", "settle"}) /\ shows[k].by \in live \cup {Boss} =>
                    owner[id] = shows[k].by
              /\ Past(k, {"settle"}) =>
                    reader[k] = "reading" /\ (stream[k].activate \/ endpoint[id].active)

\* Whatever the server does with the ids of closed notifications.
HubInv ==
    /\ HubTypeOK /\ Gate /\ Untouched /\ Owned /\ Latest /\ Done
    /\ Underway /\ Once /\ InOrder /\ Endpoints /\ Begun /\ Told
-----------------------------------------------------------------------------
(* Sequences *)

\* Induction on natural numbers, as a fact about sets of them.
LEMMA SetInduction ==
    ASSUME NEW S, S \subseteq Nat, 0 \in S, \A n \in S : n + 1 \in S
    PROVE  S = Nat
<1> DEFINE R == {p \in Nat \X Nat : p[1] < p[2]}
           T == Nat \ S
<1>1. IsWellFoundedOn(R, Nat)
  <2>1. OpToRel(<, Nat) = R
    BY Zenon DEF OpToRel
  <2> QED
    BY <2>1, NatLessThanWellFounded, Zenon
<1> SUFFICES ASSUME T # {} PROVE FALSE
  OBVIOUS
<1>2. PICK x \in T : \A y \in T : ~ (<<y, x>> \in R)
  <2> HIDE DEF R
  <2> QED
    BY <1>1, WFMin
<1>3. \A y \in T : ~(y < x)
  BY <1>2
<1>4. x \in Nat /\ x # 0 /\ x - 1 \in Nat /\ x - 1 < x /\ (x - 1) + 1 = x
  BY <1>2
<1> QED
  BY <1>2, <1>3, <1>4

\* f holds what is kept of the first events, up to the m-th.
IsKept(f, m, events, ids) ==
    f = [n \in 0 .. m |->
            IF n = 0 THEN <<>>
            ELSE IF events[n].id \in ids THEN Append(f[n - 1], events[n])
            ELSE f[n - 1]]

\* t is what picks takes out of s, in the order of s.
Picks(picks, t, s, m) ==
    /\ picks \in [1 .. Len(t) -> 1 .. m]
    /\ \A n \in 1 .. Len(t) : t[n] = s[picks[n]]
    /\ \A i, j \in 1 .. Len(t) : i < j => picks[i] < picks[j]

\* What is kept is computed from the first event to the last.
LEMMA KeptExists ==
    ASSUME NEW events, NEW ids PROVE \A m \in Nat : \E f : IsKept(f, m, events, ids)
<1> DEFINE S == {m \in Nat : \E f : IsKept(f, m, events, ids)}
           More(x, m) == IF events[m].id \in ids THEN Append(x, events[m]) ELSE x
<1>1. 0 \in S
  <2>1. IsKept([n \in 0 .. 0 |-> <<>>], 0, events, ids)
    BY DEF IsKept
  <2> QED
    BY <2>1
<1>2. ASSUME NEW m \in S PROVE m + 1 \in S
  <2>1. PICK f : IsKept(f, m, events, ids)
    OBVIOUS
  <2> DEFINE last == More(f[m], m + 1)
             g == [n \in 0 .. m + 1 |-> IF n = m + 1 THEN last ELSE f[n]]
  <2>2. m \in Nat
    OBVIOUS
  <2>3. ASSUME NEW n \in 0 .. m + 1
        PROVE  g[n] = IF n = 0 THEN <<>>
                      ELSE IF events[n].id \in ids THEN Append(g[n - 1], events[n])
                      ELSE g[n - 1]
    <3>1. CASE n = m + 1
      <4>1. n - 1 = m /\ m \in 0 .. m + 1 /\ m # m + 1 /\ n # 0
        BY <3>1, <2>2
      <4>2. g[n] = last /\ g[n - 1] = f[m]
        BY <4>1, <3>1
      <4> QED
        BY <4>1, <4>2, <3>1
    <3>2. CASE n # m + 1
      <4>1. /\ n \in 0 .. m
            /\ n # 0 => n - 1 \in 0 .. m /\ n - 1 \in 0 .. m + 1 /\ n - 1 # m + 1
        BY <3>2, <2>2
      <4>2. f[n] = IF n = 0 THEN <<>>
                   ELSE IF events[n].id \in ids THEN Append(f[n - 1], events[n])
                   ELSE f[n - 1]
        BY <2>1, <4>1 DEF IsKept
      <4>3. g[n] = f[n] /\ (n # 0 => g[n - 1] = f[n - 1])
        BY <4>1, <3>2
      <4> QED
        BY <4>1, <4>2, <4>3
    <3> QED
      BY <3>1, <3>2
  <2>4. IsKept(g, m + 1, events, ids)
    <3> HIDE DEF last
    <3> QED
      BY <2>3 DEF IsKept
  <2> QED
    BY <2>2, <2>4
<1>3. S \subseteq Nat
  OBVIOUS
<1> HIDE DEF S
<1>4. S = Nat
  BY <1>1, <1>2, <1>3, SetInduction
<1> QED
  BY <1>4 DEF S

\* What is kept of a buffer is taken out of it, in its order, and of those ids.
LEMMA KeptPicks ==
    ASSUME NEW s \in Seq(Events), NEW ids
    PROVE  /\ Kept(s, ids) \in Seq(Events)
           /\ \E picks : Picks(picks, Kept(s, ids), s, Len(s))
           /\ \A n \in 1 .. Len(Kept(s, ids)) : Kept(s, ids)[n].id \in ids
<1> DEFINE f == CHOOSE g : IsKept(g, Len(s), s, ids)
           Good(t, m) == /\ t \in Seq(Events)
                         /\ \E picks : Picks(picks, t, s, m)
                         /\ \A n \in 1 .. Len(t) : t[n].id \in ids
           S == {m \in Nat : m <= Len(s) => Good(f[m], m)}
<1>1. Len(s) \in Nat /\ \A n \in 1 .. Len(s) : s[n] \in Events
  BY LenProperties, ElementOfSeq
<1>2. Kept(s, ids) = f[Len(s)]
  BY DEF Kept, IsKept
<1>3. IsKept(f, Len(s), s, ids)
  BY <1>1, KeptExists
<1> HIDE DEF f
<1>4. 0 \in S
  <2>1. f[0] = <<>>
    BY <1>1, <1>3 DEF IsKept
  <2>2. <<>> \in Seq(Events) /\ Len(<<>>) = 0
    BY EmptySeq
  <2>3. Picks([n \in 1 .. 0 |-> 1], <<>>, s, 0)
    BY <2>2 DEF Picks
  <2>4. Good(<<>>, 0)
    BY <2>2, <2>3
  <2> QED
    BY <2>1, <2>4
<1>5. ASSUME NEW m \in S PROVE m + 1 \in S
  <2>1. SUFFICES ASSUME m + 1 <= Len(s) PROVE Good(f[m + 1], m + 1)
    OBVIOUS
  <2>2. /\ m \in Nat /\ Good(f[m], m) /\ m + 1 \in 1 .. Len(s)
        /\ m + 1 # 0 /\ (m + 1) - 1 = m /\ m + 1 \in 0 .. Len(s)
    BY <1>1, <2>1
  <2> DEFINE t == f[m]
             e == s[m + 1]
  <2>3. f[m + 1] = IF e.id \in ids THEN Append(t, e) ELSE t
    BY <2>2, <1>3 DEF IsKept
  <2>4. PICK picks : Picks(picks, t, s, m)
    BY <2>2
  <2>5. t \in Seq(Events) /\ Len(t) \in Nat
    BY <2>2, LenProperties
  <2>6. \A n \in 1 .. Len(t) : picks[n] \in 1 .. m /\ t[n].id \in ids
    BY <2>2, <2>4 DEF Picks
  <2> HIDE DEF t
  <2>7. CASE e.id \notin ids
    <3>1. Picks(picks, t, s, m + 1)
      BY <2>2, <2>4, <2>5, <2>6 DEF Picks
    <3> QED
      BY <2>3, <2>5, <2>6, <2>7, <3>1
  <2>8. CASE e.id \in ids
    <3> DEFINE u == Append(t, e)
               more == [n \in 1 .. Len(t) + 1 |-> IF n = Len(t) + 1 THEN m + 1 ELSE picks[n]]
    <3>1. e \in Events
      BY <1>1, <2>2
    <3> HIDE DEF e
    <3>2. /\ u \in Seq(Events) /\ Len(u) = Len(t) + 1
          /\ \A i \in 1 .. Len(t) : u[i] = t[i]
          /\ u[Len(t) + 1] = e
      BY <2>5, <3>1, AppendProperties
    <3> HIDE DEF u
    <3>3. \A n \in 1 .. Len(t) + 1 : n = Len(t) + 1 \/ n \in 1 .. Len(t)
      BY <2>5
    <3>4. \A n \in 1 .. Len(t) : more[n] = picks[n] /\ more[n] \in 1 .. m
      BY <2>5, <2>6
    <3>5. more[Len(t) + 1] = m + 1
      BY <2>5
    <3>6. more \in [1 .. Len(u) -> 1 .. m + 1]
      BY <2>2, <2>6, <3>2, <3>3
    <3> HIDE DEF more
    <3>7. \A n \in 1 .. Len(u) : u[n] = s[more[n]] /\ u[n].id \in ids
      BY <2>4, <2>5, <2>6, <2>8, <3>2, <3>3, <3>4, <3>5 DEF Picks, e
    <3>8. \A i, j \in 1 .. Len(u) : i < j => more[i] < more[j]
      <4> SUFFICES ASSUME NEW i \in 1 .. Len(u), NEW j \in 1 .. Len(u), i < j
                   PROVE  more[i] < more[j]
        OBVIOUS
      <4>1. i \in 1 .. Len(t)
        BY <2>5, <3>2
      <4>2. CASE j \in 1 .. Len(t)
        BY <2>4, <3>4, <4>1, <4>2 DEF Picks
      <4>3. CASE j = Len(t) + 1
        BY <2>2, <3>4, <3>5, <4>1, <4>3
      <4> QED
        BY <3>2, <3>3, <4>2, <4>3
    <3>9. Picks(more, u, s, m + 1)
      BY <3>6, <3>7, <3>8 DEF Picks
    <3>10. f[m + 1] = u
      BY <2>3, <2>8 DEF u
    <3> QED
      BY <3>2, <3>7, <3>9, <3>10
  <2> QED
    BY <2>7, <2>8
<1>6. S \subseteq Nat
  OBVIOUS
<1> HIDE DEF S
<1>7. S = Nat
  BY <1>4, <1>5, <1>6, SetInduction
<1>8. Good(f[Len(s)], Len(s))
  BY <1>1, <1>7 DEF S
<1> QED
  BY <1>2, <1>8
-----------------------------------------------------------------------------
(* Types *)

\* A presentation under way is the latest one.
LEMMA AtWork ==
    ASSUME HubTypeOK, Gate, NEW pc \in Stages, Presenting(pc)
    PROVE  /\ work # NoWork /\ work \in Works /\ work.pc = pc
           /\ work.show = Len(shows) /\ work.show \in DOMAIN shows /\ work.show \in Shows
           /\ Show \in Presentations /\ ~Show.done /\ Show.by \in live \cup {Boss}
           /\ Show.id = 0 <=> pc = "notify"
<1>1. work # NoWork
  BY DEF NoWork, Presenting, Stages
<1>2. work.pc = pc /\ work \in Works
  BY <1>1 DEF HubTypeOK, Presenting
<1>3. /\ work.show = Len(shows) /\ Len(shows) # 0 /\ ~Show.done
      /\ Show.by \in live \cup {Boss} /\ (Show.id = 0 <=> pc = "notify")
  BY <1>1, <1>2 DEF Gate
<1>4. Len(shows) \in Nat /\ DOMAIN shows = 1 .. Len(shows) /\ Len(shows) <= MaxShown
  BY LenProperties DEF HubTypeOK
<1>5. work.show \in 1 .. Len(shows) /\ work.show \in Shows
  BY <1>3, <1>4, HubAssumption DEF Shows
<1>6. shows[work.show] \in Presentations
  BY <1>5, ElementOfSeq DEF HubTypeOK
<1> QED
  BY <1>1, <1>2, <1>3, <1>4, <1>5, <1>6 DEF Show

\* Presentations are numbered within the bound.
LEMMA Numbered ==
    ASSUME HubTypeOK
    PROVE  /\ Len(shows) \in Nat /\ DOMAIN shows = 1 .. Len(shows)
           /\ \A k \in DOMAIN shows :
                 /\ k \in Shows /\ k \in Nat /\ k # 0 /\ shows[k] \in Presentations
                 /\ shows[k].id \in Ids \cup {0} /\ shows[k].by \in Owners
                 /\ shows[k].replace \in Ids \cup {0} /\ shows[k].done \in BOOLEAN
           /\ 0 \notin Ids /\ 0 \notin Shows
<1>1. Len(shows) \in Nat /\ DOMAIN shows = 1 .. Len(shows) /\ Len(shows) <= MaxShown
  BY LenProperties DEF HubTypeOK
<1>2. \A k \in 1 .. Len(shows) : k \in Shows /\ k # 0 /\ k \in Nat
  BY <1>1, HubAssumption DEF Shows
<1>3. \A k \in 1 .. Len(shows) : shows[k] \in Presentations
  BY ElementOfSeq DEF HubTypeOK
<1>4. 0 \notin Ids /\ 0 \notin Shows
  BY HubAssumption DEF Shows
<1> QED
  BY <1>1, <1>2, <1>3, <1>4 DEF Presentations

\* Shutting streams only shuts them.
LEMMA ShutDoes ==
    ASSUME NEW s \in [Shows -> Streams], NEW ks
    PROVE  /\ Shut(s, ks) \in [Shows -> Streams]
           /\ \A k \in Shows :
                 /\ Shut(s, ks)[k].frames = s[k].frames
                 /\ Shut(s, ks)[k].activate = s[k].activate
                 /\ Shut(s, ks)[k].open <=> s[k].open /\ k \notin ks
<1> DEFINE t == Shut(s, ks)
<1>1. \A k \in Shows : t[k] = IF k \in ks THEN [s[k] EXCEPT !.open = FALSE] ELSE s[k]
  BY DEF Shut
<1>2. ASSUME NEW k \in Shows
      PROVE  /\ t[k] \in Streams /\ t[k].frames = s[k].frames
             /\ t[k].activate = s[k].activate /\ (t[k].open <=> s[k].open /\ k \notin ks)
  <2>1. s[k] \in Streams
    OBVIOUS
  <2>2. CASE k \in ks
    BY <1>1, <2>1, <2>2 DEF Streams
  <2>3. CASE k \notin ks
    BY <1>1, <2>1, <2>3 DEF Streams
  <2> QED
    BY <2>2, <2>3
<1>3. t = [k \in Shows |-> t[k]]
  BY DEF Shut
<1> HIDE DEF t
<1>4. t \in [Shows -> Streams]
  BY <1>2, <1>3
<1> QED
  BY <1>2, <1>4 DEF t

\* Writing to a stream adds to its frames, or nothing.
LEMMA WrittenDoes ==
    ASSUME HubTypeOK, NEW k \in Shows, NEW events \in Seq(Events)
    PROVE  /\ Written(k, events) \in [Shows -> Streams]
           /\ \A j \in Shows :
                 /\ Written(k, events)[j].open <=> stream[j].open
                 /\ Written(k, events)[j].activate = stream[j].activate
                 /\ j # k \/ ~stream[k].open => Written(k, events)[j].frames = stream[j].frames
           /\ stream[k].open =>
                 Written(k, events)[k].frames = stream[k].frames \o events
<1> DEFINE t == Written(k, events)
<1>1. stream \in [Shows -> Streams]
  BY DEF HubTypeOK
<1>2. CASE ~stream[k].open
  <2>1. t = stream
    BY <1>2 DEF Written
  <2> QED
    BY <1>1, <1>2, <2>1
<1>3. CASE stream[k].open
  <2> DEFINE new == [stream[k] EXCEPT !.frames = @ \o events]
  <2>1. t = [stream EXCEPT ![k] = new]
    BY <1>3 DEF Written
  <2>2. stream[k] \in Streams /\ stream[k].frames \in Seq(Events)
    BY <1>1 DEF Streams
  <2>3. stream[k].frames \o events \in Seq(Events)
    BY <2>2, ConcatProperties
  <2>4. /\ new \in Streams /\ new.frames = stream[k].frames \o events
        /\ new.activate = stream[k].activate /\ new.open = stream[k].open
    BY <2>2, <2>3 DEF Streams
  <2> HIDE DEF new
  <2>5. /\ t \in [Shows -> Streams] /\ t[k] = new
        /\ \A j \in Shows : j # k => t[j] = stream[j]
    BY <1>1, <2>1, <2>4
  <2> QED
    BY <1>3, <2>4, <2>5
<1> QED
  BY <1>2, <1>3

\* Abandoning shuts the stream and leaves the gate.
LEMMA AbandonTyped ==
    ASSUME HubTypeOK, Gate, work # NoWork, Abandon
    PROVE  /\ work' \in {NoWork} \cup Works
           /\ stream' \in [Shows -> Streams]
           /\ spoiled' \subseteq Ids \cup {0}
<1>1. work \in Works /\ work.pc \in Stages
  BY DEF HubTypeOK, Works
<1>2. Presenting(work.pc)
  BY DEF Presenting
<1>3. Show \in Presentations
  BY <1>1, <1>2, AtWork
<1>4. Show.id \in Ids \cup {0}
  BY <1>3 DEF Presentations
<1>5. Shut(stream, {work.show}) \in [Shows -> Streams]
  <2>1. stream \in [Shows -> Streams]
    BY DEF HubTypeOK
  <2> QED
    BY <2>1, ShutDoes
<1> QED
  BY <1>4, <1>5 DEF Abandon, HubTypeOK

\* An endpoint is installed with events of its id.
LEMMA InstallTyped ==
    ASSUME HubTypeOK, NEW k \in DOMAIN shows, shows[k].id # 0, InstallEndpoint(k)
    PROVE  /\ endpoint' \in [Ids -> Ends]
           /\ unmatched' \in Seq(Events)
           /\ stream' \in [Shows -> Streams]
<1>1. k \in Shows /\ shows[k].id \in Ids
  BY Numbered
<1> DEFINE id == shows[k].id
           kept == ForId(unmatched, id)
           new == [stream |-> k, active |-> FALSE, staged |-> kept]
<1>2. kept \in Seq(Events) /\ NotForId(unmatched, id) \in Seq(Events)
  BY KeptPicks DEF HubTypeOK, ForId, NotForId
<1> HIDE DEF kept
<1>3. new \in Ends
  BY <1>1, <1>2, HubAssumption DEF Ends, Shows
<1>4. /\ endpoint' = [endpoint EXCEPT ![id] = new]
      /\ unmatched' = NotForId(unmatched, id)
      /\ stream' = Shut(stream, {endpoint[id].stream})
  BY DEF InstallEndpoint, kept
<1>5. stream' \in [Shows -> Streams]
  <2>1. stream \in [Shows -> Streams]
    BY DEF HubTypeOK
  <2>2. Shut(stream, {endpoint[id].stream}) \in [Shows -> Streams]
    BY <2>1, ShutDoes
  <2> QED
    BY <1>4, <2>2
<1> HIDE DEF new, id
<1> QED
  BY <1>1, <1>2, <1>3, <1>4, <1>5 DEF HubTypeOK

\* Changing a field of a presentation leaves a sequence of presentations.
LEMMA ShowsExcept ==
    ASSUME HubTypeOK, NEW k \in DOMAIN shows, NEW show \in Presentations
    PROVE  LET changed == [shows EXCEPT ![k] = show]
           IN  /\ changed \in Seq(Presentations) /\ Len(changed) = Len(shows)
               /\ DOMAIN changed = DOMAIN shows
               /\ changed[k] = show
               /\ \A j \in DOMAIN shows : j # k => changed[j] = shows[j]
<1> DEFINE changed == [shows EXCEPT ![k] = show]
<1>1. shows \in Seq(Presentations) /\ DOMAIN shows = 1 .. Len(shows)
  BY Numbered DEF HubTypeOK
<1>2. /\ changed \in Seq(Presentations) /\ Len(changed) = Len(shows)
      /\ \A j \in 1 .. Len(shows) : changed[j] = IF j = k THEN show ELSE shows[j]
  BY <1>1, ExceptSeq
<1> HIDE DEF changed
<1>3. DOMAIN changed = 1 .. Len(changed)
  BY <1>2, LenProperties
<1>4. /\ changed \in Seq(Presentations) /\ Len(changed) = Len(shows)
      /\ DOMAIN changed = DOMAIN shows /\ changed[k] = show
      /\ \A j \in DOMAIN shows : j # k => changed[j] = shows[j]
  BY <1>1, <1>2, <1>3
<1> QED
  BY <1>4 DEF changed

\* The effect of each step on the presentations, in terms of their fields.
LEMMA BeginDoes ==
    ASSUME HubTypeOK, NEW s \in Owners, NEW r, r \in Ids \cup {0},
           BeginPresent(s, r), NEW n, n = Len(shows) + 1
    PROVE  /\ shows' \in Seq(Presentations) /\ Len(shows') = n /\ n <= MaxShown
           /\ n \in Shows /\ n \notin DOMAIN shows
           /\ DOMAIN shows' = DOMAIN shows \cup {n}
           /\ \A k \in DOMAIN shows : shows'[k] = shows[k] /\ k < n
           /\ shows'[n].by = s
           /\ shows'[n].id = 0
           /\ ~shows'[n].done
           /\ stream' \in [Shows -> Streams]
           /\ \A k \in Shows : k # n => stream'[k] = stream[k]
           /\ stream'[n] = NewStream
           /\ work' \in Works /\ work'.pc = "notify" /\ work'.show = n
           /\ work = NoWork /\ s \in live \cup {Boss}
<1> DEFINE show == [by |-> s, id |-> 0, replace |-> r, done |-> FALSE]
<1>1. show \in Presentations /\ shows \in Seq(Presentations)
  BY DEF HubTypeOK, Presentations
<1>2. /\ Len(shows) \in Nat /\ DOMAIN shows = 1 .. Len(shows)
      /\ n \in Shows /\ n <= MaxShown
  BY Numbered, HubAssumption DEF BeginPresent, Shows
<1>3. shows' = Append(shows, show)
  BY DEF BeginPresent
<1>4. show.by = s /\ show.id = 0 /\ show.replace = r /\ ~show.done
  OBVIOUS
<1> HIDE DEF show
<1>5. /\ shows' \in Seq(Presentations) /\ Len(shows') = n
      /\ \A k \in 1 .. Len(shows) : shows'[k] = shows[k]
      /\ shows'[n] = show
  BY <1>1, <1>3, AppendProperties
<1>6. DOMAIN shows' = 1 .. n
  BY <1>5, LenProperties
<1>7. /\ n \notin DOMAIN shows /\ DOMAIN shows' = DOMAIN shows \cup {n}
      /\ \A k \in DOMAIN shows : k < n
  BY <1>2, <1>6
<1>8. NewStream \in Streams
  BY EmptySeq DEF NewStream, Streams
<1>9. /\ stream' \in [Shows -> Streams] /\ stream'[n] = NewStream
      /\ \A k \in Shows : k # n => stream'[k] = stream[k]
  <2>1. stream' = [stream EXCEPT ![n] = NewStream]
    BY DEF BeginPresent
  <2> QED
    BY <1>2, <1>8, <2>1 DEF HubTypeOK
<1>10. work' = [pc |-> "notify", show |-> n, previous |-> None]
  BY DEF BeginPresent
<1>11. work' \in Works /\ work'.pc = "notify" /\ work'.show = n
  BY <1>2, <1>10 DEF Works, Stages
<1>12. work = NoWork /\ s \in live \cup {Boss}
  BY DEF BeginPresent
<1> QED
  BY <1>2, <1>4, <1>5, <1>7, <1>9, <1>11, <1>12

\* A new presentation says what it replaces.
LEMMA BeginReplaces ==
    ASSUME HubTypeOK, NEW s \in Owners, NEW r \in Ids \cup {0},
           BeginPresent(s, r), NEW n, n = Len(shows) + 1
    PROVE  shows'[n].replace = r
<1> DEFINE show == [by |-> s, id |-> 0, replace |-> r, done |-> FALSE]
<1>1. show \in Presentations /\ shows \in Seq(Presentations)
  BY DEF HubTypeOK, Presentations
<1>2. shows' = Append(shows, show)
  BY DEF BeginPresent
<1>3. show.replace = r
  OBVIOUS
<1> HIDE DEF show
<1>4. shows'[n] = show
  BY <1>1, <1>2, AppendProperties
<1> QED
  BY <1>3, <1>4

\* A new presentation has a new stream.
LEMMA BeginStreams ==
    ASSUME HubTypeOK, NEW s \in Owners, NEW r \in Ids \cup {0},
           BeginPresent(s, r), NEW n, n = Len(shows) + 1
    PROVE  /\ n \in Shows
           /\ stream'[n] = NewStream
           /\ \A k \in Shows : k # n => stream'[k] = stream[k]
<1>1. n \in Shows
  BY Numbered, HubAssumption DEF BeginPresent, Shows
<1>2. stream' = [stream EXCEPT ![n] = NewStream]
  BY DEF BeginPresent
<1> QED
  BY <1>1, <1>2 DEF HubTypeOK

\* The server names the presentation.
LEMMA NotifyDoes ==
    ASSUME HubTypeOK, Gate, Notify
    PROVE  \E id \in Ids :
              /\ shows' \in Seq(Presentations) /\ Len(shows') = Len(shows)
              /\ DOMAIN shows' = DOMAIN shows
              /\ \A k \in DOMAIN shows : k # work.show => shows'[k] = shows[k]
              /\ shows'[work.show].id = id /\ shows'[work.show].by = Show.by
              /\ shows'[work.show].replace = Show.replace /\ ~shows'[work.show].done
              /\ screen' = [screen EXCEPT ![id] = work.show]
              /\ work' \in Works /\ work'.pc = "endpoint" /\ work'.show = work.show
              /\ \/ id = Show.replace
                 \/ /\ \A k \in DOMAIN shows : shows[k].id # id
                    /\ Show.replace # 0 => screen[Show.replace] = 0
<1>1. Presenting("notify") /\ "notify" \in Stages
  BY DEF Notify, Stages
<1>2. /\ work \in Works /\ work.show \in DOMAIN shows /\ work.show \in Shows
      /\ Show \in Presentations /\ ~Show.done
  BY <1>1, AtWork
<1>3. PICK id \in Ids :
         /\ \/ id = Show.replace
            \/ /\ \A i \in DOMAIN shows : shows[i].id # id
               /\ Show.replace # 0 => screen[Show.replace] = 0
         /\ shows' = [shows EXCEPT ![work.show].id = id]
         /\ screen' = [screen EXCEPT ![id] = work.show]
  BY DEF Notify
<1> DEFINE show == [Show EXCEPT !.id = id]
<1>4. /\ show \in Presentations /\ show.id = id /\ show.by = Show.by
      /\ show.replace = Show.replace /\ ~show.done
  BY <1>2 DEF Presentations
<1>5. shows' = [shows EXCEPT ![work.show] = show]
  BY <1>2, <1>3 DEF Show
<1> HIDE DEF show
<1>6. /\ shows' \in Seq(Presentations) /\ Len(shows') = Len(shows)
      /\ DOMAIN shows' = DOMAIN shows /\ shows'[work.show] = show
      /\ \A k \in DOMAIN shows : k # work.show => shows'[k] = shows[k]
  <2> DEFINE changed == [shows EXCEPT ![work.show] = show]
  <2>1. /\ changed \in Seq(Presentations) /\ Len(changed) = Len(shows)
        /\ DOMAIN changed = DOMAIN shows /\ changed[work.show] = show
        /\ \A k \in DOMAIN shows : k # work.show => changed[k] = shows[k]
    BY <1>2, <1>4, ShowsExcept
  <2> HIDE DEF changed
  <2>2. shows' = changed
    BY <1>5 DEF changed
  <2> QED
    BY <2>1, <2>2
<1>7. work' \in Works /\ work'.pc = "endpoint" /\ work'.show = work.show
  BY <1>2 DEF Notify, Works, Stages
<1> QED
  BY <1>3, <1>4, <1>6, <1>7

\* The presentation succeeds.
LEMMA SettleDoes ==
    ASSUME HubTypeOK, Gate, Settle
    PROVE  /\ shows' \in Seq(Presentations) /\ Len(shows') = Len(shows)
           /\ DOMAIN shows' = DOMAIN shows
           /\ \A k \in DOMAIN shows :
                 /\ shows'[k].id = shows[k].id /\ shows'[k].by = shows[k].by
                 /\ shows'[k].replace = shows[k].replace
                 /\ shows'[k].done <=> shows[k].done \/ k = work.show
           /\ work' = NoWork /\ work.show \in DOMAIN shows /\ Show.id # 0
           /\ owner' \in [Ids -> Owners \cup {None}]
           /\ \A id \in Ids :
                 owner'[id] = IF id = Show.replace /\ id # Show.id THEN None ELSE owner[id]
<1>1. Presenting("settle") /\ "settle" \in Stages
  BY DEF Settle, Stages
<1>2. /\ work \in Works /\ work.show \in DOMAIN shows /\ work.show \in Shows
      /\ Show \in Presentations /\ Show.id # 0
  BY <1>1, AtWork
<1> DEFINE show == [Show EXCEPT !.done = TRUE]
<1>3. /\ show \in Presentations /\ show.id = Show.id /\ show.by = Show.by
      /\ show.replace = Show.replace /\ show.done
  BY <1>2 DEF Presentations
<1>4. shows' = [shows EXCEPT ![work.show] = show]
  BY <1>2 DEF Show, Settle
<1> HIDE DEF show
<1>5. /\ shows' \in Seq(Presentations) /\ Len(shows') = Len(shows)
      /\ DOMAIN shows' = DOMAIN shows /\ shows'[work.show] = show
      /\ \A k \in DOMAIN shows : k # work.show => shows'[k] = shows[k]
  <2> DEFINE changed == [shows EXCEPT ![work.show] = show]
  <2>1. /\ changed \in Seq(Presentations) /\ Len(changed) = Len(shows)
        /\ DOMAIN changed = DOMAIN shows /\ changed[work.show] = show
        /\ \A k \in DOMAIN shows : k # work.show => changed[k] = shows[k]
    BY <1>2, <1>3, ShowsExcept
  <2> HIDE DEF changed
  <2>2. shows' = changed
    BY <1>4 DEF changed
  <2> QED
    BY <2>1, <2>2
<1>6. \A k \in DOMAIN shows :
         /\ shows'[k].id = shows[k].id /\ shows'[k].by = shows[k].by
         /\ shows'[k].replace = shows[k].replace
         /\ shows'[k].done <=> shows[k].done \/ k = work.show
  BY <1>2, <1>3, <1>5 DEF Show
<1>7. /\ owner' \in [Ids -> Owners \cup {None}]
      /\ \A id \in Ids :
            owner'[id] = IF id = Show.replace /\ id # Show.id THEN None ELSE owner[id]
  BY <1>2, HubAssumption DEF HubTypeOK, Settle, Presentations
<1> QED
  BY <1>2, <1>5, <1>6, <1>7 DEF Settle

\* What the user does is told to the owner, if it is a session that is served.
LEMMA SendDoes ==
    ASSUME HubTypeOK, NEW e \in Events
    PROVE  /\ Send(e) \in [Shows -> Seq(Owners \X Kinds)]
           /\ \A k \in Shows : k # e.of => Send(e)[k] = delivered[k]
           /\ owner[e.id] \notin live => Send(e) = delivered
           /\ owner[e.id] \in live =>
                 LET old == delivered[e.of]  new == Send(e)[e.of]
                 IN  /\ Len(old) \in Nat /\ DOMAIN old = 1 .. Len(old)
                     /\ Len(new) = Len(old) + 1 /\ DOMAIN new = 1 .. Len(old) + 1
                     /\ \A i \in 1 .. Len(old) : new[i] = old[i]
                     /\ new[Len(old) + 1] = <<owner[e.id], e.kind>>
                     /\ old \in Seq(Owners \X Kinds)
                     /\ new = Append(old, <<owner[e.id], e.kind>>)
<1>1. /\ delivered \in [Shows -> Seq(Owners \X Kinds)]
      /\ e.of \in Shows /\ e.kind \in Kinds /\ e.id \in Ids
      /\ live \subseteq ModuleSessions
  BY DEF HubTypeOK, Events
<1>2. CASE owner[e.id] \notin live
  BY <1>1, <1>2 DEF Send
<1>3. CASE owner[e.id] \in live
  <2> DEFINE word == <<owner[e.id], e.kind>>
             old == delivered[e.of]
             new == Append(old, word)
  <2>1. old \in Seq(Owners \X Kinds)
    BY <1>1
  <2>2. word \in Owners \X Kinds
    BY <1>1, <1>3 DEF Owners
  <2>3. Send(e) = [delivered EXCEPT ![e.of] = new]
    BY <1>3 DEF Send
  <2> HIDE DEF word
  <2>4. /\ new \in Seq(Owners \X Kinds) /\ Len(new) = Len(old) + 1
        /\ \A i \in 1 .. Len(old) : new[i] = old[i]
        /\ new[Len(old) + 1] = word
    <3> HIDE DEF old
    <3> QED
      BY <2>1, <2>2, AppendProperties
  <2>5. Len(old) \in Nat /\ DOMAIN old = 1 .. Len(old)
    BY <2>1, LenProperties
  <2>6. DOMAIN new = 1 .. Len(old) + 1
    BY <2>4, LenProperties
  <2>7. new = Append(delivered[e.of], <<owner[e.id], e.kind>>)
    BY DEF word
  <2> HIDE DEF new
  <2>8. /\ Send(e) \in [Shows -> Seq(Owners \X Kinds)]
        /\ Send(e)[e.of] = new
        /\ \A k \in Shows : k # e.of => Send(e)[k] = delivered[k]
    BY <1>1, <2>3, <2>4
  <2>9. word = <<owner[e.id], e.kind>>
    BY DEF word
  <2> HIDE DEF old
  <2>10. old = delivered[e.of]
    BY DEF old
  <2> QED
    BY <1>3, <2>1, <2>4, <2>5, <2>6, <2>7, <2>8, <2>9, <2>10
<1> QED
  BY <1>2, <1>3

\* The thread of a stream takes its first frame.
LEMMA RouteDoes ==
    ASSUME HubTypeOK, NEW k \in Shows, Route(k), NEW e, e = Head(stream[k].frames)
    PROVE  /\ reader[k] = "reading" /\ stream[k].frames # <<>>
           /\ e \in Events /\ delivered' = Send(e)
           /\ stream[k].frames \in Seq(Events) /\ Len(stream[k].frames) \in Nat
           /\ DOMAIN stream[k].frames = 1 .. Len(stream[k].frames)
           /\ Len(stream[k].frames) > 0 /\ e = stream[k].frames[1]
           /\ stream' \in [Shows -> Streams]
           /\ \A j \in Shows : j # k => stream'[j] = stream[j] /\ reader'[j] = reader[j]
           /\ stream'[k].frames = Tail(stream[k].frames)
           /\ DOMAIN stream'[k].frames = 1 .. Len(stream[k].frames) - 1
           /\ \A i \in 1 .. Len(stream[k].frames) - 1 : stream'[k].frames[i] = stream[k].frames[i + 1]
           /\ stream'[k].activate = stream[k].activate
           /\ stream'[k].open <=> stream[k].open /\ (Terminal(e) => owner[e.id] # None)
           /\ reader' \in [Shows -> {"none", "reading", "release", "ended"}]
           /\ reader'[k] = IF ~Terminal(e) THEN "reading"
                           ELSE IF owner[e.id] = None THEN "ended" ELSE "release"
<1> DEFINE old == stream[k]
           open == old.open /\ (Terminal(e) => owner[e.id] # None)
           new == [old EXCEPT !.frames = Tail(old.frames), !.open = open]
<1>1. /\ stream \in [Shows -> Streams] /\ old \in Streams
      /\ reader \in [Shows -> {"none", "reading", "release", "ended"}]
      /\ old.frames \in Seq(Events) /\ old.frames # <<>> /\ reader[k] = "reading"
  BY DEF HubTypeOK, Route, Streams
<1>2. /\ Len(old.frames) \in Nat /\ DOMAIN old.frames = 1 .. Len(old.frames)
      /\ Len(old.frames) > 0
  BY <1>1, LenProperties, EmptySeq
<1>3. /\ e \in Events /\ Tail(old.frames) \in Seq(Events)
      /\ Len(Tail(old.frames)) = Len(old.frames) - 1
      /\ \A i \in 1 .. Len(Tail(old.frames)) : Tail(old.frames)[i] = old.frames[i + 1]
  BY <1>1, HeadTailProperties
<1>4. DOMAIN Tail(old.frames) = 1 .. Len(old.frames) - 1
  BY <1>3, LenProperties
<1>5. e = old.frames[1]
  BY <1>1, <1>2
<1>6. open \in BOOLEAN
  OBVIOUS
<1>7. /\ stream' = [stream EXCEPT ![k] = new]
      /\ reader' = [reader EXCEPT ![k] = IF ~Terminal(e) THEN "reading"
                       ELSE IF owner[e.id] = None THEN "ended" ELSE "release"]
      /\ delivered' = Send(e)
  BY DEF Route
<1> HIDE DEF open
<1>8. /\ new \in Streams /\ new.frames = Tail(old.frames)
      /\ new.activate = old.activate /\ (new.open <=> open)
  BY <1>1, <1>3, <1>6 DEF Streams
<1> HIDE DEF new
<1>9. /\ stream' \in [Shows -> Streams] /\ stream'[k] = new
      /\ \A j \in Shows : j # k => stream'[j] = stream[j]
  BY <1>1, <1>7, <1>8
<1>10. /\ reader' \in [Shows -> {"none", "reading", "release", "ended"}]
       /\ reader'[k] = IF ~Terminal(e) THEN "reading"
                       ELSE IF owner[e.id] = None THEN "ended" ELSE "release"
       /\ \A j \in Shows : j # k => reader'[j] = reader[j]
  BY <1>1, <1>7
<1>11. /\ DOMAIN new.frames = 1 .. Len(old.frames) - 1
       /\ \A i \in 1 .. Len(old.frames) - 1 : new.frames[i] = old.frames[i + 1]
  BY <1>3, <1>4, <1>8
<1> QED
  BY <1>1, <1>2, <1>3, <1>5, <1>7, <1>8, <1>9, <1>10, <1>11 DEF open

\* The first signal leaves the queue.
LEMMA SignalTaken ==
    ASSUME HubTypeOK, signals # <<>>, NEW e, e = Head(signals), signals' = Tail(signals)
    PROVE  /\ e \in Events /\ e.id \in Ids /\ e = signals[1]
           /\ Len(signals) \in Nat /\ Len(signals) > 0 /\ DOMAIN signals = 1 .. Len(signals)
           /\ signals' \in Seq(Events) /\ DOMAIN signals' = 1 .. Len(signals) - 1
           /\ \A i \in 1 .. Len(signals) - 1 : signals'[i] = signals[i + 1]
<1>1. signals \in Seq(Events)
  BY DEF HubTypeOK
<1>2. Len(signals) \in Nat /\ DOMAIN signals = 1 .. Len(signals) /\ Len(signals) > 0
  BY <1>1, LenProperties, EmptySeq
<1> DEFINE t == Tail(signals)
<1>3. /\ e \in Events /\ t \in Seq(Events) /\ Len(t) = Len(signals) - 1
      /\ \A i \in 1 .. Len(t) : t[i] = signals[i + 1]
  BY <1>1, HeadTailProperties
<1>4. DOMAIN t = 1 .. Len(signals) - 1
  BY <1>3, LenProperties
<1>5. e = signals[1]
  BY <1>1, <1>2
<1> HIDE DEF t
<1>6. signals' = t
  BY DEF t
<1> QED
  BY <1>2, <1>3, <1>4, <1>5, <1>6 DEF Events

\* A sequence of events with one more at its end.
LEMMA AppendDoes ==
    ASSUME NEW s \in Seq(Events), NEW e \in Events
    PROVE  /\ Append(s, e) \in Seq(Events) /\ Len(s) \in Nat
           /\ DOMAIN s = 1 .. Len(s) /\ DOMAIN Append(s, e) = 1 .. Len(s) + 1
           /\ \A i \in 1 .. Len(s) : Append(s, e)[i] = s[i]
           /\ Append(s, e)[Len(s) + 1] = e
<1> DEFINE t == Append(s, e)
<1>1. /\ t \in Seq(Events) /\ Len(t) = Len(s) + 1
      /\ \A i \in 1 .. Len(s) : t[i] = s[i]
      /\ t[Len(s) + 1] = e
  BY AppendProperties
<1> HIDE DEF t
<1>2. DOMAIN t = 1 .. Len(t) /\ DOMAIN s = 1 .. Len(s) /\ Len(s) \in Nat
  BY <1>1, LenProperties
<1>3. /\ t \in Seq(Events) /\ Len(s) \in Nat
      /\ DOMAIN s = 1 .. Len(s) /\ DOMAIN t = 1 .. Len(s) + 1
      /\ \A i \in 1 .. Len(s) : t[i] = s[i]
      /\ t[Len(s) + 1] = e
  BY <1>1, <1>2
<1> QED
  BY <1>3 DEF t

\* A signal of an id without an endpoint: kept last, and if there are too many
\* of them the first is dropped.
Unclaimed(e) ==
    /\ endpoint[e.id].stream = 0
    /\ endpoint' = endpoint /\ stream' = stream
    /\ unmatched' \in Seq(Events)
    /\ \E d \in {0, 1} :
          /\ d <= Len(unmatched)
          /\ d = 0 => spoiled' = spoiled
          /\ DOMAIN unmatched' = 1 .. Len(unmatched) - d + 1
          /\ \A i \in 1 .. Len(unmatched) - d : unmatched'[i] = unmatched[i + d]
          /\ unmatched'[Len(unmatched) - d + 1] = e

\* A signal of an id whose endpoint is not active: staged last, or dropped.
Staged(e) ==
    /\ endpoint[e.id].stream # 0 /\ ~endpoint[e.id].active
    /\ stream' = stream /\ unmatched' = unmatched
    /\ endpoint' \in [Ids -> Ends]
    /\ \A id \in Ids : id # e.id => endpoint'[id] = endpoint[id]
    /\ endpoint'[e.id].stream = endpoint[e.id].stream
    /\ endpoint'[e.id].active = endpoint[e.id].active
    /\ endpoint'[e.id].staged \in {endpoint[e.id].staged, Append(endpoint[e.id].staged, e)}

\* A signal of an id whose endpoint is active: written to its stream, which ends
\* with the notification.
Forwarded(e) ==
    LET k == endpoint[e.id].stream
    IN  /\ k # 0 /\ endpoint[e.id].active
        /\ unmatched' = unmatched
        /\ endpoint' = IF Terminal(e) THEN [endpoint EXCEPT ![e.id] = NoEndpoint] ELSE endpoint
        /\ endpoint' \in [Ids -> Ends]
        /\ stream' \in [Shows -> Streams]
        /\ \A j \in Shows :
              /\ stream'[j].activate = stream[j].activate
              /\ stream'[j].open <=> stream[j].open /\ (Terminal(e) => j # k)
              /\ j # k => stream'[j].frames = stream[j].frames
        /\ stream'[k].frames \in {stream[k].frames, Append(stream[k].frames, e)}

\* The presenter does one of the three with a signal.
LEMMA ForwardDoes ==
    ASSUME HubTypeOK, ForwardSignal, NEW e, e = Head(signals)
    PROVE  /\ signals # <<>> /\ signals' = Tail(signals)
           /\ Unclaimed(e) \/ Staged(e) \/ Forwarded(e)
           /\ spoiled \subseteq spoiled' /\ spoiled' \subseteq Ids \cup {0}
<1>1. signals # <<>> /\ signals' = Tail(signals)
  BY DEF ForwardSignal
<1>2. e \in Events /\ e.id \in Ids
  BY <1>1, SignalTaken
<1> DEFINE id == e.id
           end == endpoint[id]
<1>3. /\ end \in Ends /\ end.staged \in Seq(Events) /\ end.stream \in 0 .. MaxShown
      /\ endpoint \in [Ids -> Ends] /\ stream \in [Shows -> Streams]
      /\ unmatched \in Seq(Events) /\ spoiled \subseteq Ids \cup {0}
  BY <1>2 DEF HubTypeOK, Ends
<1>4. Len(unmatched) \in Nat /\ DOMAIN unmatched = 1 .. Len(unmatched)
  BY <1>3, LenProperties
<1>5. CASE end.stream = 0
  <2>1. endpoint' = endpoint /\ stream' = stream
    BY <1>5 DEF ForwardSignal
  <2>2. CASE Len(unmatched) < Limit
    <3> DEFINE new == Append(unmatched, e)
    <3>1. unmatched' = new /\ spoiled' = spoiled
      BY <1>5, <2>2 DEF ForwardSignal
    <3>2. /\ new \in Seq(Events) /\ DOMAIN new = 1 .. Len(unmatched) + 1
          /\ \A i \in 1 .. Len(unmatched) : new[i] = unmatched[i]
          /\ new[Len(unmatched) + 1] = e
      BY <1>2, <1>3, AppendDoes
    <3> HIDE DEF new
    <3>3. \A i \in 1 .. Len(unmatched) - 0 : new[i] = unmatched[i + 0]
      BY <1>4, <3>2
    <3>4. Len(unmatched) - 0 = Len(unmatched) /\ 0 <= Len(unmatched)
      BY <1>4
    <3>5. Unclaimed(e)
      BY <1>5, <2>1, <3>1, <3>2, <3>3, <3>4 DEF Unclaimed
    <3> QED
      BY <1>1, <1>3, <3>1, <3>5
  <2>3. CASE ~(Len(unmatched) < Limit)
    <3>1. Len(unmatched) >= 1 /\ unmatched # <<>>
      BY <1>3, <1>4, <2>3, HubAssumption, EmptySeq
    <3> DEFINE rest == Tail(unmatched)
               new == Append(rest, e)
    <3>2. /\ unmatched' = new
          /\ spoiled' = spoiled \cup {Head(unmatched).id}
      BY <1>5, <2>3 DEF ForwardSignal
    <3>3. /\ rest \in Seq(Events) /\ Len(rest) = Len(unmatched) - 1
          /\ \A i \in 1 .. Len(rest) : rest[i] = unmatched[i + 1]
          /\ Head(unmatched) \in Events
      BY <1>3, <3>1, HeadTailProperties
    <3> HIDE DEF rest
    <3>4. /\ new \in Seq(Events) /\ DOMAIN new = 1 .. Len(rest) + 1
          /\ \A i \in 1 .. Len(rest) : new[i] = rest[i]
          /\ new[Len(rest) + 1] = e
      BY <1>2, <3>3, AppendDoes
    <3> HIDE DEF new
    <3>5. /\ \A i \in 1 .. Len(unmatched) - 1 : new[i] = unmatched[i + 1]
          /\ DOMAIN new = 1 .. Len(unmatched) - 1 + 1
          /\ new[Len(unmatched) - 1 + 1] = e
      BY <3>3, <3>4
    <3>6. Unclaimed(e)
      BY <1>5, <2>1, <3>1, <3>2, <3>4, <3>5 DEF Unclaimed
    <3>7. Head(unmatched).id \in Ids
      BY <3>3 DEF Events
    <3> QED
      BY <1>1, <1>3, <3>2, <3>6, <3>7
  <2> QED
    BY <2>2, <2>3
<1>6. CASE end.stream # 0 /\ ~end.active
  <2>1. stream' = stream /\ unmatched' = unmatched
    BY <1>6 DEF ForwardSignal
  <2>2. CASE Len(end.staged) < Limit
    <3> DEFINE more == Append(end.staged, e)
               new == [end EXCEPT !.staged = more]
    <3>1. endpoint' = [endpoint EXCEPT ![id] = new] /\ spoiled' = spoiled
      BY <1>6, <2>2 DEF ForwardSignal
    <3>2. more \in Seq(Events)
      BY <1>2, <1>3, AppendDoes
    <3>3. more = Append(endpoint[e.id].staged, e)
      OBVIOUS
    <3> HIDE DEF more
    <3>4. /\ new \in Ends /\ new.stream = end.stream /\ new.active = end.active
          /\ new.staged = more
      BY <1>3, <3>2 DEF Ends
    <3> HIDE DEF new
    <3>5. /\ endpoint' \in [Ids -> Ends] /\ endpoint'[id] = new
          /\ \A i \in Ids : i # id => endpoint'[i] = endpoint[i]
      BY <1>2, <1>3, <3>1, <3>4
    <3>6. Staged(e)
      BY <1>6, <2>1, <3>3, <3>4, <3>5 DEF Staged
    <3> QED
      BY <1>1, <1>3, <3>1, <3>6
  <2>3. CASE ~(Len(end.staged) < Limit)
    <3>1. endpoint' = endpoint /\ spoiled' = spoiled \cup {id}
      BY <1>6, <2>3 DEF ForwardSignal
    <3>2. Staged(e)
      BY <1>3, <1>6, <2>1, <3>1 DEF Staged
    <3> QED
      BY <1>1, <1>2, <1>3, <3>1, <3>2
  <2> QED
    BY <2>2, <2>3
<1>7. CASE end.stream # 0 /\ end.active
  <2> DEFINE k == end.stream
             written == Written(k, <<e>>)
             shut == Shut(written, {k})
  <2>1. /\ endpoint' = IF Terminal(e) THEN [endpoint EXCEPT ![id] = NoEndpoint] ELSE endpoint
        /\ stream' = IF Terminal(e) THEN shut ELSE written
        /\ unmatched' = unmatched /\ spoiled' = spoiled
    BY <1>7 DEF ForwardSignal
  <2>2. k \in Shows
    BY <1>3, <1>7, HubAssumption DEF Shows
  <2>3. <<e>> \in Seq(Events)
    BY <1>2
  <2>4. /\ written \in [Shows -> Streams]
        /\ \A j \in Shows :
              /\ written[j].open <=> stream[j].open
              /\ written[j].activate = stream[j].activate
              /\ j # k \/ ~stream[k].open => written[j].frames = stream[j].frames
        /\ stream[k].open => written[k].frames = stream[k].frames \o <<e>>
    BY <2>2, <2>3, WrittenDoes
  <2>5. stream[k].frames \in Seq(Events)
    BY <1>3, <2>2 DEF Streams
  <2>6. Append(stream[k].frames, e) = stream[k].frames \o <<e>>
    BY <1>2, <2>5, AppendIsConcat
  <2> HIDE DEF written
  <2>7. /\ shut \in [Shows -> Streams]
        /\ \A j \in Shows :
              /\ shut[j].frames = written[j].frames
              /\ shut[j].activate = written[j].activate
              /\ shut[j].open <=> written[j].open /\ j \notin {k}
    <3>1. written \in [Shows -> Streams]
      BY <2>4
    <3> QED
      BY <3>1, ShutDoes
  <2> HIDE DEF shut
  <2>8. NoEndpoint \in Ends
    BY EmptySeq, HubAssumption DEF NoEndpoint, Ends
  <2>9. endpoint' \in [Ids -> Ends]
    BY <1>2, <1>3, <2>1, <2>8
  <2>10. /\ stream' \in [Shows -> Streams]
         /\ \A j \in Shows :
               /\ stream'[j].activate = stream[j].activate
               /\ stream'[j].open <=> stream[j].open /\ (Terminal(e) => j # k)
               /\ j # k => stream'[j].frames = stream[j].frames
         /\ stream'[k].frames \in {stream[k].frames, Append(stream[k].frames, e)}
    <3>1. CASE Terminal(e)
      <4>1. stream' = shut
        BY <2>1, <3>1
      <4> QED
        BY <2>2, <2>4, <2>6, <2>7, <3>1, <4>1
    <3>2. CASE ~Terminal(e)
      <4>1. stream' = written
        BY <2>1, <3>2
      <4> QED
        BY <2>2, <2>4, <2>6, <3>2, <4>1
    <3> QED
      BY <3>1, <3>2
  <2>11. Forwarded(e)
    BY <1>7, <2>1, <2>9, <2>10 DEF Forwarded
  <2> QED
    BY <1>1, <1>3, <2>1, <2>11
<1> QED
  BY <1>5, <1>6, <1>7

\* The presenter releases what it staged for a stream, if it still has it.
Released(k) ==
    LET id == shows[k].id
        end == endpoint[id]
        closed == \E i \in DOMAIN end.staged : Terminal(end.staged[i])
    IN  /\ end.stream = k
        /\ endpoint' = IF closed THEN [endpoint EXCEPT ![id] = NoEndpoint]
                       ELSE [endpoint EXCEPT ![id] = [stream |-> k, active |-> TRUE, staged |-> <<>>]]
        /\ stream'[k].open <=> stream[k].open /\ ~closed
        /\ stream'[k].frames = IF stream[k].open THEN stream[k].frames \o end.staged
                               ELSE stream[k].frames

\* What an Activate frame does when the presenter takes it.
LEMMA ActivateDoes ==
    ASSUME HubTypeOK, NEW k \in Shows, k \in DOMAIN shows, shows[k].id # 0, ReceiveActivate(k)
    PROVE  /\ stream[k].activate
           /\ endpoint' \in [Ids -> Ends]
           /\ stream' \in [Shows -> Streams]
           /\ \A j \in Shows : j # k =>
                 /\ stream'[j].frames = stream[j].frames
                 /\ stream'[j].activate = stream[j].activate
                 /\ stream'[j].open <=> stream[j].open
           /\ ~stream'[k].activate
           /\ \/ Released(k)
              \/ /\ endpoint[shows[k].id].stream # k
                 /\ endpoint' = endpoint
                 /\ stream'[k].frames = stream[k].frames
                 /\ stream'[k].open <=> stream[k].open
<1> DEFINE id == shows[k].id
           end == endpoint[id]
           closed == \E i \in DOMAIN end.staged : Terminal(end.staged[i])
           written == Written(k, end.staged)
           taken == [written EXCEPT ![k].activate = FALSE]
<1>1. id \in Ids
  BY Numbered
<1>2. /\ end \in Ends /\ end.staged \in Seq(Events) /\ end.stream \in 0 .. MaxShown
      /\ endpoint \in [Ids -> Ends] /\ stream \in [Shows -> Streams]
  BY <1>1 DEF HubTypeOK, Ends
<1>3. /\ stream[k].activate
      /\ end.stream = k =>
            /\ endpoint' = [endpoint EXCEPT ![id] = IF closed THEN NoEndpoint
                                ELSE [stream |-> k, active |-> TRUE, staged |-> <<>>]]
            /\ stream' = IF closed THEN Shut(taken, {k}) ELSE taken
      /\ end.stream # k =>
            /\ endpoint' = endpoint
            /\ stream' = [stream EXCEPT ![k].activate = FALSE]
  BY DEF ReceiveActivate
<1>4. CASE end.stream # k
  <2> DEFINE new == [stream[k] EXCEPT !.activate = FALSE]
  <2>1. stream' = [stream EXCEPT ![k] = new]
    BY <1>3, <1>4
  <2>2. /\ new \in Streams /\ new.frames = stream[k].frames
        /\ ~new.activate /\ (new.open <=> stream[k].open)
    BY <1>2 DEF Streams
  <2> HIDE DEF new
  <2>3. /\ stream' \in [Shows -> Streams] /\ stream'[k] = new
        /\ \A j \in Shows : j # k => stream'[j] = stream[j]
    BY <1>2, <2>1, <2>2
  <2> QED
    BY <1>2, <1>3, <1>4, <2>2, <2>3
<1>5. CASE end.stream = k
  <2>1. /\ written \in [Shows -> Streams]
        /\ \A j \in Shows :
              /\ written[j].open <=> stream[j].open
              /\ written[j].activate = stream[j].activate
              /\ j # k \/ ~stream[k].open => written[j].frames = stream[j].frames
        /\ stream[k].open => written[k].frames = stream[k].frames \o end.staged
    BY <1>2, WrittenDoes
  <2> HIDE DEF written
  <2> DEFINE new == [written[k] EXCEPT !.activate = FALSE]
  <2>2. taken = [written EXCEPT ![k] = new]
    OBVIOUS
  <2>3. /\ new \in Streams /\ new.frames = written[k].frames
        /\ ~new.activate /\ (new.open <=> written[k].open)
    BY <2>1 DEF Streams
  <2> HIDE DEF new, taken
  <2>4. /\ taken \in [Shows -> Streams] /\ taken[k] = new
        /\ \A j \in Shows : j # k => taken[j] = written[j]
    BY <2>1, <2>2, <2>3
  <2> DEFINE shut == Shut(taken, {k})
  <2>5. /\ shut \in [Shows -> Streams]
        /\ \A j \in Shows :
              /\ shut[j].frames = taken[j].frames
              /\ shut[j].activate = taken[j].activate
              /\ shut[j].open <=> taken[j].open /\ j \notin {k}
    <3>1. taken \in [Shows -> Streams]
      BY <2>4
    <3> QED
      BY <3>1, ShutDoes
  <2> HIDE DEF shut
  <2>6. stream' = IF closed THEN shut ELSE taken
    BY <1>3, <1>5 DEF shut
  <2> DEFINE active == [stream |-> k, active |-> TRUE, staged |-> <<>>]
  <2>7. NoEndpoint \in Ends /\ active \in Ends
    BY EmptySeq, HubAssumption DEF NoEndpoint, Ends, Shows
  <2>8. /\ endpoint' = [endpoint EXCEPT ![id] = IF closed THEN NoEndpoint ELSE active]
        /\ endpoint' \in [Ids -> Ends]
    BY <1>1, <1>2, <1>3, <1>5, <2>7
  <2>9. endpoint' = IF closed THEN [endpoint EXCEPT ![id] = NoEndpoint]
                    ELSE [endpoint EXCEPT ![id] = active]
    BY <2>8
  <2>10. /\ stream' \in [Shows -> Streams]
         /\ \A j \in Shows : j # k =>
               /\ stream'[j].frames = stream[j].frames
               /\ stream'[j].activate = stream[j].activate
               /\ stream'[j].open <=> stream[j].open
         /\ ~stream'[k].activate
         /\ stream'[k].open <=> stream[k].open /\ ~closed
         /\ stream'[k].frames = IF stream[k].open THEN stream[k].frames \o end.staged
                                ELSE stream[k].frames
    <3> HIDE DEF closed, end
    <3>1. CASE closed
      <4>1. stream' = shut
        BY <2>6, <3>1
      <4>2. \A j \in Shows : j # k =>
               /\ shut[j].frames = stream[j].frames
               /\ shut[j].activate = stream[j].activate
               /\ shut[j].open <=> stream[j].open
        BY <2>1, <2>4, <2>5
      <4>3. shut[k].frames = written[k].frames /\ ~shut[k].activate /\ ~shut[k].open
        BY <2>3, <2>4, <2>5
      <4> QED
        BY <2>1, <2>5, <3>1, <4>1, <4>2, <4>3
    <3>2. CASE ~closed
      <4>1. stream' = taken
        BY <2>6, <3>2
      <4> QED
        BY <2>1, <2>3, <2>4, <3>2, <4>1
    <3> QED
      BY <3>1, <3>2
  <2>11. Released(k)
    BY <1>5, <2>9, <2>10 DEF Released
  <2> QED
    BY <1>3, <2>8, <2>10, <2>11
<1> QED
  BY <1>4, <1>5

\* An endpoint takes what was kept for its id.
LEMMA InstallDoes ==
    ASSUME HubTypeOK, NEW k \in DOMAIN shows, shows[k].id # 0, InstallEndpoint(k)
    PROVE  LET id == shows[k].id
           IN  /\ id \in Ids /\ k \in Shows
               /\ endpoint' \in [Ids -> Ends]
               /\ \A i \in Ids : i # id => endpoint'[i] = endpoint[i]
               /\ endpoint'[id].stream = k /\ ~endpoint'[id].active
               /\ endpoint'[id].staged = Kept(unmatched, {id})
               /\ unmatched' = Kept(unmatched, Ids \ {id})
               /\ unmatched' \in Seq(Events)
               /\ stream' \in [Shows -> Streams]
               /\ \A j \in Shows :
                     /\ stream'[j].frames = stream[j].frames
                     /\ stream'[j].activate = stream[j].activate
                     /\ stream'[j].open <=> stream[j].open /\ j # endpoint[id].stream
<1>1. k \in Shows /\ shows[k].id \in Ids
  BY Numbered
<1> DEFINE id == shows[k].id
           kept == Kept(unmatched, {id})
           new == [stream |-> k, active |-> FALSE, staged |-> kept]
           shut == Shut(stream, {endpoint[id].stream})
<1>2. /\ endpoint' = [endpoint EXCEPT ![id] = new]
      /\ unmatched' = Kept(unmatched, Ids \ {id})
      /\ stream' = shut
  BY DEF InstallEndpoint, ForId, NotForId
<1>3. /\ endpoint' \in [Ids -> Ends] /\ unmatched' \in Seq(Events)
      /\ stream' \in [Shows -> Streams]
  BY InstallTyped
<1>4. endpoint \in [Ids -> Ends] /\ stream \in [Shows -> Streams]
  BY DEF HubTypeOK
<1>5. new.stream = k /\ ~new.active /\ new.staged = kept
  OBVIOUS
<1> HIDE DEF kept
<1>6. \A j \in Shows :
         /\ shut[j].frames = stream[j].frames
         /\ shut[j].activate = stream[j].activate
         /\ shut[j].open <=> stream[j].open /\ j \notin {endpoint[id].stream}
  BY <1>4, ShutDoes
<1> HIDE DEF new, shut
<1>7. endpoint'[id] = new /\ \A i \in Ids : i # id => endpoint'[i] = endpoint[i]
  BY <1>1, <1>2, <1>4
<1> QED
  BY <1>1, <1>2, <1>3, <1>5, <1>6, <1>7 DEF kept

\* The presenter knows nothing any more.
LEMMA RestartDoes ==
    ASSUME HubTypeOK, PresenterRestarts
    PROVE  /\ endpoint' \in [Ids -> Ends]
           /\ \A id \in Ids : endpoint'[id] = NoEndpoint
           /\ NoEndpoint.stream = 0 /\ ~NoEndpoint.active /\ NoEndpoint.staged = <<>>
           /\ unmatched' = <<>> /\ signals' = <<>> /\ late' = {}
           /\ <<>> \in Seq(Events)
           /\ stream' \in [Shows -> Streams]
           /\ \A k \in Shows :
                 /\ stream'[k].frames = stream[k].frames
                 /\ ~stream'[k].open /\ ~stream'[k].activate
           /\ spoiled' = Ids \cup {0}
           /\ work' = NoWork \/ (work' = work /\ work.pc \notin {"notify", "endpoint"})
<1>1. NoEndpoint \in Ends /\ <<>> \in Seq(Events)
  BY EmptySeq, HubAssumption DEF NoEndpoint, Ends
<1>2. stream \in [Shows -> Streams]
  BY DEF HubTypeOK
<1> DEFINE shut == Shut(stream, Shows)
<1>3. /\ shut \in [Shows -> Streams]
      /\ \A k \in Shows :
            /\ shut[k].frames = stream[k].frames
            /\ shut[k].open <=> stream[k].open /\ k \notin Shows
  BY <1>2, ShutDoes
<1>4. stream' = [k \in Shows |-> [shut[k] EXCEPT !.activate = FALSE]]
  BY DEF PresenterRestarts
<1> HIDE DEF shut
<1>5. \A k \in Shows :
         /\ [shut[k] EXCEPT !.activate = FALSE] \in Streams
         /\ [shut[k] EXCEPT !.activate = FALSE].frames = shut[k].frames
         /\ [shut[k] EXCEPT !.activate = FALSE].open = shut[k].open
         /\ ~[shut[k] EXCEPT !.activate = FALSE].activate
  <2> SUFFICES ASSUME NEW k \in Shows
               PROVE  /\ [shut[k] EXCEPT !.activate = FALSE] \in Streams
                      /\ [shut[k] EXCEPT !.activate = FALSE].frames = shut[k].frames
                      /\ [shut[k] EXCEPT !.activate = FALSE].open = shut[k].open
                      /\ ~[shut[k] EXCEPT !.activate = FALSE].activate
    OBVIOUS
  <2>1. shut[k] \in Streams
    BY <1>3
  <2> QED
    BY <2>1 DEF Streams
<1>6. /\ stream' \in [Shows -> Streams]
      /\ \A k \in Shows :
            /\ stream'[k].frames = stream[k].frames
            /\ ~stream'[k].open /\ ~stream'[k].activate
  BY <1>3, <1>4, <1>5
<1>7. /\ endpoint' = [id \in Ids |-> NoEndpoint]
      /\ unmatched' = <<>> /\ signals' = <<>> /\ late' = {}
      /\ spoiled' = Ids \cup {0}
      /\ work' = NoWork \/ (work' = work /\ work.pc \notin {"notify", "endpoint"})
  BY DEF PresenterRestarts
<1>8. NoEndpoint.stream = 0 /\ ~NoEndpoint.active /\ NoEndpoint.staged = <<>>
  BY DEF NoEndpoint
<1> QED
  BY <1>1, <1>6, <1>7, <1>8

\* Shut leaves what a stream holds and shuts those it names.
ShutOnly(ks) ==
    /\ stream' \in [Shows -> Streams]
    /\ \A j \in Shows :
          /\ stream'[j].frames = stream[j].frames
          /\ stream'[j].activate = stream[j].activate
          /\ stream'[j].open <=> stream[j].open /\ j \notin ks

\* Shut is such a change.
LEMMA ShutIsOnly ==
    ASSUME HubTypeOK, NEW ks, stream' = Shut(stream, ks)
    PROVE  ShutOnly(ks)
<1>1. stream \in [Shows -> Streams]
  BY DEF HubTypeOK
<1> DEFINE shut == Shut(stream, ks)
<1>2. /\ shut \in [Shows -> Streams]
      /\ \A j \in Shows :
            /\ shut[j].frames = stream[j].frames
            /\ shut[j].activate = stream[j].activate
            /\ shut[j].open <=> stream[j].open /\ j \notin ks
  BY <1>1, ShutDoes
<1> HIDE DEF shut
<1>3. stream' = shut
  BY DEF shut
<1> QED
  BY <1>2, <1>3 DEF ShutOnly

\* A presentation that fails leaves the gate, and its id is not relied on.
LEMMA AbandonDoes ==
    ASSUME HubTypeOK, Gate, work # NoWork, Abandon
    PROVE  /\ work' = NoWork /\ ShutOnly({work.show})
           /\ spoiled' = spoiled \cup {Show.id} /\ spoiled' \subseteq Ids \cup {0}
BY AbandonTyped, ShutIsOnly DEF Abandon

\* The registration: the owner is entered, or the presentation fails.
Registered ==
    /\ owner[Show.id] \in {None, Show.by}
    /\ pending' = [pending EXCEPT ![Show.id] = work.show]
    /\ ShutOnly({pending[Show.id]})
    /\ owner' = [owner EXCEPT ![Show.id] = Show.by]
    /\ work' \in Works /\ work'.pc = "activate" /\ work'.show = work.show
    /\ work'.previous = owner[Show.id]
    /\ spoiled' = spoiled
\* Another owner has the id: the presentation is given up.
Refused ==
    /\ owner' = owner
    /\ pending' = [pending EXCEPT ![Show.id] = 0]
    /\ ShutOnly({pending[Show.id], work.show})
    /\ work' = NoWork
    /\ spoiled' = spoiled \cup {Show.id}

\* Register is the one or the other.
LEMMA RegisterDoes ==
    ASSUME HubTypeOK, Gate, Register
    PROVE  /\ Show.id \in Ids /\ work.show \in Shows /\ work.pc = "register"
           /\ Registered \/ Refused
           /\ pending' \in [Ids -> 0 .. MaxShown]
           /\ owner' \in [Ids -> Owners \cup {None}]
<1>1. Presenting("register") /\ "register" \in Stages
  BY DEF Register, Stages
<1>2. /\ work \in Works /\ work.show \in Shows /\ Show \in Presentations /\ Show.id # 0
      /\ work.pc = "register"
  BY <1>1, AtWork
<1>3. Show.id \in Ids /\ Show.by \in Owners
  BY <1>2 DEF Presentations
<1>4. work.show \in 0 .. MaxShown /\ 0 \in 0 .. MaxShown
  BY <1>2, HubAssumption DEF Shows
<1>5. CASE owner[Show.id] \in {None, Show.by}
  <2>1. /\ pending' = [pending EXCEPT ![Show.id] = work.show]
        /\ stream' = Shut(stream, {pending[Show.id]})
        /\ owner' = [owner EXCEPT ![Show.id] = Show.by]
        /\ work' = [work EXCEPT !.pc = "activate", !.previous = owner[Show.id]]
        /\ spoiled' = spoiled
    BY <1>5 DEF Register
  <2>2. ShutOnly({pending[Show.id]})
    BY <2>1, ShutIsOnly
  <2>3. /\ work' \in Works /\ work'.pc = "activate" /\ work'.show = work.show
        /\ work'.previous = owner[Show.id]
    BY <1>2, <1>3, <1>5, <2>1 DEF Works, Stages
  <2>4. pending' \in [Ids -> 0 .. MaxShown] /\ owner' \in [Ids -> Owners \cup {None}]
    BY <1>3, <1>4, <2>1 DEF HubTypeOK
  <2> QED
    BY <1>2, <1>3, <1>5, <2>1, <2>2, <2>3, <2>4 DEF Registered
<1>6. CASE owner[Show.id] \notin {None, Show.by}
  <2>1. /\ pending' = [pending EXCEPT ![Show.id] = 0]
        /\ stream' = Shut(stream, {pending[Show.id], work.show})
        /\ work' = NoWork
        /\ spoiled' = spoiled \cup {Show.id}
        /\ owner' = owner
    BY <1>6 DEF Register
  <2>2. ShutOnly({pending[Show.id], work.show})
    BY <2>1, ShutIsOnly
  <2>3. pending' \in [Ids -> 0 .. MaxShown] /\ owner' \in [Ids -> Owners \cup {None}]
    BY <1>3, <1>4, <2>1 DEF HubTypeOK
  <2> QED
    BY <1>2, <1>3, <1>6, <2>1, <2>2, <2>3 DEF Refused
<1> QED
  BY <1>5, <1>6

\* The presenter is told to release, and a thread reads from now on.
LEMMA ActivatesDoes ==
    ASSUME HubTypeOK, Gate, Activate
    PROVE  /\ Show.id \in Ids /\ work.show \in Shows /\ work.pc = "activate"
           /\ pending' = [pending EXCEPT ![Show.id] = 0]
           /\ pending' \in [Ids -> 0 .. MaxShown]
           /\ stream' \in [Shows -> Streams]
           /\ \A k \in Shows :
                 /\ stream'[k].frames = stream[k].frames
                 /\ stream'[k].open <=> stream[k].open
                 /\ stream'[k].activate <=> stream[k].activate \/ k = work.show
           /\ reader' = [reader EXCEPT ![work.show] = "reading"]
           /\ reader' \in [Shows -> {"none", "reading", "release", "ended"}]
           /\ work' \in Works /\ work'.pc = "settle" /\ work'.show = work.show
<1>1. Presenting("activate") /\ "activate" \in Stages
  BY DEF Activate, Stages
<1>2. /\ work \in Works /\ work.show \in Shows /\ Show \in Presentations /\ Show.id # 0
      /\ work.pc = "activate"
  BY <1>1, AtWork
<1>3. Show.id \in Ids /\ 0 \in 0 .. MaxShown
  BY <1>2, HubAssumption DEF Presentations
<1>4. /\ pending' = [pending EXCEPT ![Show.id] = 0]
      /\ reader' = [reader EXCEPT ![work.show] = "reading"]
      /\ work' = [work EXCEPT !.pc = "settle"]
      /\ stream' = [stream EXCEPT ![work.show].activate = TRUE]
  BY DEF Activate
<1>5. /\ pending' \in [Ids -> 0 .. MaxShown]
      /\ reader' \in [Shows -> {"none", "reading", "release", "ended"}]
  BY <1>2, <1>3, <1>4 DEF HubTypeOK
<1>6. work' \in Works /\ work'.pc = "settle" /\ work'.show = work.show
  BY <1>2, <1>4 DEF Works, Stages
<1> DEFINE new == [stream[work.show] EXCEPT !.activate = TRUE]
<1>7. stream \in [Shows -> Streams] /\ stream[work.show] \in Streams
  BY <1>2 DEF HubTypeOK
<1>8. /\ new \in Streams /\ new.frames = stream[work.show].frames /\ new.activate
      /\ (new.open <=> stream[work.show].open)
  BY <1>7 DEF Streams
<1>9. stream' = [stream EXCEPT ![work.show] = new]
  BY <1>4
<1> HIDE DEF new
<1>10. /\ stream' \in [Shows -> Streams] /\ stream'[work.show] = new
       /\ \A k \in Shows : k # work.show => stream'[k] = stream[k]
  BY <1>2, <1>7, <1>8, <1>9
<1>11. ASSUME NEW k \in Shows
       PROVE  /\ stream'[k].frames = stream[k].frames
              /\ stream'[k].open <=> stream[k].open
              /\ stream'[k].activate <=> stream[k].activate \/ k = work.show
  BY <1>8, <1>10
<1> QED
  BY <1>2, <1>3, <1>4, <1>5, <1>6, <1>10, <1>11

\* The activation failed.
LEMMA ActivateFailsDoes ==
    ASSUME HubTypeOK, Gate, ActivateFails
    PROVE  /\ Show.id \in Ids /\ work.show \in Shows /\ work.pc = "activate"
           /\ pending' = [pending EXCEPT ![Show.id] = 0]
           /\ pending' \in [Ids -> 0 .. MaxShown]
           /\ owner' \in [Ids -> Owners \cup {None}]
           /\ \A id \in Ids : owner'[id] = owner[id] \/ (id = Show.id /\ owner'[id] = None)
           /\ work' = NoWork /\ ShutOnly({work.show})
           /\ spoiled' = spoiled \cup {Show.id} /\ spoiled' \subseteq Ids \cup {0}
<1>1. Presenting("activate") /\ "activate" \in Stages /\ Abandon
  BY DEF ActivateFails, Stages
<1>2. /\ work \in Works /\ work.show \in Shows /\ Show \in Presentations /\ Show.id # 0
      /\ work.pc = "activate" /\ work # NoWork
  BY <1>1, AtWork
<1>3. Show.id \in Ids /\ 0 \in 0 .. MaxShown
  BY <1>2, HubAssumption DEF Presentations
<1>4. /\ pending' = [pending EXCEPT ![Show.id] = 0]
      /\ owner' = IF work.previous = None THEN [owner EXCEPT ![Show.id] = None] ELSE owner
  BY DEF ActivateFails
<1>5. pending' \in [Ids -> 0 .. MaxShown]
  BY <1>3, <1>4 DEF HubTypeOK
<1>6. /\ owner' \in [Ids -> Owners \cup {None}]
      /\ \A id \in Ids : owner'[id] = owner[id] \/ (id = Show.id /\ owner'[id] = None)
  BY <1>3, <1>4 DEF HubTypeOK
<1> QED
  BY <1>1, <1>2, <1>3, <1>4, <1>5, <1>6, AbandonDoes

\* What the user does joins the signals.
LEMMA RaiseDoes ==
    ASSUME HubTypeOK, NEW k \in DOMAIN shows, shows[k].id # 0, NEW kind \in Kinds,
           raised' = [raised EXCEPT ![k] = Append(@, kind)],
           signals' = Append(signals, Event(k, kind)), NEW e, e = Event(k, kind)
    PROVE  /\ e \in Events /\ e.id = shows[k].id /\ e.of = k /\ e.kind = kind
           /\ raised' \in [Shows -> Seq(Kinds)]
           /\ \A j \in Shows : j # k => raised'[j] = raised[j]
           /\ raised'[k] = Append(raised[k], kind)
           /\ DOMAIN raised[k] = 1 .. Len(raised[k]) /\ Len(raised[k]) \in Nat
           /\ DOMAIN raised'[k] = 1 .. Len(raised[k]) + 1
           /\ \A i \in 1 .. Len(raised[k]) : raised'[k][i] = raised[k][i]
           /\ raised'[k][Len(raised[k]) + 1] = kind
           /\ signals' \in Seq(Events)
           /\ DOMAIN signals = 1 .. Len(signals) /\ Len(signals) \in Nat
           /\ DOMAIN signals' = 1 .. Len(signals) + 1
           /\ \A i \in 1 .. Len(signals) : signals'[i] = signals[i]
           /\ signals'[Len(signals) + 1] = e
<1>1. k \in Shows /\ shows[k].id \in Ids
  BY Numbered
<1>2. e \in Events /\ e.id = shows[k].id /\ e.of = k /\ e.kind = kind
  BY <1>1 DEF Events, Event
<1>3. raised[k] \in Seq(Kinds) /\ raised \in [Shows -> Seq(Kinds)] /\ signals \in Seq(Events)
  BY <1>1 DEF HubTypeOK
<1> DEFINE new == Append(raised[k], kind)
<1>4. /\ new \in Seq(Kinds) /\ Len(new) = Len(raised[k]) + 1
      /\ \A i \in 1 .. Len(raised[k]) : new[i] = raised[k][i]
      /\ new[Len(raised[k]) + 1] = kind
  <2> DEFINE old == raised[k]
  <2>1. old \in Seq(Kinds)
    BY <1>3
  <2> HIDE DEF old
  <2>2. /\ Append(old, kind) \in Seq(Kinds) /\ Len(Append(old, kind)) = Len(old) + 1
        /\ \A i \in 1 .. Len(old) : Append(old, kind)[i] = old[i]
        /\ Append(old, kind)[Len(old) + 1] = kind
    BY <2>1, AppendProperties
  <2> QED
    BY <2>2 DEF old
<1>5. /\ DOMAIN new = 1 .. Len(raised[k]) + 1
      /\ DOMAIN raised[k] = 1 .. Len(raised[k]) /\ Len(raised[k]) \in Nat
  BY <1>3, <1>4, LenProperties
<1>6. new = Append(raised[k], kind)
  OBVIOUS
<1> HIDE DEF new
<1>7. /\ raised' \in [Shows -> Seq(Kinds)] /\ raised'[k] = new
      /\ \A j \in Shows : j # k => raised'[j] = raised[j]
  BY <1>1, <1>3, <1>4, <1>6
<1> DEFINE more == Append(signals, e)
<1>8. /\ more \in Seq(Events) /\ DOMAIN signals = 1 .. Len(signals) /\ Len(signals) \in Nat
      /\ DOMAIN more = 1 .. Len(signals) + 1
      /\ \A i \in 1 .. Len(signals) : more[i] = signals[i]
      /\ more[Len(signals) + 1] = e
  BY <1>2, <1>3, AppendDoes
<1>9. signals' = more
  OBVIOUS
<1> HIDE DEF more
<1> QED
  BY <1>2, <1>4, <1>5, <1>6, <1>7, <1>8, <1>9

\* The steps, one by one.
LEMMA HubSteps ==
    ASSUME [HubNext]_hubVars
    PROVE  \/ UNCHANGED hubVars
           \/ \E s \in Owners, replace \in Ids \cup {0} : BeginPresent(s, replace)
           \/ \E s \in ModuleSessions : SessionEnds(s)
           \/ PresentFails \/ PresentTimesOut \/ Register \/ Activate \/ ActivateFails
           \/ Settle \/ Notify \/ Acknowledge \/ ForwardSignal \/ PresenterRestarts
           \/ \E k \in Shows : Route(k) \/ Release(k) \/ ReaderEnds(k)
           \/ \E k \in Shows : LateEndpoint(k) \/ ReceiveActivate(k) \/ ForgetStream(k)
           \/ \E id \in Ids : Act(id) \/ Close(id)
<1>1. CASE HubNext
  BY <1>1 DEF HubNext, BossSteps, Presenter
<1> QED
  BY <1>1

\* An action or a close is of the presentation on the screen.
LEMMA ActDoes ==
    ASSUME HubTypeOK, Latest, NEW id \in Ids, Act(id) \/ Close(id)
    PROVE  LET k == screen[id]
           IN  /\ k \in DOMAIN shows /\ k \in Shows /\ k # 0 /\ shows[k].id = id
               /\ \E kind \in Kinds :
                     /\ Raise(k, kind)
                     /\ \/ kind = "action" /\ raised[k] = <<>> /\ screen' = screen
                        \/ kind = "closed" /\ screen' = [screen EXCEPT ![id] = 0]
<1>1. screen[id] # 0
  BY DEF Act, Close
<1>2. screen[id] \in DOMAIN shows /\ shows[screen[id]].id = id
  BY <1>1 DEF Latest
<1>3. screen[id] \in Shows
  BY <1>2, Numbered
<1>4. CASE Act(id)
  BY <1>1, <1>2, <1>3, <1>4 DEF Act, Kinds
<1>5. CASE Close(id)
  BY <1>1, <1>2, <1>3, <1>5 DEF Close, Kinds
<1> QED
  BY <1>4, <1>5

\* Types are kept.
LEMMA HubTypeStep ==
    ASSUME HubTypeOK, Gate, Latest, Begun, [HubNext]_hubVars
    PROVE  HubTypeOK'
<1>1. CASE UNCHANGED hubVars
  BY <1>1 DEF HubTypeOK, hubVars
<1>2. ASSUME NEW s \in Owners, NEW replace \in Ids \cup {0}, BeginPresent(s, replace)
      PROVE  HubTypeOK'
  <2>1. /\ shows' \in Seq(Presentations) /\ Len(shows') <= MaxShown
        /\ stream' \in [Shows -> Streams] /\ work' \in Works
    <3>1. PICK n : n = Len(shows) + 1
      OBVIOUS
    <3> QED
      BY <1>2, <3>1, BeginDoes
  <2> QED
    BY <1>2, <2>1 DEF BeginPresent, HubTypeOK
<1>3. ASSUME NEW s \in ModuleSessions, SessionEnds(s) PROVE HubTypeOK'
  BY <1>3 DEF SessionEnds, HubTypeOK
<1>4. CASE PresentFails
  <2>1. work # NoWork /\ Abandon
    BY <1>4, AtWork DEF PresentFails, Stages
  <2>2. work' = NoWork /\ stream' \in [Shows -> Streams] /\ spoiled' \subseteq Ids \cup {0}
    BY <2>1, AbandonDoes DEF ShutOnly
  <2> QED
    BY <1>4, <2>2 DEF PresentFails, HubTypeOK
<1>5. CASE PresentTimesOut
  <2>1. work # NoWork /\ Abandon /\ work.show \in Shows
    BY <1>5, AtWork DEF PresentTimesOut, Stages
  <2>2. work' = NoWork /\ stream' \in [Shows -> Streams] /\ spoiled' \subseteq Ids \cup {0}
    BY <2>1, AbandonDoes DEF ShutOnly
  <2>3. late' \subseteq Shows
    BY <1>5, <2>1 DEF PresentTimesOut, HubTypeOK
  <2> QED
    BY <1>5, <2>2, <2>3 DEF PresentTimesOut, HubTypeOK
<1>6. CASE Register
  <2>1. /\ pending' \in [Ids -> 0 .. MaxShown] /\ owner' \in [Ids -> Owners \cup {None}]
        /\ work' \in {NoWork} \cup Works /\ stream' \in [Shows -> Streams]
        /\ spoiled' \subseteq Ids \cup {0}
    <3>1. spoiled \subseteq Ids \cup {0}
      BY DEF HubTypeOK
    <3> QED
      BY <1>6, <3>1, RegisterDoes DEF Registered, Refused, ShutOnly
  <2> QED
    BY <1>6, <2>1 DEF Register, HubTypeOK
<1>7. CASE Activate
  <2>1. /\ pending' \in [Ids -> 0 .. MaxShown] /\ stream' \in [Shows -> Streams]
        /\ reader' \in [Shows -> {"none", "reading", "release", "ended"}]
        /\ work' \in {NoWork} \cup Works
    BY <1>7, ActivatesDoes
  <2> QED
    BY <1>7, <2>1 DEF Activate, HubTypeOK
<1>8. CASE ActivateFails
  <2>1. /\ pending' \in [Ids -> 0 .. MaxShown] /\ owner' \in [Ids -> Owners \cup {None}]
        /\ work' = NoWork /\ stream' \in [Shows -> Streams]
        /\ spoiled' \subseteq Ids \cup {0}
    BY <1>8, ActivateFailsDoes DEF ShutOnly
  <2> QED
    BY <1>8, <2>1 DEF ActivateFails, HubTypeOK
<1>9. CASE Settle
  <2>1. /\ shows' \in Seq(Presentations) /\ Len(shows') = Len(shows)
        /\ work' = NoWork /\ owner' \in [Ids -> Owners \cup {None}]
    BY <1>9, SettleDoes
  <2> QED
    BY <1>9, <2>1 DEF Settle, HubTypeOK
<1>10. CASE Notify
  <2>1. PICK id \in Ids :
           /\ shows' \in Seq(Presentations) /\ Len(shows') = Len(shows)
           /\ screen' = [screen EXCEPT ![id] = work.show]
           /\ work' \in Works
    BY <1>10, NotifyDoes
  <2>2. work.show \in 0 .. MaxShown
    BY <1>10, AtWork, HubAssumption DEF Notify, Stages, Shows
  <2>3. screen' \in [Ids -> 0 .. MaxShown]
    BY <2>1, <2>2 DEF HubTypeOK
  <2> QED
    BY <1>10, <2>1, <2>3 DEF Notify, HubTypeOK
<1>11. ASSUME NEW k \in DOMAIN shows, shows[k].id # 0, InstallEndpoint(k),
              work' \in {NoWork} \cup Works, late' \subseteq Shows,
              UNCHANGED <<live, owner, pending, reader, signals, screen, shows, raised,
                          delivered, spoiled>>
       PROVE  HubTypeOK'
  <2>1. /\ endpoint' \in [Ids -> Ends] /\ unmatched' \in Seq(Events)
        /\ stream' \in [Shows -> Streams]
    BY <1>11, InstallTyped
  <2> QED
    BY <1>11, <2>1 DEF HubTypeOK
<1>12. CASE Acknowledge
  <2>1. /\ work \in Works /\ work.show \in DOMAIN shows /\ Show.id # 0
    BY <1>12, AtWork DEF Acknowledge, Stages
  <2>2. work' \in Works
    BY <1>12, <2>1 DEF Acknowledge, Works, Stages
  <2>3. late' \subseteq Shows /\ InstallEndpoint(work.show)
    BY <1>12 DEF Acknowledge, HubTypeOK
  <2>4. UNCHANGED <<live, owner, pending, reader, signals, screen, shows, raised,
                    delivered, spoiled>>
    BY <1>12 DEF Acknowledge
  <2> QED
    BY <1>11, <2>1, <2>2, <2>3, <2>4 DEF Show
<1>13. ASSUME NEW k \in Shows, LateEndpoint(k) PROVE HubTypeOK'
  <2>1. k \in DOMAIN shows /\ shows[k].id # 0
    BY <1>13 DEF LateEndpoint, Begun
  <2>2. /\ late' \subseteq Shows /\ InstallEndpoint(k) /\ work' \in {NoWork} \cup Works
        /\ UNCHANGED <<live, owner, pending, reader, signals, screen, shows, raised,
                       delivered, spoiled>>
    BY <1>13 DEF LateEndpoint, HubTypeOK
  <2> QED
    BY <1>11, <2>1, <2>2
<1>14. CASE ForwardSignal
  <2>1. PICK e : e = Head(signals)
    OBVIOUS
  <2>2. /\ signals # <<>> /\ signals' = Tail(signals)
        /\ Unclaimed(e) \/ Staged(e) \/ Forwarded(e)
        /\ spoiled' \subseteq Ids \cup {0}
    BY <1>14, <2>1, ForwardDoes
  <2>3. signals' \in Seq(Events)
    BY <2>1, <2>2, SignalTaken
  <2>4. /\ endpoint' \in [Ids -> Ends] /\ unmatched' \in Seq(Events)
        /\ stream' \in [Shows -> Streams]
    <3>1. endpoint \in [Ids -> Ends] /\ unmatched \in Seq(Events) /\ stream \in [Shows -> Streams]
      BY DEF HubTypeOK
    <3>2. CASE Unclaimed(e)
      BY <3>1, <3>2 DEF Unclaimed
    <3>3. CASE Staged(e)
      BY <3>1, <3>3 DEF Staged
    <3>4. CASE Forwarded(e)
      BY <3>1, <3>4 DEF Forwarded
    <3> QED
      BY <2>2, <3>2, <3>3, <3>4
  <2> QED
    BY <1>14, <2>2, <2>3, <2>4 DEF ForwardSignal, HubTypeOK
<1>15. ASSUME NEW k \in Shows, ReceiveActivate(k) PROVE HubTypeOK'
  <2>1. k \in DOMAIN shows /\ shows[k].id # 0
    BY <1>15 DEF ReceiveActivate, Begun
  <2>2. endpoint' \in [Ids -> Ends] /\ stream' \in [Shows -> Streams]
    BY <1>15, <2>1, ActivateDoes
  <2> QED
    BY <1>15, <2>2 DEF ReceiveActivate, HubTypeOK
<1>16. ASSUME NEW k \in Shows, ForgetStream(k) PROVE HubTypeOK'
  <2>1. shows[k].id \in Ids
    BY <1>16, Numbered DEF ForgetStream
  <2>2. NoEndpoint \in Ends
    BY EmptySeq, HubAssumption DEF NoEndpoint, Ends
  <2>3. endpoint' \in [Ids -> Ends]
    BY <1>16, <2>1, <2>2 DEF ForgetStream, HubTypeOK
  <2> QED
    BY <1>16, <2>3 DEF ForgetStream, HubTypeOK
<1>17. CASE PresenterRestarts
  <2>1. /\ endpoint' \in [Ids -> Ends] /\ stream' \in [Shows -> Streams]
        /\ unmatched' \in Seq(Events) /\ signals' \in Seq(Events) /\ late' \subseteq Shows
        /\ spoiled' = Ids \cup {0} /\ work' \in {NoWork} \cup Works
    <3>1. work \in {NoWork} \cup Works
      BY DEF HubTypeOK
    <3> QED
      BY <1>17, <3>1, RestartDoes
  <2> QED
    BY <1>17, <2>1 DEF PresenterRestarts, HubTypeOK
<1>18. ASSUME NEW k \in Shows, Route(k) PROVE HubTypeOK'
  <2>1. PICK e : e = Head(stream[k].frames)
    OBVIOUS
  <2>2. /\ e \in Events /\ delivered' = Send(e) /\ stream' \in [Shows -> Streams]
        /\ reader' \in [Shows -> {"none", "reading", "release", "ended"}]
    BY <1>18, <2>1, RouteDoes
  <2>3. delivered' \in [Shows -> Seq(Owners \X Kinds)]
    BY <2>2, SendDoes
  <2> QED
    BY <1>18, <2>2, <2>3 DEF Route, HubTypeOK
<1>19. ASSUME NEW k \in Shows, Release(k) PROVE HubTypeOK'
  <2>1. stream' \in [Shows -> Streams]
    BY <1>19, ShutIsOnly DEF Release, ShutOnly
  <2>2. shows[k].id \in Ids
    BY <1>19, Numbered DEF Release, Begun
  <2>3. owner' \in [Ids -> Owners \cup {None}]
    BY <1>19, <2>2 DEF Release, HubTypeOK
  <2> QED
    BY <1>19, <2>1, <2>3 DEF Release, HubTypeOK
<1>20. ASSUME NEW k \in Shows, ReaderEnds(k) PROVE HubTypeOK'
  BY <1>20 DEF ReaderEnds, HubTypeOK
<1>21. ASSUME NEW id \in Ids, Act(id) \/ Close(id) PROVE HubTypeOK'
  <2> DEFINE k == screen[id]
  <2>1. k \in DOMAIN shows /\ shows[k].id # 0
    BY <1>21, ActDoes, HubAssumption
  <2>2. PICK kind \in Kinds :
           /\ Raise(k, kind)
           /\ \/ kind = "action" /\ raised[k] = <<>> /\ screen' = screen
              \/ kind = "closed" /\ screen' = [screen EXCEPT ![id] = 0]
    BY <1>21, ActDoes
  <2>3. screen' \in [Ids -> 0 .. MaxShown]
    BY <2>2, HubAssumption DEF HubTypeOK
  <2> HIDE DEF k
  <2>4. /\ raised' = [raised EXCEPT ![k] = Append(@, kind)]
        /\ signals' = Append(signals, Event(k, kind))
    BY <2>2 DEF Raise
  <2>5. PICK e : e = Event(k, kind)
    OBVIOUS
  <2>6. raised' \in [Shows -> Seq(Kinds)] /\ signals' \in Seq(Events)
    BY <2>1, <2>4, <2>5, RaiseDoes
  <2> QED
    BY <2>2, <2>3, <2>6 DEF Raise, HubTypeOK
<1> QED
  BY <1>1, <1>2, <1>3, <1>4, <1>5, <1>6, <1>7, <1>8, <1>9, <1>10, <1>12, <1>13, <1>14,
     <1>15, <1>16, <1>17, <1>18, <1>19, <1>20, <1>21, HubSteps

-----------------------------------------------------------------------------
(* Presentations, their ids and their owners *)

\* Few steps are about the presentations.
LEMMA ShowSteps ==
    ASSUME [HubNext]_hubVars
    PROVE  \/ UNCHANGED <<shows, screen, raised>>
           \/ \E s \in Owners, replace \in Ids \cup {0} : BeginPresent(s, replace)
           \/ Notify
           \/ Settle
           \/ \E id \in Ids : Act(id) \/ Close(id)
<1>1. CASE UNCHANGED hubVars
  BY <1>1 DEF hubVars
<1>2. CASE \E s \in ModuleSessions : SessionEnds(s)
  BY <1>2 DEF SessionEnds
<1>3. CASE PresentFails \/ PresentTimesOut \/ Register \/ Activate \/ ActivateFails
  BY <1>3 DEF PresentFails, PresentTimesOut, Register, Activate, ActivateFails
<1>4. CASE Acknowledge \/ ForwardSignal \/ PresenterRestarts
  BY <1>4 DEF Acknowledge, ForwardSignal, PresenterRestarts
<1>5. CASE \E k \in Shows : Route(k) \/ Release(k) \/ ReaderEnds(k)
  BY <1>5 DEF Route, Release, ReaderEnds
<1>6. CASE \E k \in Shows : LateEndpoint(k) \/ ReceiveActivate(k) \/ ForgetStream(k)
  BY <1>6 DEF LateEndpoint, ReceiveActivate, ForgetStream
<1> QED
  BY <1>1, <1>2, <1>3, <1>4, <1>5, <1>6, HubSteps

\* The gate passes from stage to stage.
LEMMA WorkSteps ==
    ASSUME HubTypeOK, Gate, [HubNext]_hubVars
    PROVE  \/ UNCHANGED <<work, shows>>
           \/ work' = NoWork
           \/ \E s \in Owners, replace \in Ids \cup {0} : BeginPresent(s, replace)
           \/ Notify
           \/ /\ Register \/ Activate \/ Acknowledge
              /\ work' \in Works /\ work'.show = work.show /\ work # NoWork
              /\ work.pc # "notify" /\ work'.pc # "notify" /\ shows' = shows
<1>1. CASE UNCHANGED hubVars
  BY <1>1 DEF hubVars
<1>2. CASE \E s \in ModuleSessions : SessionEnds(s)
  BY <1>2 DEF SessionEnds
<1>3. CASE PresentFails \/ PresentTimesOut \/ ActivateFails \/ Settle
  BY <1>3 DEF PresentFails, PresentTimesOut, ActivateFails, Settle, Abandon
<1>4. CASE ForwardSignal \/ PresenterRestarts
  BY <1>4 DEF ForwardSignal, PresenterRestarts
<1>5. CASE \E k \in Shows : Route(k) \/ Release(k) \/ ReaderEnds(k)
  BY <1>5 DEF Route, Release, ReaderEnds
<1>6. CASE \E k \in Shows : LateEndpoint(k) \/ ReceiveActivate(k) \/ ForgetStream(k)
  BY <1>6 DEF LateEndpoint, ReceiveActivate, ForgetStream
<1>7. CASE \E id \in Ids : Act(id) \/ Close(id)
  BY <1>7 DEF Act, Close, Raise
<1>8. CASE Register
  <2>1. work.pc = "register" /\ work # NoWork /\ shows' = shows
    BY <1>8, AtWork DEF Register, Stages
  <2>2. CASE Refused
    BY <2>2 DEF Refused
  <2>3. CASE Registered
    BY <1>8, <2>1, <2>3 DEF Registered
  <2> QED
    BY <1>8, <2>2, <2>3, RegisterDoes
<1>9. CASE Activate
  <2>1. work.pc = "activate" /\ work # NoWork /\ shows' = shows
    BY <1>9, AtWork DEF Activate, Stages
  <2> QED
    BY <1>9, <2>1, ActivatesDoes
<1>10. CASE Acknowledge
  <2>1. work.pc = "endpoint" /\ work # NoWork /\ shows' = shows /\ work \in Works
    BY <1>10, AtWork DEF Acknowledge, Stages
  <2>2. work' \in Works /\ work'.pc = "register" /\ work'.show = work.show
    BY <1>10, <2>1 DEF Acknowledge, Works, Stages
  <2> QED
    BY <1>10, <2>1, <2>2
<1> QED
  BY <1>1, <1>2, <1>3, <1>4, <1>5, <1>6, <1>7, <1>8, <1>9, <1>10, HubSteps

\* A served session stays served while it presents.
LEMMA LiveStep ==
    ASSUME HubTypeOK, [HubNext]_hubVars
    PROVE  /\ live' \subseteq live
           /\ work # NoWork /\ Show.by \in live \cup {Boss} => Show.by \in live' \cup {Boss}
           /\ live' = live \/ UNCHANGED <<work, shows>>
<1>1. CASE UNCHANGED hubVars
  BY <1>1 DEF hubVars
<1>2. CASE \E s \in ModuleSessions : SessionEnds(s)
  BY <1>2 DEF SessionEnds
<1>3. CASE PresentFails \/ PresentTimesOut \/ Register \/ Activate \/ ActivateFails
  BY <1>3 DEF PresentFails, PresentTimesOut, Register, Activate, ActivateFails
<1>4. CASE Settle \/ Notify \/ Acknowledge \/ ForwardSignal \/ PresenterRestarts
  BY <1>4 DEF Settle, Notify, Acknowledge, ForwardSignal, PresenterRestarts
<1>5. CASE \E k \in Shows : Route(k) \/ Release(k) \/ ReaderEnds(k)
  BY <1>5 DEF Route, Release, ReaderEnds
<1>6. CASE \E k \in Shows : LateEndpoint(k) \/ ReceiveActivate(k) \/ ForgetStream(k)
  BY <1>6 DEF LateEndpoint, ReceiveActivate, ForgetStream
<1>7. CASE \E id \in Ids : Act(id) \/ Close(id)
  BY <1>7 DEF Act, Close, Raise
<1>8. CASE \E s \in Owners, replace \in Ids \cup {0} : BeginPresent(s, replace)
  BY <1>8 DEF BeginPresent
<1> QED
  BY <1>1, <1>2, <1>3, <1>4, <1>5, <1>6, <1>7, <1>8, HubSteps

\* The gate is passed from one presentation to the next.
LEMMA GateStep ==
    ASSUME HubTypeOK, Gate, [HubNext]_hubVars
    PROVE  Gate'
<1>1. CASE UNCHANGED <<work, shows>>
  <2>1. Show' = Show
    BY <1>1 DEF Show
  <2> QED
    BY <1>1, <2>1, LiveStep DEF Gate
<1>2. CASE work' = NoWork
  BY <1>2 DEF Gate
<1>3. ASSUME NEW s \in Owners, NEW replace \in Ids \cup {0}, BeginPresent(s, replace)
      PROVE  Gate'
  <2>1. PICK n : n = Len(shows) + 1
    OBVIOUS
  <2>2. /\ Len(shows') = n /\ n \in Shows /\ shows'[n].by = s /\ shows'[n].id = 0
        /\ ~shows'[n].done /\ work'.pc = "notify" /\ work'.show = n
        /\ s \in live \cup {Boss}
    BY <1>3, <2>1, BeginDoes
  <2>3. n # 0 /\ live' = live
    BY <1>3, <2>2 DEF Shows, BeginPresent
  <2> QED
    BY <2>2, <2>3 DEF Gate, Show
<1>4. CASE Notify
  <2>1. /\ work.show = Len(shows) /\ Len(shows) # 0 /\ Show.by \in live \cup {Boss}
    BY <1>4, AtWork, Numbered DEF Notify, Stages
  <2>2. PICK id \in Ids :
           /\ Len(shows') = Len(shows) /\ shows'[work.show].id = id
           /\ shows'[work.show].by = Show.by /\ ~shows'[work.show].done
           /\ work'.pc = "endpoint" /\ work'.show = work.show
    BY <1>4, NotifyDoes
  <2>3. live' = live /\ id # 0
    BY <1>4, HubAssumption DEF Notify
  <2> QED
    BY <2>1, <2>2, <2>3 DEF Gate, Show
<1>5. CASE /\ Register \/ Activate \/ Acknowledge
           /\ work' \in Works /\ work'.show = work.show /\ work # NoWork
           /\ work.pc # "notify" /\ work'.pc # "notify" /\ shows' = shows
  <2>1. live' = live
    BY <1>5 DEF Register, Activate, Acknowledge
  <2>2. Show' = Show
    BY <1>5 DEF Show
  <2> QED
    BY <1>5, <2>1, <2>2 DEF Gate
<1> QED
  BY <1>1, <1>2, <1>3, <1>4, <1>5, WorkSteps

\* An id is given out anew, or again to what replaces its latest presentation.
LEMMA LatestStep ==
    ASSUME HubTypeOK, Gate, Owned, Latest, [HubNext]_hubVars
    PROVE  Latest'
<1> USE Numbered
<1>1. CASE UNCHANGED <<shows, screen, raised>>
  BY <1>1 DEF Latest
<1>2. ASSUME NEW s \in Owners, NEW replace \in Ids \cup {0}, BeginPresent(s, replace)
      PROVE  Latest'
  <2>1. PICK n : n = Len(shows) + 1
    OBVIOUS
  <2>2. /\ DOMAIN shows' = DOMAIN shows \cup {n} /\ n \notin DOMAIN shows
        /\ \A k \in DOMAIN shows : shows'[k] = shows[k]
        /\ shows'[n].id = 0 /\ ~shows'[n].done
    BY <1>2, <2>1, BeginDoes
  <2>3. screen' = screen
    BY <1>2 DEF BeginPresent
  <2> QED
    BY <2>2, <2>3 DEF Latest
<1>3. CASE Notify
  <2>1. /\ work.show = Len(shows) /\ work.show \in DOMAIN shows /\ Show.id = 0 /\ ~Show.done
    BY <1>3, AtWork DEF Notify, Stages
  <2>2. PICK id \in Ids :
           /\ DOMAIN shows' = DOMAIN shows
           /\ \A k \in DOMAIN shows : k # work.show => shows'[k] = shows[k]
           /\ shows'[work.show].id = id /\ ~shows'[work.show].done
           /\ shows'[work.show].replace = Show.replace
           /\ screen' = [screen EXCEPT ![id] = work.show]
           /\ \/ id = Show.replace
              \/ \A k \in DOMAIN shows : shows[k].id # id
    BY <1>3, NotifyDoes
  <2>3. \A k \in DOMAIN shows : k <= work.show
    BY <2>1
  <2>4. /\ screen'[id] = work.show
        /\ \A i \in Ids : i # id => screen'[i] = screen[i]
    BY <2>2 DEF HubTypeOK
  <2>5. \A i \in Ids : i # id /\ screen[i] # 0 => screen[i] # work.show
    BY <2>1, HubAssumption DEF Latest, Show
  <2>6. ASSUME NEW i \in Ids, screen'[i] # 0
        PROVE  /\ screen'[i] \in DOMAIN shows' /\ shows'[screen'[i]].id = i
               /\ \A j \in DOMAIN shows' : shows'[j].id = i => j <= screen'[i]
    <3>1. CASE i = id
      BY <2>1, <2>2, <2>3, <2>4, <3>1
    <3>2. CASE i # id
      BY <2>1, <2>2, <2>4, <2>5, <2>6, <3>2 DEF Latest
    <3> QED
      BY <3>1, <3>2
  <2>7. ASSUME NEW j \in DOMAIN shows', NEW k \in DOMAIN shows', shows'[k].id = shows'[j].id,
               shows'[k].id \notin {0, shows'[k].replace}
        PROVE  k <= j
    <3>1. CASE k # work.show
      BY <2>1, <2>2, <2>3, <2>7, <3>1 DEF Latest
    <3>2. CASE k = work.show
      BY <2>1, <2>2, <2>3, <2>7, <3>2
    <3> QED
      BY <3>1, <3>2
  <2>8. \A k \in DOMAIN shows' : shows'[k].done => shows'[k].id # 0
    BY <2>1, <2>2 DEF Latest
  <2> QED
    BY <2>6, <2>7, <2>8 DEF Latest
<1>4. CASE Settle
  <2>1. /\ DOMAIN shows' = DOMAIN shows /\ work.show \in DOMAIN shows /\ Show.id # 0
        /\ \A k \in DOMAIN shows :
              /\ shows'[k].id = shows[k].id /\ shows'[k].replace = shows[k].replace
              /\ shows'[k].done <=> shows[k].done \/ k = work.show
    BY <1>4, SettleDoes
  <2>2. screen' = screen
    BY <1>4 DEF Settle
  <2> QED
    BY <2>1, <2>2 DEF Latest, Show
<1>5. ASSUME NEW id \in Ids, Act(id) \/ Close(id) PROVE Latest'
  <2>1. shows' = shows /\ screen' \in {screen, [screen EXCEPT ![id] = 0]}
    BY <1>5 DEF Act, Close, Raise
  <2>2. \A i \in Ids : screen'[i] # 0 => screen'[i] = screen[i]
    BY <2>1 DEF HubTypeOK
  <2> QED
    BY <2>1, <2>2 DEF Latest
<1> QED
  BY <1>1, <1>2, <1>3, <1>4, <1>5, ShowSteps

\* Only the registration enters an owner, the one that presents.
LEMMA OwnerStep ==
    ASSUME HubTypeOK, Gate, Begun, [HubNext]_hubVars, NEW id \in Ids
    PROVE  \/ owner'[id] = owner[id]
           \/ owner'[id] = None
           \/ Register /\ Registered /\ id = Show.id /\ owner'[id] = Show.by
<1>1. CASE UNCHANGED hubVars
  BY <1>1 DEF hubVars
<1>2. CASE \E s \in ModuleSessions : SessionEnds(s)
  BY <1>2 DEF SessionEnds
<1>3. CASE PresentFails \/ PresentTimesOut \/ Activate
  BY <1>3 DEF PresentFails, PresentTimesOut, Activate
<1>4. CASE Notify \/ Acknowledge \/ ForwardSignal \/ PresenterRestarts
  BY <1>4 DEF Notify, Acknowledge, ForwardSignal, PresenterRestarts
<1>5. ASSUME NEW k \in Shows, Route(k) \/ Release(k) \/ ReaderEnds(k)
      PROVE  owner'[id] = owner[id] \/ owner'[id] = None
  <2>1. CASE Release(k)
    <3>1. owner' = [owner EXCEPT ![shows[k].id] = None]
      BY <2>1 DEF Release
    <3> QED
      BY <3>1 DEF HubTypeOK
  <2> QED
    BY <1>5, <2>1 DEF Route, ReaderEnds
<1>6. CASE \E k \in Shows : LateEndpoint(k) \/ ReceiveActivate(k) \/ ForgetStream(k)
  BY <1>6 DEF LateEndpoint, ReceiveActivate, ForgetStream
<1>7. CASE \E i \in Ids : Act(i) \/ Close(i)
  BY <1>7 DEF Act, Close, Raise
<1>8. CASE \E s \in Owners, replace \in Ids \cup {0} : BeginPresent(s, replace)
  BY <1>8 DEF BeginPresent
<1>9. CASE ActivateFails
  BY <1>9, ActivateFailsDoes
<1>10. CASE Settle
  BY <1>10, SettleDoes
<1>11. CASE Register
  <2>1. CASE Registered
    <3>1. owner' = [owner EXCEPT ![Show.id] = Show.by]
      BY <2>1 DEF Registered
    <3> QED
      BY <1>11, <2>1, <3>1 DEF HubTypeOK
  <2>2. CASE Refused
    BY <2>2 DEF Refused
  <2> QED
    BY <1>11, <2>1, <2>2, RegisterDoes
<1> QED
  BY <1>1, <1>2, <1>3, <1>4, <1>5, <1>6, <1>7, <1>8, <1>9, <1>10, <1>11, HubSteps

\* Presentations keep their session, what they replace and, once named, their id.
LEMMA ShowsStay ==
    ASSUME HubTypeOK, Gate, [HubNext]_hubVars
    PROVE  /\ DOMAIN shows \subseteq DOMAIN shows'
           /\ \A k \in DOMAIN shows :
                 /\ shows'[k].by = shows[k].by /\ shows'[k].replace = shows[k].replace
                 /\ shows[k].id # 0 => shows'[k].id = shows[k].id
                 /\ shows[k].done => shows'[k].done
<1> DEFINE Goal == /\ DOMAIN shows \subseteq DOMAIN shows'
                   /\ \A k \in DOMAIN shows :
                         /\ shows'[k].by = shows[k].by /\ shows'[k].replace = shows[k].replace
                         /\ shows[k].id # 0 => shows'[k].id = shows[k].id
                         /\ shows[k].done => shows'[k].done
<1>1. CASE UNCHANGED shows
  BY <1>1
<1>2. ASSUME NEW s \in Owners, NEW replace \in Ids \cup {0}, BeginPresent(s, replace)
      PROVE  Goal
  <2>1. PICK n : n = Len(shows) + 1
    OBVIOUS
  <2> QED
    BY <1>2, <2>1, BeginDoes
<1>3. CASE Notify
  <2>1. Show.id = 0 /\ ~Show.done
    BY <1>3, AtWork DEF Notify, Stages
  <2> QED
    BY <1>3, <2>1, NotifyDoes DEF Show
<1>4. CASE Settle
  BY <1>4, SettleDoes
<1>5. CASE \E id \in Ids : Act(id) \/ Close(id)
  BY <1>1, <1>5 DEF Act, Close, Raise
<1> QED
  BY <1>1, <1>2, <1>3, <1>4, <1>5, ShowSteps

\* Only a presentation's own session comes to own its id.
LEMMA OwnedStep ==
    ASSUME HubTypeOK, Gate, Owned, Begun, [HubNext]_hubVars
    PROVE  Owned'
<1> DEFINE Sole == \A j, k \in DOMAIN shows :
                      shows[j].id # 0 /\ shows[j].id = shows[k].id => shows[j].by = shows[k].by
           Own(k) == \E j \in 1 .. k - 1 : shows[j].id = shows[k].replace /\ shows[j].by = shows[k].by
           Had(id, o) == \E j \in DOMAIN shows : shows[j].id = id /\ shows[j].by = o
<1>1. /\ Len(shows) \in Nat /\ DOMAIN shows = 1 .. Len(shows) /\ 0 \notin Ids
      /\ \A k \in DOMAIN shows : k \in Nat /\ shows[k].replace \in Ids \cup {0}
  BY Numbered
<1>2. /\ Sole
      /\ \A k \in DOMAIN shows : shows[k].replace # 0 => Own(k)
      /\ \A id \in Ids : owner[id] # None => Had(id, owner[id])
  BY DEF Owned
<1>3. /\ DOMAIN shows \subseteq DOMAIN shows'
      /\ \A k \in DOMAIN shows :
            /\ shows'[k].by = shows[k].by /\ shows'[k].replace = shows[k].replace
            /\ shows[k].id # 0 => shows'[k].id = shows[k].id
  BY ShowsStay
<1>4. ASSUME NEW id \in Ids, NEW o, Had(id, o)
      PROVE  \E j \in DOMAIN shows' : shows'[j].id = id /\ shows'[j].by = o
  BY <1>1, <1>3, <1>4
<1>5. ASSUME NEW k \in DOMAIN shows, shows[k].replace # 0
      PROVE  \E j \in 1 .. k - 1 : shows'[j].id = shows'[k].replace /\ shows'[j].by = shows'[k].by
  <2>1. PICK j \in 1 .. k - 1 : shows[j].id = shows[k].replace /\ shows[j].by = shows[k].by
    BY <1>2, <1>5
  <2>2. j \in DOMAIN shows
    BY <1>1, <2>1
  <2> QED
    BY <1>3, <1>5, <2>1, <2>2
<1>6. ASSUME NEW id \in Ids, owner'[id] # None
      PROVE  \E j \in DOMAIN shows' : shows'[j].id = id /\ shows'[j].by = owner'[id]
  <2>1. CASE owner'[id] = owner[id]
    BY <1>2, <1>4, <1>6, <2>1
  <2>2. CASE Register /\ Registered /\ id = Show.id /\ owner'[id] = Show.by
    <3>1. work.show \in DOMAIN shows
      BY <2>2, AtWork DEF Register, Stages
    <3>2. Had(id, owner'[id])
      BY <2>2, <3>1 DEF Show
    <3> QED
      BY <1>4, <3>2
  <2> QED
    BY <1>6, <2>1, <2>2, OwnerStep
<1> DEFINE Sole1 == \A j, k \in DOMAIN shows' :
              shows'[j].id # 0 /\ shows'[j].id = shows'[k].id => shows'[j].by = shows'[k].by
           Own1(k) == \E j \in 1 .. k - 1 : shows'[j].id = shows'[k].replace /\ shows'[j].by = shows'[k].by
           OwnedShows == Sole1 /\ \A k \in DOMAIN shows' : shows'[k].replace # 0 => Own1(k)
<1>7. ASSUME DOMAIN shows' = DOMAIN shows, Sole1 PROVE OwnedShows
  <2> HIDE DEF Sole1
  <2> QED
    BY <1>3, <1>5, <1>7
<1>12. ASSUME UNCHANGED shows PROVE OwnedShows
  <2>1. Sole1
    BY <1>2, <1>12
  <2> QED
    BY <1>7, <1>12, <2>1
<1>8. ASSUME NEW s \in Owners, NEW r \in Ids \cup {0}, BeginPresent(s, r)
      PROVE  OwnedShows
  <2>1. PICK n : n = Len(shows) + 1
    OBVIOUS
  <2>2. /\ DOMAIN shows' = DOMAIN shows \cup {n} /\ n \notin DOMAIN shows
        /\ \A k \in DOMAIN shows : shows'[k] = shows[k]
        /\ shows'[n].id = 0 /\ shows'[n].by = s /\ shows'[n].replace = r
    BY <1>8, <2>1, BeginDoes, BeginReplaces
  <2>3. \A j, k \in DOMAIN shows' :
           shows'[j].id # 0 /\ shows'[j].id = shows'[k].id => shows'[j].by = shows'[k].by
    BY <1>2, <2>2
  <2>4. ASSUME r # 0
        PROVE  \E j \in 1 .. n - 1 : shows'[j].id = shows'[n].replace /\ shows'[j].by = shows'[n].by
    <3>1. owner[r] = s /\ r \in Ids
      BY <1>8, <2>4 DEF BeginPresent, MayReplace
    <3>2. s # None
      <4>1. s # Boss
        BY <1>8, <2>4 DEF BeginPresent, MayReplace
      <4> QED
        BY <4>1, HubAssumption DEF Owners
    <3>3. PICK j \in DOMAIN shows : shows[j].id = r /\ shows[j].by = s
      BY <1>2, <3>1, <3>2
    <3>4. j \in 1 .. n - 1
      BY <1>1, <2>1
    <3> QED
      BY <2>2, <3>3, <3>4
  <2> QED
    BY <1>5, <2>2, <2>3, <2>4
<1>9. ASSUME Notify PROVE OwnedShows
  <2>1. /\ work.show = Len(shows) /\ work.show \in DOMAIN shows /\ Show.id = 0
    BY <1>9, AtWork DEF Notify, Stages
  <2>2. PICK id \in Ids :
           /\ DOMAIN shows' = DOMAIN shows
           /\ \A k \in DOMAIN shows : k # work.show => shows'[k] = shows[k]
           /\ shows'[work.show].id = id /\ shows'[work.show].by = Show.by
           /\ \/ id = Show.replace
              \/ \A k \in DOMAIN shows : shows[k].id # id
    BY <1>9, NotifyDoes
  <2>3. ASSUME NEW k \in DOMAIN shows, shows[k].id = id PROVE shows[k].by = Show.by
    <3>1. id = Show.replace /\ id # 0
      BY <1>1, <2>2, <2>3
    <3>2. PICK j \in 1 .. work.show - 1 : shows[j].id = id /\ shows[j].by = Show.by
      BY <1>2, <2>1, <3>1 DEF Show
    <3>3. j \in DOMAIN shows
      BY <1>1, <2>1
    <3> QED
      BY <1>2, <2>3, <3>1, <3>2, <3>3
  <2>4. ASSUME NEW j \in DOMAIN shows', NEW k \in DOMAIN shows',
               shows'[j].id # 0, shows'[j].id = shows'[k].id
        PROVE  shows'[j].by = shows'[k].by
    <3>1. CASE j = work.show
      BY <2>1, <2>2, <2>3, <2>4, <3>1
    <3>2. CASE k = work.show
      BY <2>1, <2>2, <2>3, <2>4, <3>2
    <3>3. CASE j # work.show /\ k # work.show
      BY <1>2, <2>2, <2>4, <3>3
    <3> QED
      BY <3>1, <3>2, <3>3
  <2>5. Sole1
    BY <2>4
  <2> HIDE DEF OwnedShows, Sole1
  <2> QED
    BY <1>7, <2>2, <2>5
<1>10. ASSUME Settle PROVE OwnedShows
  <2>1. /\ DOMAIN shows' = DOMAIN shows
        /\ \A k \in DOMAIN shows : shows'[k].id = shows[k].id /\ shows'[k].by = shows[k].by
    BY <1>10, SettleDoes
  <2>2. Sole1
    BY <1>2, <2>1
  <2> HIDE DEF OwnedShows, Sole1
  <2> QED
    BY <1>7, <2>1, <2>2
<1>11. OwnedShows
  <2> HIDE DEF OwnedShows
  <2>1. ASSUME NEW id \in Ids, Act(id) \/ Close(id) PROVE OwnedShows
    BY <1>12, <2>1 DEF Act, Close, Raise
  <2> QED
    BY <1>12, <1>8, <1>9, <1>10, <2>1, ShowSteps
<1> QED
  BY <1>6, <1>11 DEF Owned

\* What may be raised of a presentation grows by one of the two orders.
LEMMA OrdersGrow ==
    ASSUME NEW r \in Orders
    PROVE  /\ r = <<>> => Append(r, "action") = <<"action">> /\ Append(r, "closed") = <<"closed">>
           /\ r = <<"action">> => Append(r, "closed") = <<"action", "closed">>
           /\ (\A i \in DOMAIN r : r[i] # "closed") => r = <<>> \/ r = <<"action">>
<1>1. ASSUME r = <<"closed">> \/ r = <<"action", "closed">>
      PROVE  \E i \in DOMAIN r : r[i] = "closed"
  BY <1>1
<1>2. (\A i \in DOMAIN r : r[i] # "closed") => r = <<>> \/ r = <<"action">>
  BY <1>1 DEF Orders
<1>3. /\ Append(<<>>, "action") = <<"action">> /\ Append(<<>>, "closed") = <<"closed">>
      /\ Append(<<"action">>, "closed") = <<"action", "closed">>
  <2>1. /\ <<>> \in Seq(Kinds) /\ <<"action">> \in Seq(Kinds) /\ <<"closed">> \in Seq(Kinds)
        /\ <<"action", "closed">> \in Seq(Kinds)
        /\ "action" \in Kinds /\ "closed" \in Kinds
    BY DEF Kinds
  <2>2. ASSUME NEW s \in Seq(Kinds), NEW x \in Kinds, NEW t \in Seq(Kinds),
               Len(t) = Len(s) + 1, \A i \in 1 .. Len(s) : t[i] = s[i], t[Len(s) + 1] = x
        PROVE  Append(s, x) = t
    <3> DEFINE u == Append(s, x)
    <3>1. /\ u \in Seq(Kinds) /\ Len(u) = Len(s) + 1
          /\ \A i \in 1 .. Len(s) : u[i] = s[i]
          /\ u[Len(s) + 1] = x
      BY AppendProperties
    <3>2. Len(s) \in Nat
      BY LenProperties
    <3> HIDE DEF u
    <3>3. \A i \in 1 .. Len(u) : u[i] = t[i]
      BY <2>2, <3>1, <3>2
    <3>4. u = t
      BY <2>2, <3>1, <3>3, SeqEqual
    <3> QED
      BY <3>4 DEF u
  <2>3. Len(<<>>) = 0 /\ Len(<<"action">>) = 1 /\ Len(<<"closed">>) = 1 /\ Len(<<"action", "closed">>) = 2
    OBVIOUS
  <2>4. Append(<<>>, "action") = <<"action">>
    BY <2>1, <2>2, <2>3
  <2>5. Append(<<>>, "closed") = <<"closed">>
    BY <2>1, <2>2, <2>3
  <2>6. Append(<<"action">>, "closed") = <<"action", "closed">>
    <3> DEFINE s == <<"action">>
               t == <<"action", "closed">>
    <3>1. /\ s \in Seq(Kinds) /\ t \in Seq(Kinds) /\ Len(s) = 1 /\ Len(t) = 2
          /\ s[1] = "action" /\ t[1] = "action" /\ t[2] = "closed"
      BY <2>1, <2>3
    <3> HIDE DEF s, t
    <3>2. Len(t) = Len(s) + 1 /\ t[Len(s) + 1] = "closed" /\ \A i \in 1 .. Len(s) : t[i] = s[i]
      BY <3>1
    <3>3. Append(s, "closed") = t
      BY <2>1, <2>2, <3>1, <3>2
    <3> QED
      BY <3>3 DEF s, t
  <2> QED
    BY <2>4, <2>5, <2>6
<1> QED
  BY <1>2, <1>3

\* The end is the last thing raised of a presentation.
LEMMA DoneStep ==
    ASSUME HubTypeOK, Gate, Latest, Done, [HubNext]_hubVars
    PROVE  Done'
<1>1. CASE UNCHANGED <<shows, screen, raised>>
  BY <1>1 DEF Done, IsRaised
<1>2. /\ DOMAIN shows \subseteq DOMAIN shows'
      /\ \A k \in DOMAIN shows : shows[k].id # 0 => shows'[k].id = shows[k].id
  BY ShowsStay
<1>3. ASSUME UNCHANGED <<screen, raised>> PROVE Done'
  BY <1>2, <1>3 DEF Done, IsRaised
<1>4. CASE \E s \in Owners, replace \in Ids \cup {0} : BeginPresent(s, replace)
  BY <1>3, <1>4 DEF BeginPresent
<1>5. CASE Settle
  BY <1>3, <1>5 DEF Settle
<1>6. CASE Notify
  <2>1. work.show \in DOMAIN shows /\ Show.id = 0 /\ work.show \in Shows
    BY <1>6, AtWork DEF Notify, Stages
  <2>2. PICK id \in Ids : screen' = [screen EXCEPT ![id] = work.show]
    BY <1>6, NotifyDoes
  <2>3. raised' = raised
    BY <1>6 DEF Notify
  <2>4. raised[work.show] = <<>>
    BY <2>1 DEF Done, Show
  <2>5. \A i \in Ids : screen'[i] = screen[i] \/ screen'[i] = work.show
    BY <2>2 DEF HubTypeOK
  <2>6. ~IsRaised(work.show, "closed")
    BY <2>4 DEF IsRaised
  <2>7. ASSUME NEW k PROVE IsRaised(k, "closed")' <=> IsRaised(k, "closed")
    BY <2>3 DEF IsRaised
  <2>8. \A i \in Ids : screen'[i] # 0 => ~IsRaised(screen[i], "closed")' \/ screen'[i] = work.show
    BY <2>5, <2>7 DEF Done
  <2>9. ASSUME NEW i \in Ids, screen'[i] # 0
        PROVE  \A n \in DOMAIN raised'[screen'[i]] : raised'[screen'[i]][n] # "closed"
    <3>1. CASE screen'[i] = work.show
      BY <2>3, <2>4, <3>1
    <3>2. CASE screen'[i] = screen[i]
      <4>1. ~IsRaised(screen[i], "closed")
        BY <2>9, <3>2 DEF Done
      <4> QED
        BY <2>3, <3>2, <4>1 DEF IsRaised
    <3> QED
      BY <2>5, <3>1, <3>2
  <2> QED
    BY <1>2, <2>3, <2>9 DEF Done, IsRaised
<1>7. ASSUME NEW id \in Ids, Act(id) \/ Close(id) PROVE Done'
  <2> DEFINE k == screen[id]
  <2>1. /\ k \in DOMAIN shows /\ shows[k].id = id /\ id # 0 /\ k # 0 /\ k \in Shows
    BY <1>7, ActDoes, HubAssumption
  <2>2. PICK kind \in Kinds :
           /\ Raise(k, kind)
           /\ \/ kind = "action" /\ raised[k] = <<>> /\ screen' = screen
              \/ kind = "closed" /\ screen' = [screen EXCEPT ![id] = 0]
    BY <1>7, ActDoes
  <2>3. /\ raised' = [raised EXCEPT ![k] = Append(raised[k], kind)] /\ shows' = shows
    BY <2>2 DEF Raise
  <2>4. raised[k] \in Orders /\ ~IsRaised(k, "closed")
    BY <2>1 DEF Done
  <2>5. \A i \in Ids : screen[i] = k => i = id
    BY <2>1, HubAssumption DEF Latest
  <2> HIDE DEF k
  <2>6. raised[k] = <<>> \/ raised[k] = <<"action">>
    BY <2>4, OrdersGrow DEF IsRaised
  <2>7. /\ Append(raised[k], kind) \in Orders
        /\ kind = "action" => Append(raised[k], kind) = <<"action">>
    <3>1. CASE kind = "action"
      BY <2>2, <2>4, <3>1, OrdersGrow DEF Orders
    <3>2. CASE kind = "closed"
      BY <2>4, <2>6, <3>2, OrdersGrow DEF Orders
    <3> QED
      BY <2>2, <3>1, <3>2
  <2>8. /\ raised'[k] = Append(raised[k], kind)
        /\ \A j \in Shows : j # k => raised'[j] = raised[j]
    BY <2>1, <2>3 DEF HubTypeOK
  <2>9. \A j \in Shows :
           /\ raised'[j] \in Orders
           /\ raised'[j] # <<>> => j \in DOMAIN shows' /\ shows'[j].id # 0
    BY <2>1, <2>3, <2>7, <2>8 DEF Done
  <2>10. ASSUME NEW i \in Ids, screen'[i] # 0
         PROVE  \A n \in DOMAIN raised'[screen'[i]] : raised'[screen'[i]][n] # "closed"
    <3>1. screen'[i] = screen[i] /\ (i = id => kind = "action")
      BY <2>2, <2>10 DEF HubTypeOK
    <3>2. CASE i = id
      BY <2>7, <2>8, <3>1, <3>2 DEF k
    <3>3. CASE i # id
      <4>1. screen[i] # k /\ screen[i] \in Shows
        BY <2>5, <2>10, <3>1, <3>3, Numbered DEF Latest
      <4>2. ~IsRaised(screen[i], "closed")
        BY <2>10, <3>1 DEF Done
      <4> QED
        BY <2>8, <3>1, <4>1, <4>2 DEF IsRaised
    <3> QED
      BY <3>2, <3>3
  <2> QED
    BY <2>9, <2>10 DEF Done, IsRaised
<1> QED
  BY <1>1, <1>4, <1>5, <1>6, <1>7, ShowSteps

-----------------------------------------------------------------------------
(* Streams, readers and endpoints *)

\* Only what is read of a stream, its activation and its release move a thread.
LEMMA ReaderSteps ==
    ASSUME HubTypeOK, Gate, [HubNext]_hubVars, NEW k \in Shows
    PROVE  \/ reader'[k] = reader[k]
           \/ Activate /\ k = work.show /\ reader'[k] = "reading"
           \/ reader[k] = "reading" /\ (Route(k) \/ ReaderEnds(k))
           \/ reader[k] = "release" /\ Release(k)
<1>1. CASE UNCHANGED hubVars
  BY <1>1 DEF hubVars
<1>2. CASE \E s \in ModuleSessions : SessionEnds(s)
  BY <1>2 DEF SessionEnds
<1>3. CASE PresentFails \/ PresentTimesOut \/ Register \/ ActivateFails \/ Settle
  BY <1>3 DEF PresentFails, PresentTimesOut, Register, ActivateFails, Settle
<1>4. CASE Notify \/ Acknowledge \/ ForwardSignal \/ PresenterRestarts
  BY <1>4 DEF Notify, Acknowledge, ForwardSignal, PresenterRestarts
<1>5. ASSUME NEW j \in Shows, Route(j) \/ Release(j) \/ ReaderEnds(j), j # k
      PROVE  reader'[k] = reader[k]
  <2>1. CASE Route(j)
    <3>1. PICK e : e = Head(stream[j].frames)
      OBVIOUS
    <3> QED
      BY <1>5, <2>1, <3>1, RouteDoes
  <2>2. CASE Release(j)
    BY <1>5, <2>2 DEF Release, HubTypeOK
  <2>3. CASE ReaderEnds(j)
    BY <1>5, <2>3 DEF ReaderEnds, HubTypeOK
  <2> QED
    BY <1>5, <2>1, <2>2, <2>3
<1>6. ASSUME Route(k) \/ Release(k) \/ ReaderEnds(k)
      PROVE  \/ reader[k] = "reading" /\ (Route(k) \/ ReaderEnds(k))
             \/ reader[k] = "release" /\ Release(k)
  BY <1>6 DEF Route, Release, ReaderEnds
<1>7. CASE \E j \in Shows : LateEndpoint(j) \/ ReceiveActivate(j) \/ ForgetStream(j)
  BY <1>7 DEF LateEndpoint, ReceiveActivate, ForgetStream
<1>8. CASE \E id \in Ids : Act(id) \/ Close(id)
  BY <1>8 DEF Act, Close, Raise
<1>9. CASE \E s \in Owners, replace \in Ids \cup {0} : BeginPresent(s, replace)
  BY <1>9 DEF BeginPresent
<1>10. CASE Activate
  <2>1. reader' = [reader EXCEPT ![work.show] = "reading"] /\ work.show \in Shows
    BY <1>10, ActivatesDoes
  <2> QED
    BY <1>10, <2>1 DEF HubTypeOK
<1> QED
  BY <1>1, <1>2, <1>3, <1>4, <1>5, <1>6, <1>7, <1>8, <1>9, <1>10, HubSteps

\* An endpoint shuts the stream of the one it replaces, and no other.
LEMMA InstallShuts ==
    ASSUME HubTypeOK, NEW k \in DOMAIN shows, InstallEndpoint(k)
    PROVE  ShutOnly({endpoint[shows[k].id].stream})
<1>1. stream' = Shut(stream, {endpoint[shows[k].id].stream})
  BY DEF InstallEndpoint
<1> QED
  BY <1>1, ShutIsOnly

\* The endpoint that a presentation installs, at work or given up.
Installs(k) ==
    /\ k \in DOMAIN shows /\ shows[k].id # 0
    /\ InstallEndpoint(k)
    /\ \/ Acknowledge /\ k = work.show
       \/ k \in late /\ LateEndpoint(k)

\* Both actions that install an endpoint install a named presentation's.
LEMMA InstallsDoes ==
    ASSUME HubTypeOK, Gate, Begun, Acknowledge \/ \E k \in Shows : LateEndpoint(k)
    PROVE  \E k \in DOMAIN shows : Installs(k)
<1>1. CASE Acknowledge
  <2>1. work.show \in DOMAIN shows /\ Show.id # 0
    BY <1>1, AtWork DEF Acknowledge, Stages
  <2> QED
    BY <1>1, <2>1 DEF Acknowledge, Installs, Show
<1>2. CASE \E k \in Shows : LateEndpoint(k)
  BY <1>2 DEF LateEndpoint, Installs, Begun
<1> QED
  BY <1>1, <1>2

\* What may shut the stream k.
Shuts(k) ==
    \/ k = work.show /\ (PresentFails \/ PresentTimesOut \/ ActivateFails \/ (Register /\ Refused))
    \/ Register /\ k = pending[Show.id]
    \/ Route(k) /\ Terminal(Head(stream[k].frames)) /\ owner[Head(stream[k].frames).id] = None
    \/ Release(k)
    \/ \E j \in DOMAIN shows : Installs(j) /\ k = endpoint[shows[j].id].stream
    \/ \E e \in Events :
          /\ ForwardSignal /\ e = Head(signals) /\ Forwarded(e)
          /\ Terminal(e) /\ k = endpoint[e.id].stream
    \/ /\ k \in DOMAIN shows /\ shows[k].id # 0
       /\ ReceiveActivate(k) /\ Released(k)
       /\ \E i \in DOMAIN endpoint[shows[k].id].staged : Terminal(endpoint[shows[k].id].staged[i])
    \/ PresenterRestarts

\* A stream stays open in every step that does not shut it.
LEMMA OpenSteps ==
    ASSUME HubTypeOK, Gate, Begun, [HubNext]_hubVars, NEW k \in Shows,
           stream[k].open, ~Shuts(k)
    PROVE  stream'[k].open
<1>1. CASE UNCHANGED stream
  BY <1>1
<1>2. ASSUME NEW s \in Owners, NEW r \in Ids \cup {0}, BeginPresent(s, r)
      PROVE  stream'[k].open
  <2>1. PICK n : n = Len(shows) + 1
    OBVIOUS
  <2>2. stream'[n] = NewStream /\ \A j \in Shows : j # n => stream'[j] = stream[j]
    BY <1>2, <2>1, BeginStreams
  <2> QED
    BY <2>2 DEF NewStream
<1>3. CASE PresentFails \/ PresentTimesOut
  <2>1. work # NoWork /\ Abandon
    BY <1>3, AtWork DEF PresentFails, PresentTimesOut, Stages
  <2> QED
    BY <1>3, <2>1, AbandonDoes DEF Shuts, ShutOnly
<1>4. CASE Register
  <2>1. Registered \/ Refused
    BY <1>4, RegisterDoes
  <2> QED
    BY <1>4, <2>1 DEF Shuts, Registered, Refused, ShutOnly
<1>5. CASE Activate
  BY <1>5, ActivatesDoes
<1>6. CASE ActivateFails
  BY <1>6, ActivateFailsDoes DEF Shuts, ShutOnly
<1>7. ASSUME NEW j \in Shows, Route(j) PROVE stream'[k].open
  <2>1. PICK e : e = Head(stream[j].frames)
    OBVIOUS
  <2>2. /\ j # k => stream'[k] = stream[k]
        /\ stream'[j].open <=> stream[j].open /\ (Terminal(e) => owner[e.id] # None)
    BY <1>7, <2>1, RouteDoes
  <2> QED
    BY <1>7, <2>1, <2>2 DEF Shuts
<1>8. ASSUME NEW j \in Shows, Release(j) PROVE stream'[k].open
  <2>1. stream' = Shut(stream, {j})
    BY <1>8 DEF Release
  <2>2. ShutOnly({j})
    BY <2>1, ShutIsOnly
  <2> QED
    BY <1>8, <2>2 DEF Shuts, ShutOnly
<1>9. ASSUME Acknowledge \/ \E j \in Shows : LateEndpoint(j) PROVE stream'[k].open
  <2>1. PICK j \in DOMAIN shows : Installs(j)
    BY <1>9, InstallsDoes
  <2>2. shows[j].id # 0 /\ InstallEndpoint(j)
    BY <2>1 DEF Installs
  <2>3. stream'[k].open <=> stream[k].open /\ k # endpoint[shows[j].id].stream
    BY <2>2, InstallShuts DEF ShutOnly
  <2> QED
    BY <2>1, <2>3 DEF Shuts
<1>10. CASE ForwardSignal
  <2>1. PICK e : e = Head(signals)
    OBVIOUS
  <2>2. e \in Events
    BY <1>10, <2>1, SignalTaken DEF ForwardSignal
  <2>3. Unclaimed(e) \/ Staged(e) \/ Forwarded(e)
    BY <1>10, <2>1, ForwardDoes
  <2>4. CASE Unclaimed(e) \/ Staged(e)
    BY <2>4 DEF Unclaimed, Staged
  <2>5. CASE Forwarded(e)
    <3>1. stream'[k].open <=> stream[k].open /\ (Terminal(e) => k # endpoint[e.id].stream)
      BY <2>5 DEF Forwarded
    <3> QED
      BY <1>10, <2>1, <2>2, <2>5, <3>1 DEF Shuts
  <2> QED
    BY <2>3, <2>4, <2>5
<1>11. ASSUME NEW j \in Shows, ReceiveActivate(j) PROVE stream'[k].open
  <2>1. j \in DOMAIN shows /\ shows[j].id # 0
    BY <1>11 DEF ReceiveActivate, Begun
  <2>2. j # k => (stream'[k].open <=> stream[k].open)
    BY <1>11, <2>1, ActivateDoes
  <2>3. \/ Released(j)
        \/ stream'[j].open <=> stream[j].open
    BY <1>11, <2>1, ActivateDoes
  <2>4. CASE Released(j)
    BY <1>11, <2>1, <2>2, <2>4 DEF Released, Shuts
  <2> QED
    BY <2>2, <2>3, <2>4
<1>12. CASE PresenterRestarts
  BY <1>12 DEF Shuts
<1>13. CASE UNCHANGED hubVars
  BY <1>13 DEF hubVars
<1>14. CASE \E s \in ModuleSessions : SessionEnds(s)
  BY <1>1, <1>14 DEF SessionEnds
<1>15. CASE Settle \/ Notify
  BY <1>1, <1>15 DEF Settle, Notify
<1>16. CASE \E j \in Shows : ReaderEnds(j) \/ ForgetStream(j)
  BY <1>1, <1>16 DEF ReaderEnds, ForgetStream
<1>17. CASE \E id \in Ids : Act(id) \/ Close(id)
  BY <1>1, <1>17 DEF Act, Close, Raise
<1> QED
  BY <1>2, <1>3, <1>4, <1>5, <1>6, <1>7, <1>8, <1>9, <1>10, <1>11, <1>12, <1>13, <1>14, <1>15,
     <1>16, <1>17, HubSteps

\* A presentation under way is one of those so far.
LEMMA WorkTyped ==
    ASSUME HubTypeOK, Gate, work # NoWork
    PROVE  work \in Works /\ work.show \in Shows /\ work.show \in DOMAIN shows /\ work.show # 0
<1>1. work \in Works
  BY DEF HubTypeOK
<1>2. Presenting(work.pc) /\ work.pc \in Stages
  BY <1>1 DEF Presenting, Works
<1> QED
  BY <1>1, <1>2, AtWork, Numbered

\* The stream at work is nobody's before its presentation is acknowledged.
LEMMA UntouchedStep ==
    ASSUME HubTypeOK, Gate, Begun, Endpoints, Untouched, [HubNext]_hubVars
    PROVE  Untouched'
<1>1. /\ work.pc \in {"notify", "endpoint", "register", "activate"} => reader[work.show] = "none"
      /\ work.pc \in {"notify", "endpoint"} => stream[work.show].open
  BY DEF Untouched
<1>2. NoWork.pc = "free"
  BY DEF NoWork
<1>3. ASSUME work # NoWork, reader[work.show] = "none", ~Activate
      PROVE  reader'[work.show] = "none"
  <2>1. work.show \in Shows
    BY <1>3, WorkTyped
  <2> QED
    BY <1>3, <2>1, ReaderSteps
<1>4. ASSUME work.pc \in {"notify", "endpoint"}, work' = work
      PROVE  stream'[work.show].open
  <2> DEFINE k == work.show
  <2>1. work # NoWork /\ k \in Shows /\ k # 0
    BY <1>2, <1>4, WorkTyped
  <2>2. reader[k] = "none" /\ stream[k].open
    BY <1>1, <1>4
  <2>3. ASSUME NEW id \in Ids PROVE endpoint[id].stream # k
    BY <1>4, <2>1, <2>3 DEF Endpoints
  <2>4. ~(PresentFails \/ PresentTimesOut \/ ActivateFails \/ Register)
    BY <1>4, <2>1 DEF PresentFails, PresentTimesOut, ActivateFails, Register, Presenting, Abandon
  <2>5. ~(Route(k) \/ Release(k))
    BY <2>2 DEF Route, Release
  <2>6. \A j \in DOMAIN shows : Installs(j) => endpoint[shows[j].id].stream # k
    BY <2>3, Numbered DEF Installs
  <2>7. \A e \in Events : endpoint[e.id].stream # k
    BY <2>3 DEF Events
  <2>8. k \in DOMAIN shows /\ shows[k].id # 0 => ~Released(k)
    BY <2>3, Numbered DEF Released
  <2>9. ~PresenterRestarts
    BY <1>4, <2>1 DEF PresenterRestarts
  <2> HIDE DEF k
  <2>10. ~Shuts(k)
    BY <2>4, <2>5, <2>6, <2>7, <2>8, <2>9 DEF Shuts, k
  <2>11. stream'[k].open
    BY <2>1, <2>2, <2>10, OpenSteps
  <2> QED
    BY <2>11 DEF k
<1>5. CASE UNCHANGED <<work, shows>>
  <2>1. ASSUME work.pc \in {"notify", "endpoint", "register", "activate"}
        PROVE  reader'[work.show] = "none"
    <3>1. work # NoWork
      BY <1>2, <2>1
    <3>2. ~Activate
      BY <1>5, <3>1 DEF Activate, Presenting, Works, Stages, HubTypeOK
    <3> QED
      BY <1>1, <1>3, <2>1, <3>1, <3>2
  <2> QED
    BY <1>4, <1>5, <2>1 DEF Untouched
<1>6. CASE work' = NoWork
  BY <1>2, <1>6 DEF Untouched
<1>7. ASSUME NEW s \in Owners, NEW r \in Ids \cup {0}, BeginPresent(s, r)
      PROVE  Untouched'
  <2>1. PICK n : n = Len(shows) + 1
    OBVIOUS
  <2>2. n \in Shows /\ n \notin DOMAIN shows /\ work'.show = n
    BY <1>7, <2>1, BeginDoes
  <2>3. stream'[n] = NewStream
    BY <1>7, <2>1, BeginStreams
  <2>4. reader' = reader
    BY <1>7 DEF BeginPresent
  <2>5. reader[n] = "none"
    BY <2>2 DEF Begun
  <2> QED
    BY <2>2, <2>3, <2>4, <2>5 DEF Untouched, NewStream
<1>8. CASE Notify
  <2>1. work.pc = "notify" /\ work' = [work EXCEPT !.pc = "endpoint"] /\ work \in Works
    BY <1>8, AtWork DEF Notify, Stages
  <2>2. work'.show = work.show
    BY <2>1 DEF Works
  <2>3. reader' = reader /\ stream' = stream
    BY <1>8 DEF Notify
  <2> QED
    BY <1>1, <2>1, <2>2, <2>3 DEF Untouched
<1>9. ASSUME Register \/ Activate \/ Acknowledge,
             work'.show = work.show, work # NoWork
      PROVE  Untouched'
  <2>1. CASE Activate
    BY <1>9, <2>1, ActivatesDoes DEF Untouched
  <2>2. CASE Register
    <3>1. work.pc = "register" /\ ~Activate /\ work'.pc \notin {"notify", "endpoint"}
      BY <2>2, RegisterDoes DEF Registered, Refused, NoWork, Activate, Presenting
    <3> QED
      BY <1>1, <1>3, <1>9, <3>1 DEF Untouched
  <2>3. CASE Acknowledge
    <3>1. work.pc = "endpoint" /\ ~Activate /\ work \in Works /\ work' = [work EXCEPT !.pc = "register"]
      BY <2>3, AtWork DEF Acknowledge, Stages, Activate, Presenting
    <3>2. work'.pc = "register"
      BY <3>1 DEF Works
    <3> QED
      BY <1>1, <1>3, <1>9, <3>1, <3>2 DEF Untouched
  <2> QED
    BY <1>9, <2>1, <2>2, <2>3
<1> QED
  BY <1>5, <1>6, <1>7, <1>8, <1>9, WorkSteps

\* The presentation at work moves on, ends, or is a new one.
LEMMA WorkMoves ==
    ASSUME HubTypeOK, Gate, [HubNext]_hubVars, work' # NoWork
    PROVE  \/ work # NoWork /\ work'.show = work.show
              /\ (work'.pc \in {"notify", "endpoint"} => work.pc \in {"notify", "endpoint"})
           \/ work'.show \notin DOMAIN shows
<1>1. ASSUME NEW s \in Owners, NEW r \in Ids \cup {0}, BeginPresent(s, r)
      PROVE  work'.show \notin DOMAIN shows
  <2>1. PICK n : n = Len(shows) + 1
    OBVIOUS
  <2> QED
    BY <1>1, <2>1, BeginDoes
<1>2. CASE Notify
  <2>1. work.pc = "notify" /\ work' = [work EXCEPT !.pc = "endpoint"] /\ work \in Works /\ work # NoWork
    BY <1>2, AtWork DEF Notify, Stages
  <2> QED
    BY <2>1 DEF Works
<1>3. ASSUME Register \/ Activate \/ Acknowledge, work'.show = work.show, work # NoWork
      PROVE  work'.pc \notin {"notify", "endpoint"}
  <2>1. CASE Activate
    BY <2>1, ActivatesDoes
  <2>2. CASE Register
    BY <2>2, RegisterDoes DEF Registered, Refused, NoWork
  <2>3. CASE Acknowledge
    <3>1. work \in Works /\ work' = [work EXCEPT !.pc = "register"]
      BY <2>3, AtWork DEF Acknowledge, Stages
    <3> QED
      BY <3>1 DEF Works
  <2> QED
    BY <1>3, <2>1, <2>2, <2>3
<1> QED
  BY <1>1, <1>2, <1>3, WorkSteps

\* Few steps are about the endpoints.
LEMMA EndSteps ==
    ASSUME [HubNext]_hubVars
    PROVE  \/ UNCHANGED <<endpoint, unmatched>>
           \/ Acknowledge \/ ForwardSignal \/ PresenterRestarts
           \/ \E k \in Shows : LateEndpoint(k) \/ ReceiveActivate(k) \/ ForgetStream(k)
<1>1. CASE UNCHANGED hubVars
  BY <1>1 DEF hubVars
<1>2. CASE \E s \in ModuleSessions : SessionEnds(s)
  BY <1>2 DEF SessionEnds
<1>3. CASE PresentFails \/ PresentTimesOut \/ Register \/ Activate \/ ActivateFails \/ Settle
  BY <1>3 DEF PresentFails, PresentTimesOut, Register, Activate, ActivateFails, Settle
<1>4. CASE Notify
  BY <1>4 DEF Notify
<1>5. CASE \E k \in Shows : Route(k) \/ Release(k) \/ ReaderEnds(k)
  BY <1>5 DEF Route, Release, ReaderEnds
<1>6. CASE \E id \in Ids : Act(id) \/ Close(id)
  BY <1>6 DEF Act, Close, Raise
<1>7. CASE \E s \in Owners, replace \in Ids \cup {0} : BeginPresent(s, replace)
  BY <1>7 DEF BeginPresent
<1> QED
  BY <1>1, <1>2, <1>3, <1>4, <1>5, <1>6, <1>7, HubSteps

\* An endpoint is of its id, and takes what is unmatched of it.
LEMMA EndpointsStep ==
    ASSUME HubTypeOK, Gate, Begun, Endpoints, [HubNext]_hubVars
    PROVE  Endpoints'
<1> DEFINE Whole(id) ==
             /\ endpoint'[id].stream = 0 => endpoint'[id] = NoEndpoint
             /\ endpoint'[id].active => endpoint'[id].staged = <<>>
           Its(id) ==
             endpoint'[id].stream # 0 =>
               /\ endpoint'[id].stream \in DOMAIN shows'
               /\ shows'[endpoint'[id].stream].id = id
               /\ work'.pc \in {"notify", "endpoint"} => endpoint'[id].stream # work'.show
           Claims(id) ==
             endpoint'[id].stream # 0 => \A i \in DOMAIN unmatched' : unmatched'[i].id # id
<1>1. ASSUME NEW id \in Ids
      PROVE  /\ endpoint[id].stream = 0 => endpoint[id] = NoEndpoint
             /\ endpoint[id].active => endpoint[id].staged = <<>>
             /\ endpoint[id].stream # 0 =>
                  /\ endpoint[id].stream \in DOMAIN shows
                  /\ shows[endpoint[id].stream].id = id
                  /\ work.pc \in {"notify", "endpoint"} => endpoint[id].stream # work.show
                  /\ \A i \in DOMAIN unmatched : unmatched[i].id # id
  BY DEF Endpoints
<1>2. NoEndpoint.stream = 0 /\ ~NoEndpoint.active /\ NoEndpoint.staged = <<>> /\ NoWork.pc = "free"
  BY DEF NoEndpoint, NoWork
<1>3. ASSUME NEW id \in Ids, endpoint'[id].stream = endpoint[id].stream PROVE Its(id)
  <2> SUFFICES ASSUME endpoint'[id].stream # 0
               PROVE  /\ endpoint'[id].stream \in DOMAIN shows'
                      /\ shows'[endpoint'[id].stream].id = id
                      /\ work'.pc \in {"notify", "endpoint"} => endpoint'[id].stream # work'.show
    OBVIOUS
  <2> DEFINE k == endpoint[id].stream
  <2>1. /\ k \in DOMAIN shows /\ shows[k].id = id /\ id # 0
        /\ work.pc \in {"notify", "endpoint"} => k # work.show
    BY <1>1, <1>3, HubAssumption
  <2>2. endpoint'[id].stream = k
    BY <1>3
  <2> HIDE DEF k
  <2>3. k \in DOMAIN shows' /\ shows'[k].id = id
    BY <2>1, ShowsStay
  <2>4. ASSUME work'.pc \in {"notify", "endpoint"} PROVE k # work'.show
    <3>1. work' # NoWork
      BY <1>2, <2>4
    <3> QED
      BY <2>1, <2>4, <3>1, WorkMoves
  <2> QED
    BY <2>2, <2>3, <2>4
<1>4. ASSUME NEW id \in Ids, endpoint'[id] = NoEndpoint PROVE Whole(id) /\ Its(id) /\ Claims(id)
  BY <1>2, <1>4
<1>5. ASSUME NEW id \in Ids, endpoint'[id] = endpoint[id],
             \A i \in DOMAIN unmatched' : \E j \in DOMAIN unmatched : unmatched[j] = unmatched'[i]
      PROVE  Whole(id) /\ Its(id) /\ Claims(id)
  <2>1. Whole(id) /\ Claims(id)
    BY <1>1, <1>5
  <2> QED
    BY <1>3, <1>5, <2>1
<1> DEFINE Good == \A id \in Ids : Whole(id) /\ Its(id) /\ Claims(id)
<1>6. CASE UNCHANGED <<endpoint, unmatched>>
  <2> HIDE DEF Whole, Its, Claims
  <2>1. Good
    BY <1>5, <1>6
  <2> QED
    BY <2>1 DEF Whole, Its, Claims, Endpoints
<1>7. ASSUME Acknowledge \/ \E k \in Shows : LateEndpoint(k) PROVE Good
  <2>1. PICK k \in DOMAIN shows : Installs(k)
    BY <1>7, InstallsDoes
  <2> DEFINE id == shows[k].id
  <2>2. id # 0 /\ InstallEndpoint(k) /\ k \in Shows /\ k # 0
    BY <2>1, Numbered DEF Installs
  <2>3. /\ id \in Ids
        /\ \A i \in Ids : i # id => endpoint'[i] = endpoint[i]
        /\ endpoint'[id].stream = k /\ ~endpoint'[id].active
        /\ unmatched' = Kept(unmatched, Ids \ {id})
    BY <2>2, InstallDoes
  <2>4. unmatched \in Seq(Events)
    BY DEF HubTypeOK
  <2>5. unmatched' \in Seq(Events) /\ DOMAIN unmatched' = 1 .. Len(unmatched')
    BY <2>3, <2>4, KeptPicks, LenProperties
  <2>6. \A i \in DOMAIN unmatched' : unmatched'[i].id \in Ids \ {id}
    BY <2>3, <2>4, <2>5, KeptPicks
  <2>7. PICK picks : Picks(picks, unmatched', unmatched, Len(unmatched))
    BY <2>3, <2>4, KeptPicks
  <2>8. DOMAIN unmatched = 1 .. Len(unmatched)
    BY <2>4, LenProperties
  <2>9. \A i \in DOMAIN unmatched' : \E j \in DOMAIN unmatched : unmatched[j] = unmatched'[i]
    BY <2>5, <2>7, <2>8 DEF Picks
  <2>10. \A i \in Ids : i # id => Whole(i) /\ Its(i) /\ Claims(i)
    <3> HIDE DEF Whole, Its, Claims, id
    <3> QED
      BY <1>5, <2>3, <2>9
  <2>11. Whole(id) /\ Claims(id)
    BY <2>2, <2>3, <2>6
  <2>12. k \in DOMAIN shows' /\ shows'[k].id = id
    BY <2>1, <2>2, ShowsStay
  <2>13. work'.pc \in {"notify", "endpoint"} => k # work'.show
    <3>1. CASE Acknowledge
      <4>1. work \in Works /\ work' = [work EXCEPT !.pc = "register"]
        BY <3>1, AtWork DEF Acknowledge, Stages
      <4> QED
        BY <4>1 DEF Works
    <3>2. CASE k \in late /\ LateEndpoint(k)
      <4>1. work' = work
        BY <3>2 DEF LateEndpoint
      <4> QED
        BY <1>2, <3>2, <4>1 DEF Begun
    <3> QED
      BY <2>1, <3>1, <3>2 DEF Installs
  <2>14. Its(id)
    BY <2>3, <2>12, <2>13
  <2> HIDE DEF Whole, Its, Claims
  <2> QED
    BY <2>3, <2>10, <2>11, <2>14
<1>8. ASSUME ForwardSignal PROVE Good
  <2>1. PICK e : e = Head(signals)
    OBVIOUS
  <2>2. e \in Events /\ e.id \in Ids
    BY <1>8, <2>1, SignalTaken DEF ForwardSignal
  <2>3. Unclaimed(e) \/ Staged(e) \/ Forwarded(e)
    BY <1>8, <2>1, ForwardDoes
  <2>4. CASE Unclaimed(e)
    <3>1. endpoint' = endpoint /\ endpoint[e.id].stream = 0 /\ unmatched \in Seq(Events)
      BY <2>4 DEF Unclaimed, HubTypeOK
    <3>2. ASSUME NEW i \in DOMAIN unmatched'
          PROVE  unmatched'[i] = e \/ \E j \in DOMAIN unmatched : unmatched[j] = unmatched'[i]
      <4>1. PICK d \in {0, 1} :
               /\ d <= Len(unmatched)
               /\ DOMAIN unmatched' = 1 .. Len(unmatched) - d + 1
               /\ \A j \in 1 .. Len(unmatched) - d : unmatched'[j] = unmatched[j + d]
               /\ unmatched'[Len(unmatched) - d + 1] = e
        BY <2>4 DEF Unclaimed
      <4>2. Len(unmatched) \in Nat /\ DOMAIN unmatched = 1 .. Len(unmatched)
        BY <3>1, LenProperties
      <4>3. i = Len(unmatched) - d + 1 \/ (i \in 1 .. Len(unmatched) - d /\ i + d \in 1 .. Len(unmatched))
        BY <3>2, <4>1, <4>2
      <4> QED
        BY <4>1, <4>2, <4>3
    <3>3. ASSUME NEW id \in Ids PROVE Whole(id) /\ Claims(id)
      BY <1>1, <3>1, <3>2
    <3>4. ASSUME NEW id \in Ids PROVE Its(id)
      <4> HIDE DEF Its
      <4> QED
        BY <1>3, <3>1
    <3> HIDE DEF Whole, Its, Claims
    <3> QED
      BY <3>3, <3>4
  <2>5. CASE Staged(e)
    <3>1. /\ unmatched' = unmatched
          /\ \A id \in Ids : id # e.id => endpoint'[id] = endpoint[id]
          /\ endpoint'[e.id].stream = endpoint[e.id].stream
          /\ ~endpoint'[e.id].active /\ endpoint[e.id].stream # 0
      BY <2>5 DEF Staged
    <3>2. Whole(e.id) /\ Claims(e.id)
      BY <1>1, <2>2, <3>1
    <3>3. Its(e.id)
      <4> HIDE DEF Its
      <4> QED
        BY <1>3, <2>2, <3>1
    <3> HIDE DEF Whole, Its, Claims
    <3> QED
      BY <1>5, <3>1, <3>2, <3>3
  <2>6. CASE Forwarded(e)
    <3>1. unmatched' = unmatched
      BY <2>6 DEF Forwarded
    <3>2. endpoint' = IF Terminal(e) THEN [endpoint EXCEPT ![e.id] = NoEndpoint] ELSE endpoint
      BY <2>6 DEF Forwarded
    <3>3. \A id \in Ids : endpoint'[id] = endpoint[id] \/ endpoint'[id] = NoEndpoint
      BY <2>2, <3>2 DEF HubTypeOK
    <3> HIDE DEF Whole, Its, Claims
    <3> QED
      BY <1>4, <1>5, <3>1, <3>3
  <2> QED
    BY <2>3, <2>4, <2>5, <2>6
<1>9. ASSUME NEW k \in Shows, ReceiveActivate(k) PROVE Good
  <2> DEFINE id == shows[k].id
  <2>1. k \in DOMAIN shows /\ id # 0 /\ id \in Ids
    BY <1>9, Numbered DEF ReceiveActivate, Begun
  <2>2. unmatched' = unmatched
    BY <1>9 DEF ReceiveActivate
  <2>3. endpoint' = endpoint \/ Released(k)
    BY <1>9, <2>1, ActivateDoes
  <2>4. CASE endpoint' = endpoint
    <3> HIDE DEF Whole, Its, Claims
    <3> QED
      BY <1>5, <2>2, <2>4
  <2>5. CASE Released(k)
    <3> DEFINE new == [stream |-> k, active |-> TRUE, staged |-> <<>>]
    <3>1. /\ endpoint[id].stream = k
          /\ \/ endpoint' = [endpoint EXCEPT ![id] = NoEndpoint]
             \/ endpoint' = [endpoint EXCEPT ![id] = new]
      BY <2>5 DEF Released
    <3>2. new.stream = k /\ new.staged = <<>>
      OBVIOUS
    <3> HIDE DEF new
    <3>3. /\ \A i \in Ids : i # id => endpoint'[i] = endpoint[i]
          /\ endpoint'[id] = NoEndpoint \/ endpoint'[id] = new
      BY <2>1, <3>1 DEF HubTypeOK
    <3>4. ASSUME endpoint'[id] = new PROVE Whole(id) /\ Its(id) /\ Claims(id)
      <4>1. k # 0 /\ endpoint'[id].stream = endpoint[id].stream /\ endpoint'[id].staged = <<>>
        BY <2>1, <3>1, <3>2, <3>4, Numbered
      <4>2. Whole(id) /\ Claims(id)
        BY <1>1, <2>1, <2>2, <3>1, <4>1
      <4>3. Its(id)
        <5> HIDE DEF Its
        <5> QED
          BY <1>3, <2>1, <4>1
      <4> QED
        BY <4>2, <4>3
    <3> HIDE DEF Whole, Its, Claims
    <3> QED
      BY <1>4, <1>5, <2>1, <2>2, <3>3, <3>4
  <2> QED
    BY <2>3, <2>4, <2>5
<1>10. ASSUME NEW k \in Shows, ForgetStream(k) PROVE Good
  <2>1. endpoint' = [endpoint EXCEPT ![shows[k].id] = NoEndpoint] /\ unmatched' = unmatched
    BY <1>10 DEF ForgetStream
  <2>2. \A id \in Ids : endpoint'[id] = endpoint[id] \/ endpoint'[id] = NoEndpoint
    BY <2>1 DEF HubTypeOK
  <2> HIDE DEF Whole, Its, Claims
  <2> QED
    BY <1>4, <1>5, <2>1, <2>2
<1>11. ASSUME PresenterRestarts PROVE Good
  <2> HIDE DEF Whole, Its, Claims
  <2> QED
    BY <1>4, <1>11, RestartDoes
<1>12. Good => Endpoints'
  BY DEF Endpoints
<1> HIDE DEF Good
<1> QED
  BY <1>6, <1>7, <1>8, <1>9, <1>10, <1>11, <1>12, EndSteps

\* What a failed presentation, a restart or a full buffer touched stays touched.
LEMMA SpoiledStays ==
    ASSUME HubTypeOK, Gate, [HubNext]_hubVars
    PROVE  spoiled \subseteq spoiled'
<1>1. CASE UNCHANGED hubVars
  BY <1>1 DEF hubVars
<1>2. CASE \E s \in ModuleSessions : SessionEnds(s)
  BY <1>2 DEF SessionEnds
<1>3. CASE PresentFails \/ PresentTimesOut \/ ActivateFails
  BY <1>3 DEF PresentFails, PresentTimesOut, ActivateFails, Abandon
<1>4. CASE Activate \/ Settle \/ Notify \/ Acknowledge
  BY <1>4 DEF Activate, Settle, Notify, Acknowledge
<1>5. CASE Register
  BY <1>5, RegisterDoes DEF Registered, Refused
<1>6. CASE ForwardSignal
  <2>1. PICK e : e = Head(signals)
    OBVIOUS
  <2> QED
    BY <1>6, <2>1, ForwardDoes
<1>7. CASE PresenterRestarts
  BY <1>7, RestartDoes DEF HubTypeOK
<1>8. CASE \E k \in Shows : Route(k) \/ Release(k) \/ ReaderEnds(k)
  BY <1>8 DEF Route, Release, ReaderEnds
<1>9. CASE \E k \in Shows : LateEndpoint(k) \/ ReceiveActivate(k) \/ ForgetStream(k)
  BY <1>9 DEF LateEndpoint, ReceiveActivate, ForgetStream
<1>10. CASE \E id \in Ids : Act(id) \/ Close(id)
  BY <1>10 DEF Act, Close, Raise
<1>11. CASE \E s \in Owners, replace \in Ids \cup {0} : BeginPresent(s, replace)
  BY <1>11 DEF BeginPresent
<1> QED
  BY <1>1, <1>2, <1>3, <1>4, <1>5, <1>6, <1>7, <1>8, <1>9, <1>10, <1>11, HubSteps

\* Only an activation asks the presenter to release what it staged.
LEMMA ActivateSteps ==
    ASSUME HubTypeOK, Gate, Begun, [HubNext]_hubVars, NEW k \in Shows, stream'[k].activate
    PROVE  stream[k].activate \/ (Activate /\ k = work.show)
<1>1. CASE UNCHANGED stream
  BY <1>1
<1>2. ASSUME NEW s \in Owners, NEW r \in Ids \cup {0}, BeginPresent(s, r)
      PROVE  stream[k].activate
  <2>1. PICK n : n = Len(shows) + 1
    OBVIOUS
  <2>2. stream'[n] = NewStream /\ \A j \in Shows : j # n => stream'[j] = stream[j]
    BY <1>2, <2>1, BeginStreams
  <2> QED
    BY <2>2 DEF NewStream
<1>3. CASE PresentFails \/ PresentTimesOut
  <2>1. work # NoWork /\ Abandon
    BY <1>3, AtWork DEF PresentFails, PresentTimesOut, Stages
  <2> QED
    BY <1>3, <2>1, AbandonDoes DEF ShutOnly
<1>4. CASE Register
  <2>1. Registered \/ Refused
    BY <1>4, RegisterDoes
  <2> QED
    BY <1>4, <2>1 DEF Registered, Refused, ShutOnly
<1>5. CASE Activate
  BY <1>5, ActivatesDoes
<1>6. CASE ActivateFails
  BY <1>6, ActivateFailsDoes DEF ShutOnly
<1>7. ASSUME NEW j \in Shows, Route(j) PROVE stream[k].activate
  <2>1. PICK e : e = Head(stream[j].frames)
    OBVIOUS
  <2>2. /\ j # k => stream'[k] = stream[k]
        /\ stream'[j].activate = stream[j].activate
    BY <1>7, <2>1, RouteDoes
  <2> QED
    BY <2>2
<1>8. ASSUME NEW j \in Shows, Release(j) PROVE stream[k].activate
  <2>1. stream' = Shut(stream, {j})
    BY <1>8 DEF Release
  <2> QED
    BY <2>1, ShutIsOnly DEF ShutOnly
<1>9. ASSUME Acknowledge \/ \E j \in Shows : LateEndpoint(j) PROVE stream[k].activate
  <2>1. PICK j \in DOMAIN shows : Installs(j)
    BY <1>9, InstallsDoes
  <2>2. InstallEndpoint(j)
    BY <2>1 DEF Installs
  <2> QED
    BY <2>2, InstallShuts DEF ShutOnly
<1>10. CASE ForwardSignal
  <2>1. PICK e : e = Head(signals)
    OBVIOUS
  <2>2. Unclaimed(e) \/ Staged(e) \/ Forwarded(e)
    BY <1>10, <2>1, ForwardDoes
  <2>3. CASE Unclaimed(e) \/ Staged(e)
    BY <2>3 DEF Unclaimed, Staged
  <2>4. CASE Forwarded(e)
    BY <2>4 DEF Forwarded
  <2> QED
    BY <2>2, <2>3, <2>4
<1>11. ASSUME NEW j \in Shows, ReceiveActivate(j) PROVE stream[k].activate
  <2>1. j \in DOMAIN shows /\ shows[j].id # 0
    BY <1>11 DEF ReceiveActivate, Begun
  <2>2. /\ j # k => stream'[k].activate = stream[k].activate
        /\ ~stream'[j].activate
    BY <1>11, <2>1, ActivateDoes
  <2> QED
    BY <2>2
<1>12. CASE PresenterRestarts
  BY <1>12, RestartDoes
<1>13. CASE UNCHANGED hubVars
  BY <1>13 DEF hubVars
<1>14. CASE \E s \in ModuleSessions : SessionEnds(s)
  BY <1>1, <1>14 DEF SessionEnds
<1>15. CASE Settle \/ Notify
  BY <1>1, <1>15 DEF Settle, Notify
<1>16. CASE \E j \in Shows : ReaderEnds(j) \/ ForgetStream(j)
  BY <1>1, <1>16 DEF ReaderEnds, ForgetStream
<1>17. CASE \E id \in Ids : Act(id) \/ Close(id)
  BY <1>1, <1>17 DEF Act, Close, Raise
<1> QED
  BY <1>2, <1>3, <1>4, <1>5, <1>6, <1>7, <1>8, <1>9, <1>10, <1>11, <1>12, <1>13, <1>14, <1>15,
     <1>16, <1>17, HubSteps

\* Only a presentation that is given up is left to the presenter.
LEMMA LateSteps ==
    ASSUME HubTypeOK, Gate, [HubNext]_hubVars, NEW k \in late'
    PROVE  \/ k \in late
           \/ /\ PresentTimesOut /\ k = work.show /\ k \in DOMAIN shows
              /\ Show.id # 0 /\ Show.id \in spoiled' /\ work' = NoWork
<1>1. CASE UNCHANGED hubVars
  BY <1>1 DEF hubVars
<1>2. CASE \E s \in ModuleSessions : SessionEnds(s)
  BY <1>2 DEF SessionEnds
<1>3. CASE PresentFails \/ Register \/ Activate \/ ActivateFails \/ Settle
  BY <1>3 DEF PresentFails, Register, Activate, ActivateFails, Settle
<1>4. CASE PresentTimesOut
  <2>1. late' = late \cup {work.show} /\ Abandon
    BY <1>4 DEF PresentTimesOut
  <2>2. work.show \in DOMAIN shows /\ Show.id # 0
    BY <1>4, AtWork DEF PresentTimesOut, Stages
  <2> QED
    BY <1>4, <2>1, <2>2 DEF Abandon
<1>5. CASE Notify \/ Acknowledge \/ ForwardSignal
  BY <1>5 DEF Notify, Acknowledge, ForwardSignal
<1>6. CASE PresenterRestarts
  BY <1>6 DEF PresenterRestarts
<1>7. CASE \E j \in Shows : Route(j) \/ Release(j) \/ ReaderEnds(j)
  BY <1>7 DEF Route, Release, ReaderEnds
<1>8. CASE \E j \in Shows : LateEndpoint(j) \/ ReceiveActivate(j) \/ ForgetStream(j)
  BY <1>8 DEF LateEndpoint, ReceiveActivate, ForgetStream
<1>9. CASE \E id \in Ids : Act(id) \/ Close(id)
  BY <1>9 DEF Act, Close, Raise
<1>10. CASE \E s \in Owners, replace \in Ids \cup {0} : BeginPresent(s, replace)
  BY <1>10 DEF BeginPresent
<1> QED
  BY <1>1, <1>2, <1>3, <1>4, <1>5, <1>6, <1>7, <1>8, <1>9, <1>10, HubSteps

\* A stream waits for its activation only while its presentation is registered.
LEMMA PendingSteps ==
    ASSUME HubTypeOK, Gate, Begun, [HubNext]_hubVars, NEW id \in Ids, pending'[id] # 0
    PROVE  \/ pending'[id] = pending[id] /\ work' = work /\ shows' = shows
           \/ /\ Register /\ pending'[id] = work.show /\ id = Show.id
              /\ work'.pc = "activate" /\ work'.show = work.show /\ shows' = shows
<1>1. pending[id] # 0 => work.pc = "activate" /\ id = Show.id
  BY DEF Begun
<1>2. NoWork.pc = "free"
  BY DEF NoWork
<1>3. CASE UNCHANGED hubVars
  BY <1>3 DEF hubVars
<1>4. CASE \E s \in ModuleSessions : SessionEnds(s)
  BY <1>4 DEF SessionEnds
<1>5. CASE PresentFails \/ PresentTimesOut \/ Settle \/ Notify \/ Acknowledge
  BY <1>1, <1>5 DEF PresentFails, PresentTimesOut, Settle, Notify, Acknowledge, Presenting
<1>6. CASE Register
  <2>1. work.pc = "register" /\ Show.id \in Ids /\ shows' = shows
    BY <1>6, RegisterDoes DEF Register
  <2>2. CASE Refused
    <3>1. pending' = [pending EXCEPT ![Show.id] = 0]
      BY <2>2 DEF Refused
    <3> QED
      BY <1>1, <2>1, <3>1 DEF HubTypeOK
  <2>3. CASE Registered
    <3>1. /\ pending' = [pending EXCEPT ![Show.id] = work.show]
          /\ work'.pc = "activate" /\ work'.show = work.show
      BY <2>3 DEF Registered
    <3> QED
      BY <1>1, <1>6, <2>1, <3>1 DEF HubTypeOK
  <2> QED
    BY <1>6, <2>2, <2>3, RegisterDoes
<1>7. CASE Activate \/ ActivateFails
  <2>1. pending' = [pending EXCEPT ![Show.id] = 0]
    BY <1>7 DEF Activate, ActivateFails
  <2> QED
    BY <1>1, <2>1 DEF HubTypeOK
<1>8. CASE ForwardSignal
  BY <1>8 DEF ForwardSignal
<1>9. CASE PresenterRestarts
  BY <1>1, <1>9 DEF PresenterRestarts
<1>10. CASE \E j \in Shows : Route(j) \/ Release(j) \/ ReaderEnds(j)
  BY <1>10 DEF Route, Release, ReaderEnds
<1>11. CASE \E j \in Shows : LateEndpoint(j) \/ ReceiveActivate(j) \/ ForgetStream(j)
  BY <1>11 DEF LateEndpoint, ReceiveActivate, ForgetStream
<1>12. CASE \E i \in Ids : Act(i) \/ Close(i)
  BY <1>12 DEF Act, Close, Raise
<1>13. CASE \E s \in Owners, replace \in Ids \cup {0} : BeginPresent(s, replace)
  BY <1>1, <1>2, <1>13 DEF BeginPresent
<1> QED
  BY <1>3, <1>4, <1>5, <1>6, <1>7, <1>8, <1>9, <1>10, <1>11, <1>12, <1>13, HubSteps

\* What is given up, activated, read or pending is of a named presentation.
LEMMA BegunStep ==
    ASSUME HubTypeOK, Gate, Begun, [HubNext]_hubVars
    PROVE  Begun'
<1>1. /\ DOMAIN shows \subseteq DOMAIN shows'
      /\ \A k \in DOMAIN shows : shows[k].id # 0 => shows'[k].id = shows[k].id
  BY ShowsStay
<1>2. ASSUME NEW k \in late'
      PROVE  /\ k \in DOMAIN shows'
             /\ shows'[k].id # 0 /\ shows'[k].id \in spoiled'
             /\ work' # NoWork => k # work'.show
  <2>1. CASE k \in late
    <3>1. /\ k \in DOMAIN shows /\ shows[k].id # 0 /\ shows[k].id \in spoiled
          /\ work # NoWork => k # work.show
      BY <2>1 DEF Begun
    <3>2. work' # NoWork => k # work'.show
      BY <3>1, WorkMoves
    <3> QED
      BY <1>1, <3>1, <3>2, SpoiledStays
  <2>2. CASE /\ PresentTimesOut /\ k = work.show /\ k \in DOMAIN shows
             /\ Show.id # 0 /\ Show.id \in spoiled' /\ work' = NoWork
    BY <1>1, <2>2 DEF Show
  <2> QED
    BY <2>1, <2>2, LateSteps
<1>3. ASSUME NEW k \in Shows, stream'[k].activate \/ reader'[k] # "none"
      PROVE  k \in DOMAIN shows' /\ shows'[k].id # 0
  <2>1. stream[k].activate \/ reader[k] # "none" \/ (Activate /\ k = work.show)
    BY <1>3, ActivateSteps, ReaderSteps
  <2>2. ASSUME Activate PROVE work.show \in DOMAIN shows /\ shows[work.show].id # 0
    BY <2>2, AtWork DEF Activate, Stages, Show
  <2>3. k \in DOMAIN shows /\ shows[k].id # 0
    BY <2>1, <2>2 DEF Begun
  <2> QED
    BY <1>1, <2>3
<1>4. ASSUME NEW id \in Ids, pending'[id] # 0
      PROVE  work'.pc = "activate" /\ pending'[id] = work'.show /\ id = Show'.id
  <2>1. CASE pending'[id] = pending[id] /\ work' = work /\ shows' = shows
    BY <1>4, <2>1 DEF Begun, Show
  <2>2. CASE /\ Register /\ pending'[id] = work.show /\ id = Show.id
             /\ work'.pc = "activate" /\ work'.show = work.show /\ shows' = shows
    BY <2>2 DEF Show
  <2> QED
    BY <1>4, <2>1, <2>2, PendingSteps
<1> QED
  BY <1>2, <1>3, <1>4 DEF Begun

-----------------------------------------------------------------------------
(* The events under way *)

\* The places by their names.
Queued == <<"signals", 0>>
Unclaim == <<"unmatched", 0>>
Staging(id) == <<"staged", id>>
Frames(k) == <<"frames", k>>

\* There are four kinds of places.
LEMMA PlaceKinds ==
    ASSUME NEW p \in Places
    PROVE  \/ p = Queued \/ p = Unclaim
           \/ \E id \in Ids : p = Staging(id)
           \/ \E k \in Shows : p = Frames(k)
BY DEF Places, Queued, Unclaim, Staging, Frames

\* Their ranks, and that they differ.
LEMMA PlaceFacts ==
    /\ Queued \in Places /\ Rank(Queued) = 4
    /\ Unclaim \in Places /\ Rank(Unclaim) = 3
    /\ \A id \in Ids : Staging(id) \in Places /\ Rank(Staging(id)) = 2
    /\ \A k \in Shows : Frames(k) \in Places /\ Rank(Frames(k)) = 1
    /\ \A i, j : Staging(i) = Staging(j) => i = j
    /\ \A i, j : Frames(i) = Frames(j) => i = j
<1>1. /\ Queued \in Places /\ Unclaim \in Places
      /\ \A id \in Ids : Staging(id) \in Places
      /\ \A k \in Shows : Frames(k) \in Places
  BY DEF Places, Queued, Unclaim, Staging, Frames
<1>2. Rank(Queued) = 4 /\ Rank(Unclaim) = 3
  BY DEF Rank, Queued, Unclaim
<1>3. ASSUME NEW i PROVE Rank(Staging(i)) = 2 /\ Rank(Frames(i)) = 1
  BY DEF Rank, Staging, Frames
<1>4. /\ \A i, j : Staging(i) = Staging(j) => i = j
      /\ \A i, j : Frames(i) = Frames(j) => i = j
  BY DEF Staging, Frames
<1> QED
  BY <1>1, <1>2, <1>3, <1>4

\* What each place holds.
LEMMA BufferIs ==
    /\ Buffer[Queued] = signals /\ Buffer[Unclaim] = unmatched
    /\ \A id \in Ids : Buffer[Staging(id)] = endpoint[id].staged
    /\ \A k \in Shows : Buffer[Frames(k)] = stream[k].frames
<1>1. Buffer[Queued] = signals /\ Buffer[Unclaim] = unmatched
  BY PlaceFacts DEF Buffer, Queued, Unclaim
<1>2. ASSUME NEW id \in Ids PROVE Buffer[Staging(id)] = endpoint[id].staged
  BY PlaceFacts DEF Buffer, Staging
<1>3. ASSUME NEW k \in Shows PROVE Buffer[Frames(k)] = stream[k].frames
  BY PlaceFacts DEF Buffer, Frames
<1> QED
  BY <1>1, <1>2, <1>3

\* What each place holds after a step.
LEMMA BufferIsNext ==
    /\ Buffer'[Queued] = signals' /\ Buffer'[Unclaim] = unmatched'
    /\ \A id \in Ids : Buffer'[Staging(id)] = endpoint'[id].staged
    /\ \A k \in Shows : Buffer'[Frames(k)] = stream'[k].frames
<1>1. Buffer'[Queued] = signals' /\ Buffer'[Unclaim] = unmatched'
  BY PlaceFacts DEF Buffer, Queued, Unclaim
<1>2. ASSUME NEW id \in Ids PROVE Buffer'[Staging(id)] = endpoint'[id].staged
  BY PlaceFacts DEF Buffer, Staging
<1>3. ASSUME NEW k \in Shows PROVE Buffer'[Frames(k)] = stream'[k].frames
  BY PlaceFacts DEF Buffer, Frames
<1> QED
  BY <1>1, <1>2, <1>3

\* A place holds a sequence of events.
LEMMA SeqOfEvents ==
    ASSUME NEW s \in Seq(Events)
    PROVE  /\ DOMAIN s = 1 .. Len(s) /\ Len(s) \in Nat
           /\ \A n \in DOMAIN s : n \in Nat /\ n # 0 /\ s[n] \in Events
BY LenProperties, ElementOfSeq

\* Every place holds events.
LEMMA BufferTyped ==
    ASSUME HubTypeOK, NEW p \in Places
    PROVE  Buffer[p] \in Seq(Events)
<1>1. signals \in Seq(Events) /\ unmatched \in Seq(Events)
  BY DEF HubTypeOK
<1>2. ASSUME NEW id \in Ids PROVE endpoint[id].staged \in Seq(Events)
  BY DEF HubTypeOK, Ends
<1>3. ASSUME NEW k \in Shows PROVE stream[k].frames \in Seq(Events)
  BY DEF HubTypeOK, Streams
<1> QED
  BY <1>1, <1>2, <1>3, PlaceKinds, BufferIs

\* And does so after a step.
LEMMA BufferTypedNext ==
    ASSUME HubTypeOK', NEW p \in Places
    PROVE  Buffer'[p] \in Seq(Events)
<1>1. signals' \in Seq(Events) /\ unmatched' \in Seq(Events)
  BY DEF HubTypeOK
<1>2. ASSUME NEW id \in Ids PROVE endpoint'[id].staged \in Seq(Events)
  BY DEF HubTypeOK, Ends
<1>3. ASSUME NEW k \in Shows PROVE stream'[k].frames \in Seq(Events)
  BY DEF HubTypeOK, Streams
<1> QED
  BY <1>1, <1>2, <1>3, PlaceKinds, BufferIsNext

\* What is where after a step was somewhere before it, all of it apart, and of
\* one presentation in the same order.
Carried(from, nth) ==
    /\ \A p \in Places : \A n \in DOMAIN Buffer'[p] :
          /\ from[p][n] \in Places /\ nth[p][n] \in DOMAIN Buffer[from[p][n]]
          /\ Buffer[from[p][n]][nth[p][n]] = Buffer'[p][n]
          /\ from[p][n] # p => Belongs(p, Buffer'[p][n])
    /\ \A p, q \in Places : \A m \in DOMAIN Buffer'[p], n \in DOMAIN Buffer'[q] :
          /\ from[p][m] = from[q][n] /\ nth[p][m] = nth[q][n] => p = q /\ m = n
          /\ Buffer'[p][m].of = Buffer'[q][n].of /\ Ahead(p, m, q, n)
                => Ahead(from[p][m], nth[p][m], from[q][n], nth[q][n])
BuffersCarried == \E from, nth : Carried(from, nth)

\* What was raised stays raised.
LEMMA RaisedStays ==
    ASSUME HubTypeOK, Latest, [HubNext]_hubVars, NEW k \in Shows, NEW kind, IsRaised(k, kind)
    PROVE  IsRaised(k, kind)'
<1>1. CASE raised' = raised
  BY <1>1 DEF IsRaised
<1>2. ASSUME NEW id \in Ids, Act(id) \/ Close(id) PROVE IsRaised(k, kind)'
  <2>1. PICK j \in DOMAIN shows, new \in Kinds : Raise(j, new) /\ j \in Shows
    BY <1>2, ActDoes
  <2>2. raised' = [raised EXCEPT ![j] = Append(raised[j], new)]
    BY <2>1 DEF Raise
  <2>3. /\ \A i \in Shows : i # j => raised'[i] = raised[i]
        /\ raised'[j] = Append(raised[j], new) /\ raised[j] \in Seq(Kinds)
    BY <2>1, <2>2 DEF HubTypeOK
  <2>4. /\ DOMAIN raised'[j] = 1 .. Len(raised[j]) + 1 /\ Len(raised[j]) \in Nat
        /\ DOMAIN raised[j] = 1 .. Len(raised[j])
        /\ \A i \in 1 .. Len(raised[j]) : raised'[j][i] = raised[j][i]
    BY <2>3, AppendProperties, LenProperties
  <2> QED
    BY <2>3, <2>4 DEF IsRaised
<1>4. CASE \E s \in Owners, replace \in Ids \cup {0} : BeginPresent(s, replace)
  BY <1>1, <1>4 DEF BeginPresent
<1>5. CASE Notify \/ Settle
  BY <1>1, <1>5 DEF Notify, Settle
<1> QED
  BY <1>1, <1>2, <1>4, <1>5, ShowSteps

\* Events that are carried stay where they belong, apart and in order.
LEMMA CarriedKeeps ==
    ASSUME HubTypeOK, Gate, Latest, Underway, Once, InOrder, [HubNext]_hubVars, HubTypeOK',
           BuffersCarried,
           \A e \in Events, p \in Places : \A n \in DOMAIN Buffer'[p] :
              Buffer'[p][n] = e => ~IsTold(e.of, e.kind)'
    PROVE  Underway' /\ Once' /\ InOrder'
<1>1. PICK from, nth : Carried(from, nth)
  BY DEF BuffersCarried
<1>2. ASSUME NEW p \in Places, NEW n \in DOMAIN Buffer'[p]
      PROVE  /\ from[p][n] \in Places /\ nth[p][n] \in DOMAIN Buffer[from[p][n]]
             /\ Buffer[from[p][n]][nth[p][n]] = Buffer'[p][n]
             /\ from[p][n] # p => Belongs(p, Buffer'[p][n])
  BY <1>1 DEF Carried
<1>3. ASSUME NEW p \in Places, NEW n \in DOMAIN Buffer'[p], NEW e, e = Buffer'[p][n]
      PROVE  /\ e.of \in DOMAIN shows'
             /\ e.id = shows'[e.of].id
             /\ IsRaised(e.of, e.kind)'
             /\ Belongs(p, e)'
  <2>1. e \in Events
    BY <1>3, BufferTypedNext, SeqOfEvents
  <2>2. e.id \in Ids /\ e.id # 0
    BY <2>1, HubAssumption DEF Events
  <2>3. /\ e.of \in DOMAIN shows /\ e.id = shows[e.of].id /\ IsRaised(e.of, e.kind)
        /\ Belongs(from[p][n], e)
    BY <1>2, <1>3 DEF Underway
  <2>4. Belongs(p, e)
    BY <1>2, <1>3, <2>3
  <2>5. e.of \in Shows
    BY <2>3, Numbered
  <2>6. IsRaised(e.of, e.kind)'
    BY <2>3, <2>5, RaisedStays
  <2>7. e.of \in DOMAIN shows' /\ e.id = shows'[e.of].id
    BY <2>2, <2>3, ShowsStay
  <2>8. \A k \in DOMAIN shows : shows[k].id = e.id => k \in DOMAIN shows' /\ shows'[k].id = e.id
    BY <2>2, ShowsStay
  <2>9. Belongs(p, e)'
    BY <2>4, <2>8 DEF Belongs
  <2> QED
    BY <2>6, <2>7, <2>9
<1>4. Underway'
  <2>1. ASSUME NEW p \in Places, NEW n \in DOMAIN Buffer'[p], NEW e, e = Buffer'[p][n]
        PROVE  /\ e.of \in DOMAIN shows'
               /\ e.id = shows'[e.of].id
               /\ \E i \in DOMAIN raised'[e.of] : raised'[e.of][i] = e.kind
               /\ ~ \E i \in DOMAIN delivered'[e.of] : delivered'[e.of][i][2] = e.kind
               /\ p[1] = "staged" => p[2] = e.id
               /\ p[1] = "frames" => p[2] \in DOMAIN shows' /\ shows'[p[2]].id = e.id
    <3>1. e \in Events
      BY <2>1, BufferTypedNext, SeqOfEvents
    <3>2. ~IsTold(e.of, e.kind)'
      BY <2>1, <3>1
    <3>3. IsRaised(e.of, e.kind)' /\ Belongs(p, e)' /\ e.of \in DOMAIN shows' /\ e.id = shows'[e.of].id
      BY <1>3, <2>1
    <3> QED
      BY <3>2, <3>3 DEF IsRaised, IsTold, Belongs
  <2> SUFFICES ASSUME NEW p \in Places, NEW n \in DOMAIN Buffer'[p]
               PROVE  LET e == Buffer'[p][n]
                      IN  /\ e.of \in DOMAIN shows'
                          /\ e.id = shows'[e.of].id
                          /\ \E i \in DOMAIN raised'[e.of] : raised'[e.of][i] = e.kind
                          /\ ~ \E i \in DOMAIN delivered'[e.of] : delivered'[e.of][i][2] = e.kind
                          /\ p[1] = "staged" => p[2] = e.id
                          /\ p[1] = "frames" => p[2] \in DOMAIN shows' /\ shows'[p[2]].id = e.id
    BY Zenon DEF Underway, IsRaised, IsTold, Belongs
  <2> QED
    BY <2>1
<1>5. ASSUME NEW p \in Places, NEW q \in Places, NEW m \in DOMAIN Buffer'[p], NEW n \in DOMAIN Buffer'[q]
      PROVE  /\ from[p][m] = from[q][n] /\ nth[p][m] = nth[q][n] => p = q /\ m = n
             /\ Buffer'[p][m].of = Buffer'[q][n].of /\ Ahead(p, m, q, n)
                   => Ahead(from[p][m], nth[p][m], from[q][n], nth[q][n])
  BY <1>1 DEF Carried
<1>6. Once'
  <2> SUFFICES ASSUME NEW p \in Places, NEW q \in Places,
                      NEW m \in DOMAIN Buffer'[p], NEW n \in DOMAIN Buffer'[q],
                      Buffer'[p][m] = Buffer'[q][n]
               PROVE  p = q /\ m = n
    BY DEF Once
  <2> QED
    BY <1>2, <1>5 DEF Once
<1>7. InOrder'
  <2> SUFFICES ASSUME NEW p \in Places, NEW q \in Places,
                      NEW m \in DOMAIN Buffer'[p], NEW n \in DOMAIN Buffer'[q],
                      Buffer'[p][m].of = Buffer'[q][n].of, Buffer'[p][m].kind = "closed",
                      Buffer'[q][n].kind = "action"
               PROVE  ~Ahead(p, m, q, n)
    BY DEF InOrder
  <2> DEFINE P == from[p][m]  M == nth[p][m]  Q == from[q][n]  N == nth[q][n]
  <2>1. /\ P \in Places /\ M \in DOMAIN Buffer[P] /\ Buffer[P][M] = Buffer'[p][m]
        /\ Q \in Places /\ N \in DOMAIN Buffer[Q] /\ Buffer[Q][N] = Buffer'[q][n]
    BY <1>2
  <2>2. Ahead(p, m, q, n) => Ahead(P, M, Q, N)
    BY <1>5
  <2> HIDE DEF P, M, Q, N
  <2>3. ~Ahead(P, M, Q, N)
    BY <2>1 DEF InOrder
  <2> QED
    BY <2>2, <2>3
<1> QED
  BY <1>4, <1>6, <1>7

\* Every place loses some of its first events, or all; at most the first signal
\* is added to one of them, as its last, if nothing of its presentation is
\* between the two.
Shifted(d, t, e) ==
    \A p \in Places : \A n \in DOMAIN Buffer'[p] :
       \/ n + d[p] \in DOMAIN Buffer[p] /\ Buffer'[p][n] = Buffer[p][n + d[p]]
       \/ /\ p = t /\ Buffer'[p][n] = e
          /\ \A m \in DOMAIN Buffer'[p] : m <= n
          /\ 1 \in DOMAIN Buffer[Queued] /\ Buffer[Queued][1] = e /\ d[Queued] = 1
          /\ t # Queued /\ Rank(t) < 4 /\ Belongs(t, e)
          /\ \A q \in Places : \A m \in DOMAIN Buffer'[q] :
                q # Queued /\ Rank(t) < Rank(q) => Buffer'[q][m].of # e.of

\* Such a shift carries the events.
LEMMA ShiftedIsCarried ==
    ASSUME HubTypeOK, HubTypeOK', NEW d \in [Places -> Nat], NEW t \in Places, NEW e,
           Shifted(d, t, e)
    PROVE  BuffersCarried
<1> DEFINE Stays(p, n) == n + d[p] \in DOMAIN Buffer[p] /\ Buffer'[p][n] = Buffer[p][n + d[p]]
           Moves(p, n) ==
              /\ p = t /\ Buffer'[p][n] = e
              /\ \A m \in DOMAIN Buffer'[p] : m <= n
              /\ 1 \in DOMAIN Buffer[Queued] /\ Buffer[Queued][1] = e /\ d[Queued] = 1
              /\ t # Queued /\ Rank(t) < 4 /\ Belongs(t, e)
              /\ \A q \in Places : \A m \in DOMAIN Buffer'[q] :
                    q # Queued /\ Rank(t) < Rank(q) => Buffer'[q][m].of # e.of
           from == [p \in Places |-> [n \in Nat |-> IF Stays(p, n) THEN p ELSE Queued]]
           nth == [p \in Places |-> [n \in Nat |-> IF Stays(p, n) THEN n + d[p] ELSE 1]]
<1>1. ASSUME NEW p \in Places, NEW n \in DOMAIN Buffer'[p]
      PROVE  n \in Nat /\ n # 0 /\ d[p] \in Nat /\ (Stays(p, n) \/ (~Stays(p, n) /\ Moves(p, n)))
  <2>1. n \in Nat /\ n # 0
    BY BufferTypedNext, SeqOfEvents
  <2> QED
    BY <2>1 DEF Shifted
<1>2. \A p \in Places : Rank(p) \in Nat
  BY DEF Rank
<1>3. Rank(Queued) = 4 /\ Queued \in Places
  BY PlaceFacts
<1>4. ASSUME NEW p \in Places, NEW n \in Nat
      PROVE  /\ Stays(p, n) => from[p][n] = p /\ nth[p][n] = n + d[p]
             /\ ~Stays(p, n) => from[p][n] = Queued /\ nth[p][n] = 1
  OBVIOUS
<1> HIDE DEF from, nth
<1>5. ASSUME NEW p \in Places, NEW n \in DOMAIN Buffer'[p]
      PROVE  /\ from[p][n] \in Places /\ nth[p][n] \in DOMAIN Buffer[from[p][n]]
             /\ Buffer[from[p][n]][nth[p][n]] = Buffer'[p][n]
             /\ from[p][n] # p => Belongs(p, Buffer'[p][n])
  <2>1. CASE Stays(p, n)
    BY <1>1, <1>4, <2>1
  <2>2. CASE ~Stays(p, n) /\ Moves(p, n)
    BY <1>1, <1>3, <1>4, <2>2
  <2> QED
    BY <1>1, <2>1, <2>2
<1>6. ASSUME NEW p \in Places, NEW q \in Places, NEW m \in DOMAIN Buffer'[p], NEW n \in DOMAIN Buffer'[q]
      PROVE  /\ from[p][m] = from[q][n] /\ nth[p][m] = nth[q][n] => p = q /\ m = n
             /\ Buffer'[p][m].of = Buffer'[q][n].of /\ Ahead(p, m, q, n)
                   => Ahead(from[p][m], nth[p][m], from[q][n], nth[q][n])
  <2>1. /\ m \in Nat /\ m # 0 /\ n \in Nat /\ n # 0 /\ d[p] \in Nat /\ d[q] \in Nat
        /\ Rank(p) \in Nat /\ Rank(q) \in Nat
    BY <1>1, <1>2
  <2>2. CASE Stays(p, m) /\ Stays(q, n)
    <3>1. from[p][m] = p /\ nth[p][m] = m + d[p] /\ from[q][n] = q /\ nth[q][n] = n + d[q]
      BY <1>4, <2>1, <2>2
    <3> QED
      BY <2>1, <3>1 DEF Ahead
  <2>3. CASE Stays(p, m) /\ ~Stays(q, n)
    <3>1. from[p][m] = p /\ nth[p][m] = m + d[p] /\ from[q][n] = Queued /\ nth[q][n] = 1
      BY <1>4, <2>1, <2>3
    <3>2. Moves(q, n)
      BY <1>1, <2>3
    <3>3. q = t /\ t # Queued /\ Rank(t) < 4 /\ d[Queued] = 1
      BY <3>2
    <3>4. nth[p][m] = 1 => p # Queued
      BY <2>1, <3>1, <3>3
    <3>5. Ahead(p, m, q, n) => Rank(p) <= Rank(q)
      BY <2>1 DEF Ahead
    <3> QED
      BY <1>3, <2>1, <3>1, <3>3, <3>4, <3>5 DEF Ahead
  <2>4. CASE ~Stays(p, m) /\ Stays(q, n)
    <3>1. from[p][m] = Queued /\ nth[p][m] = 1 /\ from[q][n] = q /\ nth[q][n] = n + d[q]
      BY <1>4, <2>1, <2>4
    <3>2. Moves(p, m)
      BY <1>1, <2>4
    <3>3. /\ p = t /\ t # Queued /\ Rank(t) < 4 /\ d[Queued] = 1 /\ Buffer'[p][m] = e
          /\ p = q => n <= m
          /\ q # Queued /\ Rank(t) < Rank(q) => Buffer'[q][n].of # e.of
      BY <3>2
    <3>4. nth[q][n] = 1 => q # Queued
      BY <2>1, <3>1, <3>3
    <3>5. ASSUME Buffer'[p][m].of = Buffer'[q][n].of, Ahead(p, m, q, n)
          PROVE  q = Queued
      BY <2>1, <3>3, <3>5 DEF Ahead
    <3>6. q = Queued => Ahead(Queued, 1, q, n + d[q])
      BY <2>1, <3>3 DEF Ahead
    <3> QED
      BY <3>1, <3>4, <3>5, <3>6
  <2>5. CASE ~Stays(p, m) /\ ~Stays(q, n)
    <3>1. Moves(p, m) /\ Moves(q, n)
      BY <1>1, <2>5
    <3>2. p = q /\ m <= n /\ n <= m
      BY <3>1
    <3> QED
      BY <2>1, <3>2 DEF Ahead
  <2> QED
    BY <2>2, <2>3, <2>4, <2>5
<1>7. Carried(from, nth)
  BY <1>5, <1>6 DEF Carried
<1> QED
  BY <1>7 DEF BuffersCarried

\* Places that keep what they hold, or are emptied.
LEMMA FewerIsCarried ==
    ASSUME HubTypeOK, HubTypeOK',
           \A p \in Places : \A n \in DOMAIN Buffer'[p] :
              n \in DOMAIN Buffer[p] /\ Buffer'[p][n] = Buffer[p][n]
    PROVE  BuffersCarried
<1> DEFINE d == [p \in Places |-> 0]
<1>1. d \in [Places -> Nat] /\ \A p \in Places : d[p] = 0
  OBVIOUS
<1> HIDE DEF d
<1>2. \A p \in Places : \A n \in DOMAIN Buffer'[p] : n \in Nat
  BY BufferTypedNext, SeqOfEvents
<1>3. \A p \in Places : \A n \in DOMAIN Buffer'[p] :
         n + d[p] \in DOMAIN Buffer[p] /\ Buffer'[p][n] = Buffer[p][n + d[p]]
  BY <1>1, <1>2
<1>4. Shifted(d, Queued, 0) /\ Queued \in Places
  BY <1>3, PlaceFacts DEF Shifted
<1> QED
  BY <1>1, <1>4, ShiftedIsCarried

\* Buffers that nothing was added to.
LEMMA KeptIsCarried ==
    ASSUME HubTypeOK, HubTypeOK',
           signals' \in {signals, <<>>}, unmatched' \in {unmatched, <<>>},
           \A id \in Ids : endpoint'[id].staged \in {endpoint[id].staged, <<>>},
           \A k \in Shows : stream'[k].frames \in {stream[k].frames, <<>>}
    PROVE  BuffersCarried
<1>1. \A p \in Places : Buffer'[p] \in {Buffer[p], <<>>}
  BY BufferIs, BufferIsNext, PlaceKinds
<1>2. DOMAIN <<>> = {}
  BY EmptySeq
<1> QED
  BY <1>1, <1>2, FewerIsCarried

\* Once a frame is routed, its stream holds those that follow it.
LEMMA RouteCarries ==
    ASSUME HubTypeOK, HubTypeOK', Once, NEW k \in Shows, Route(k)
    PROVE  /\ BuffersCarried
           /\ \A p \in Places : \A n \in DOMAIN Buffer'[p] : Buffer'[p][n] # Head(stream[k].frames)
<1> DEFINE d == [p \in Places |-> IF p = Frames(k) THEN 1 ELSE 0]
<1>1. PICK e : e = Head(stream[k].frames)
  OBVIOUS
<1>2. /\ DOMAIN stream[k].frames = 1 .. Len(stream[k].frames) /\ Len(stream[k].frames) \in Nat
      /\ DOMAIN stream'[k].frames = 1 .. Len(stream[k].frames) - 1
      /\ \A i \in 1 .. Len(stream[k].frames) - 1 : stream'[k].frames[i] = stream[k].frames[i + 1]
      /\ \A j \in Shows : j # k => stream'[j] = stream[j]
  BY <1>1, RouteDoes
<1>3. signals' = signals /\ unmatched' = unmatched /\ endpoint' = endpoint
  BY DEF Route
<1>4. /\ d \in [Places -> Nat] /\ Frames(k) \in Places /\ d[Frames(k)] = 1
      /\ \A p \in Places : p # Frames(k) => d[p] = 0
  BY PlaceFacts
<1> HIDE DEF d
<1>5. ASSUME NEW p \in Places, p # Frames(k) PROVE Buffer'[p] = Buffer[p]
  BY <1>2, <1>3, <1>5, PlaceKinds, BufferIs, BufferIsNext
<1>6. \A p \in Places : \A n \in DOMAIN Buffer'[p] : n \in Nat
  BY BufferTypedNext, SeqOfEvents
<1>7. ASSUME NEW p \in Places, NEW n \in DOMAIN Buffer'[p]
      PROVE  n + d[p] \in DOMAIN Buffer[p] /\ Buffer'[p][n] = Buffer[p][n + d[p]]
  <2>1. CASE p # Frames(k)
    BY <1>4, <1>5, <1>6, <1>7, <2>1
  <2>2. CASE p = Frames(k)
    <3>1. Buffer'[p] = stream'[k].frames /\ Buffer[p] = stream[k].frames
      BY <2>2, BufferIs, BufferIsNext
    <3>2. n \in 1 .. Len(stream[k].frames) - 1 /\ n + 1 \in 1 .. Len(stream[k].frames)
      BY <1>2, <1>7, <3>1
    <3> QED
      BY <1>2, <1>4, <2>2, <3>1, <3>2
  <2> QED
    BY <2>1, <2>2
<1>8. Shifted(d, Queued, 0) /\ Queued \in Places
  BY <1>7, PlaceFacts DEF Shifted
<1>9. BuffersCarried
  BY <1>4, <1>8, ShiftedIsCarried
<1>10. ASSUME NEW p \in Places, NEW n \in DOMAIN Buffer'[p] PROVE Buffer'[p][n] # e
  <2>1. 1 \in DOMAIN Buffer[Frames(k)] /\ Buffer[Frames(k)][1] = e
    BY <1>1, RouteDoes, BufferIs
  <2>2. n \in Nat /\ n # 0
    BY BufferTypedNext, SeqOfEvents
  <2>3. ASSUME Buffer'[p][n] = e PROVE p = Frames(k) /\ n + d[p] = 1
    BY <1>4, <1>7, <2>1, <2>3 DEF Once
  <2> QED
    BY <1>4, <2>2, <2>3
<1> QED
  BY <1>1, <1>9, <1>10

\* A signal goes behind those of its notification that were before it.
LEMMA ForwardCarries ==
    ASSUME HubTypeOK, HubTypeOK', Underway, Endpoints, ForwardSignal
    PROVE  BuffersCarried
<1>1. PICK e : e = Head(signals)
  OBVIOUS
<1>2. /\ e \in Events /\ e.id \in Ids /\ e = signals[1]
      /\ Len(signals) \in Nat /\ Len(signals) > 0 /\ DOMAIN signals = 1 .. Len(signals)
      /\ DOMAIN signals' = 1 .. Len(signals) - 1
      /\ \A i \in 1 .. Len(signals) - 1 : signals'[i] = signals[i + 1]
  BY <1>1, SignalTaken DEF ForwardSignal
<1>3. Unclaimed(e) \/ Staged(e) \/ Forwarded(e)
  BY <1>1, ForwardDoes
<1>4. 1 \in DOMAIN Buffer[Queued] /\ Buffer[Queued][1] = e /\ Queued \in Places
  BY <1>2, BufferIs, PlaceFacts
<1>5. \A p \in Places : \A n \in DOMAIN Buffer'[p] : n \in Nat
  BY BufferTypedNext, SeqOfEvents
<1>6. ASSUME NEW n \in DOMAIN Buffer'[Queued]
      PROVE  n + 1 \in DOMAIN Buffer[Queued] /\ Buffer'[Queued][n] = Buffer[Queued][n + 1]
  <2>1. Buffer'[Queued] = signals' /\ Buffer[Queued] = signals
    BY BufferIs, BufferIsNext
  <2>2. n \in 1 .. Len(signals) - 1 /\ n + 1 \in 1 .. Len(signals)
    BY <1>2, <1>6, <2>1
  <2> QED
    BY <1>2, <2>1, <2>2
<1>7. ASSUME NEW p \in Places, NEW n \in DOMAIN Buffer[p], Buffer[p][n].of = e.of
      PROVE  Buffer[p][n].id = e.id /\ Belongs(p, Buffer[p][n])
  <2>1. e.id = shows[e.of].id
    BY <1>4 DEF Underway
  <2> QED
    BY <1>7, <2>1 DEF Underway
<1>8. ASSUME NEW n \in DOMAIN unmatched, endpoint[e.id].stream # 0
      PROVE  unmatched[n].of # e.of
  <2>1. unmatched[n].id # e.id
    BY <1>2, <1>8 DEF Endpoints
  <2> QED
    BY <1>7, <1>8, <2>1, BufferIs, PlaceFacts
<1>9. CASE Unclaimed(e)
  <2>1. PICK r \in {0, 1} :
           /\ r <= Len(unmatched)
           /\ DOMAIN unmatched' = 1 .. Len(unmatched) - r + 1
           /\ \A i \in 1 .. Len(unmatched) - r : unmatched'[i] = unmatched[i + r]
           /\ unmatched'[Len(unmatched) - r + 1] = e
    BY <1>9 DEF Unclaimed
  <2>2. Len(unmatched) \in Nat /\ DOMAIN unmatched = 1 .. Len(unmatched)
    BY LenProperties DEF HubTypeOK
  <2>3. endpoint' = endpoint /\ stream' = stream
    BY <1>9 DEF Unclaimed
  <2> DEFINE d == [p \in Places |-> IF p = Queued THEN 1 ELSE IF p = Unclaim THEN r ELSE 0]
  <2>4. /\ Unclaim \in Places /\ Unclaim # Queued /\ Rank(Unclaim) = 3
        /\ \A q \in Places : q # Queued => ~(3 < Rank(q))
    BY PlaceFacts, PlaceKinds
  <2>5. /\ d \in [Places -> Nat] /\ d[Queued] = 1 /\ d[Unclaim] = r
        /\ \A p \in Places : p \notin {Queued, Unclaim} => d[p] = 0
    BY <1>4, <2>1, <2>4
  <2> HIDE DEF d
  <2>6. Belongs(Unclaim, e)
    BY DEF Belongs, Unclaim
  <2>7. Buffer'[Unclaim] = unmatched' /\ Buffer[Unclaim] = unmatched
    BY BufferIs, BufferIsNext
  <2>8. ASSUME NEW p \in Places, p \notin {Queued, Unclaim} PROVE Buffer'[p] = Buffer[p]
    BY <2>3, <2>8, PlaceKinds, BufferIs, BufferIsNext
  <2>9. ASSUME NEW n \in DOMAIN unmatched'
        PROVE  \/ n + r \in DOMAIN unmatched /\ unmatched'[n] = unmatched[n + r]
               \/ unmatched'[n] = e /\ \A m \in DOMAIN unmatched' : m <= n
    BY <2>1, <2>2
  <2>10. ASSUME NEW p \in Places, NEW n \in DOMAIN Buffer'[p], p # Unclaim
         PROVE  n + d[p] \in DOMAIN Buffer[p] /\ Buffer'[p][n] = Buffer[p][n + d[p]]
    BY <1>5, <1>6, <2>5, <2>8, <2>10
  <2>11. Shifted(d, Unclaim, e)
    BY <1>4, <2>4, <2>5, <2>6, <2>7, <2>9, <2>10 DEF Shifted
  <2> QED
    BY <2>4, <2>5, <2>11, ShiftedIsCarried
<1> DEFINE f == [p \in Places |-> IF p = Queued THEN 1 ELSE 0]
<1>10. f \in [Places -> Nat] /\ f[Queued] = 1 /\ \A p \in Places : p # Queued => f[p] = 0
  BY <1>4
<1> HIDE DEF f
<1>11. ASSUME NEW t \in Places, t # Queued, Rank(t) < 4, Belongs(t, e),
              \A p \in Places : p \notin {Queued, t} => Buffer'[p] \in {Buffer[p], <<>>},
              Buffer'[t] \in {Buffer[t], Append(Buffer[t], e)},
              \A q \in Places : \A m \in DOMAIN Buffer'[q] :
                 q # Queued /\ Rank(t) < Rank(q) => Buffer'[q][m].of # e.of
       PROVE  BuffersCarried
  <2>1. Buffer[t] \in Seq(Events)
    BY BufferTyped
  <2>2. /\ DOMAIN Buffer[t] = 1 .. Len(Buffer[t]) /\ Len(Buffer[t]) \in Nat
        /\ DOMAIN Append(Buffer[t], e) = 1 .. Len(Buffer[t]) + 1
        /\ \A i \in 1 .. Len(Buffer[t]) : Append(Buffer[t], e)[i] = Buffer[t][i]
        /\ Append(Buffer[t], e)[Len(Buffer[t]) + 1] = e
    BY <1>2, <2>1, AppendDoes
  <2>3. ASSUME NEW n \in DOMAIN Buffer'[t]
        PROVE  \/ n \in DOMAIN Buffer[t] /\ Buffer'[t][n] = Buffer[t][n]
               \/ Buffer'[t][n] = e /\ \A m \in DOMAIN Buffer'[t] : m <= n
    BY <1>11, <2>2
  <2>4. ASSUME NEW p \in Places, p \notin {Queued, t}, NEW n \in DOMAIN Buffer'[p]
        PROVE  n \in DOMAIN Buffer[p] /\ Buffer'[p][n] = Buffer[p][n]
    <3>1. DOMAIN <<>> = {}
      BY EmptySeq
    <3> QED
      BY <1>11, <2>4, <3>1
  <2>5. ASSUME NEW p \in Places, NEW n \in DOMAIN Buffer'[p]
        PROVE  \/ n + f[p] \in DOMAIN Buffer[p] /\ Buffer'[p][n] = Buffer[p][n + f[p]]
               \/ p = t /\ Buffer'[p][n] = e /\ \A m \in DOMAIN Buffer'[p] : m <= n
    <3>1. n \in Nat
      BY <1>5
    <3>2. CASE p = Queued
      BY <1>6, <1>10, <3>2
    <3>3. CASE p = t
      BY <1>10, <1>11, <2>3, <3>1, <3>3
    <3>4. CASE p \notin {Queued, t}
      BY <1>10, <2>4, <3>1, <3>4
    <3> QED
      BY <3>2, <3>3, <3>4
  <2>6. Shifted(f, t, e)
    BY <1>4, <1>10, <1>11, <2>5 DEF Shifted
  <2> QED
    BY <1>10, <2>6, ShiftedIsCarried
<1>12. CASE Staged(e)
  <2> DEFINE t == Staging(e.id)
  <2>1. /\ t \in Places /\ t # Queued /\ Rank(t) = 2
        /\ \A q \in Places : q # Queued /\ 2 < Rank(q) => q = Unclaim
    BY <1>2, PlaceFacts, PlaceKinds
  <2>2. Belongs(t, e)
    BY DEF Belongs, Staging
  <2>3. /\ endpoint[e.id].stream # 0 /\ stream' = stream /\ unmatched' = unmatched
        /\ \A id \in Ids : id # e.id => endpoint'[id] = endpoint[id]
        /\ endpoint'[e.id].staged \in {endpoint[e.id].staged, Append(endpoint[e.id].staged, e)}
    BY <1>12 DEF Staged
  <2>4. ASSUME NEW p \in Places, p \notin {Queued, t} PROVE Buffer'[p] = Buffer[p]
    BY <2>3, <2>4, PlaceKinds, BufferIs, BufferIsNext
  <2>5. Buffer'[t] \in {Buffer[t], Append(Buffer[t], e)}
    BY <1>2, <2>3, BufferIs, BufferIsNext
  <2>6. \A m \in DOMAIN Buffer'[Unclaim] : Buffer'[Unclaim][m].of # e.of
    BY <1>8, <2>3, BufferIsNext
  <2> HIDE DEF t
  <2>7. /\ \A p \in Places : p \notin {Queued, t} => Buffer'[p] \in {Buffer[p], <<>>}
        /\ \A q \in Places : \A m \in DOMAIN Buffer'[q] :
              q # Queued /\ Rank(t) < Rank(q) => Buffer'[q][m].of # e.of
        /\ Rank(t) < 4
    BY <2>1, <2>4, <2>6
  <2> QED
    BY <1>11, <2>1, <2>2, <2>5, <2>7
<1>13. CASE Forwarded(e)
  <2> DEFINE k == endpoint[e.id].stream
             t == Frames(k)
  <2>1. /\ k # 0 /\ endpoint[e.id].active /\ unmatched' = unmatched
        /\ endpoint' = IF Terminal(e) THEN [endpoint EXCEPT ![e.id] = NoEndpoint] ELSE endpoint
        /\ \A j \in Shows : j # k => stream'[j].frames = stream[j].frames
        /\ stream'[k].frames \in {stream[k].frames, Append(stream[k].frames, e)}
    BY <1>13 DEF Forwarded
  <2>2. k \in DOMAIN shows /\ shows[k].id = e.id /\ endpoint[e.id].staged = <<>>
    BY <1>2, <2>1 DEF Endpoints
  <2>3. k \in Shows
    BY <2>2, Numbered
  <2>4. /\ t \in Places /\ t # Queued /\ Rank(t) = 1
        /\ \A q \in Places : q # Queued /\ 1 < Rank(q) => q = Unclaim \/ \E id \in Ids : q = Staging(id)
    BY <2>3, PlaceFacts, PlaceKinds
  <2>5. Belongs(t, e)
    BY <2>2 DEF Belongs, Frames
  <2>6. /\ \A id \in Ids : id # e.id => endpoint'[id] = endpoint[id]
        /\ endpoint'[e.id].staged = <<>>
    BY <1>2, <2>1, <2>2 DEF HubTypeOK, NoEndpoint
  <2>7. \A id \in Ids : endpoint'[id].staged = endpoint[id].staged
    BY <2>2, <2>6
  <2>8. ASSUME NEW p \in Places, p \notin {Queued, t} PROVE Buffer'[p] = Buffer[p]
    BY <2>1, <2>7, <2>8, PlaceKinds, BufferIs, BufferIsNext
  <2>9. Buffer'[t] \in {Buffer[t], Append(Buffer[t], e)}
    BY <2>1, <2>3, BufferIs, BufferIsNext
  <2>10. \A m \in DOMAIN Buffer'[Unclaim] : Buffer'[Unclaim][m].of # e.of
    BY <1>8, <2>1, BufferIsNext
  <2>11. ASSUME NEW id \in Ids, NEW m \in DOMAIN Buffer'[Staging(id)],
                Buffer'[Staging(id)][m].of = e.of
         PROVE  FALSE
    <3>1. /\ m \in DOMAIN Buffer[Staging(id)] /\ Buffer[Staging(id)][m] = Buffer'[Staging(id)][m]
          /\ Staging(id) \in Places
      BY <2>7, <2>11, BufferIs, BufferIsNext, PlaceFacts
    <3>2. Buffer[Staging(id)][m].id = e.id /\ Belongs(Staging(id), Buffer[Staging(id)][m])
      BY <1>7, <2>11, <3>1
    <3>3. id = e.id
      BY <3>2 DEF Belongs, Staging
    <3>4. DOMAIN <<>> = {}
      BY EmptySeq
    <3> QED
      BY <1>2, <2>2, <3>1, <3>3, <3>4, BufferIs
  <2> HIDE DEF t
  <2>12. /\ \A p \in Places : p \notin {Queued, t} => Buffer'[p] \in {Buffer[p], <<>>}
         /\ \A q \in Places : \A m \in DOMAIN Buffer'[q] :
               q # Queued /\ Rank(t) < Rank(q) => Buffer'[q][m].of # e.of
         /\ Rank(t) < 4
    BY <2>4, <2>8, <2>10, <2>11
  <2> QED
    BY <1>11, <2>4, <2>5, <2>9, <2>12
<1> QED
  BY <1>3, <1>9, <1>12, <1>13

\* An installed endpoint takes what was unmatched of its id, in its order.
LEMMA InstallCarries ==
    ASSUME HubTypeOK, HubTypeOK', Underway, NEW k \in DOMAIN shows, shows[k].id # 0,
           InstallEndpoint(k), signals' = signals
    PROVE  BuffersCarried
<1> DEFINE id == shows[k].id
           t == Staging(id)
<1>1. /\ id \in Ids /\ k \in Shows
      /\ \A i \in Ids : i # id => endpoint'[i] = endpoint[i]
      /\ endpoint'[id].staged = Kept(unmatched, {id})
      /\ unmatched' = Kept(unmatched, Ids \ {id})
      /\ \A j \in Shows : stream'[j].frames = stream[j].frames
  BY InstallDoes
<1>2. unmatched \in Seq(Events)
  BY DEF HubTypeOK
<1>3. /\ Buffer[Unclaim] = unmatched /\ Buffer'[Unclaim] = Kept(unmatched, Ids \ {id})
      /\ Buffer'[t] = Kept(unmatched, {id})
  BY <1>1, BufferIs, BufferIsNext
<1>4. PICK mine : Picks(mine, Kept(unmatched, {id}), unmatched, Len(unmatched))
  BY <1>2, KeptPicks
<1>5. PICK rest : Picks(rest, Kept(unmatched, Ids \ {id}), unmatched, Len(unmatched))
  BY <1>2, KeptPicks
<1>6. /\ t \in Places /\ Unclaim \in Places /\ t # Unclaim
      /\ Rank(t) = 2 /\ Rank(Unclaim) = 3
  BY <1>1, PlaceFacts
<1>7. ASSUME NEW p \in Places, p \notin {t, Unclaim} PROVE Buffer'[p] = Buffer[p]
  BY <1>1, <1>7, PlaceKinds, BufferIs, BufferIsNext
<1>8. /\ \A n \in 1 .. Len(Kept(unmatched, {id})) : Kept(unmatched, {id})[n].id = id
      /\ \A n \in 1 .. Len(Kept(unmatched, Ids \ {id})) : Kept(unmatched, Ids \ {id})[n].id # id
      /\ Kept(unmatched, {id}) \in Seq(Events) /\ Kept(unmatched, Ids \ {id}) \in Seq(Events)
  BY <1>2, KeptPicks
<1>9. Belongs(t, [id |-> id]) /\ \A x : x.id = id => Belongs(t, x)
  BY DEF Belongs, Staging
<1>10. ASSUME NEW p \in Places, NEW n \in DOMAIN Buffer[p], Belongs(p, Buffer[p][n]), p = t
       PROVE  Buffer[p][n].id = id
  BY <1>10 DEF Belongs, Staging
<1>11. \A p \in Places : Rank(p) \in Nat
  BY DEF Rank
<1> HIDE DEF t, id
<1> DEFINE from == [p \in Places |-> [n \in Nat |-> IF p = t THEN Unclaim ELSE p]]
           nth == [p \in Places |-> [n \in Nat |->
                     IF p = t THEN mine[n] ELSE IF p = Unclaim THEN rest[n] ELSE n]]
<1>12. ASSUME NEW p \in Places, NEW n \in DOMAIN Buffer'[p]
       PROVE  /\ n \in Nat /\ n # 0
              /\ p = t => from[p][n] = Unclaim /\ nth[p][n] = mine[n]
              /\ p = Unclaim => from[p][n] = Unclaim /\ nth[p][n] = rest[n]
              /\ p \notin {t, Unclaim} => from[p][n] = p /\ nth[p][n] = n
  <2>1. n \in Nat /\ n # 0
    BY BufferTypedNext, SeqOfEvents
  <2> QED
    BY <1>6, <2>1
<1> HIDE DEF from, nth
<1>13. ASSUME NEW n \in DOMAIN Buffer'[t]
       PROVE  /\ mine[n] \in DOMAIN Buffer[Unclaim] /\ Buffer[Unclaim][mine[n]] = Buffer'[t][n]
              /\ Buffer'[t][n].id = id /\ mine[n] \in Nat
              /\ \A m \in DOMAIN Buffer'[t] : m < n => mine[m] < mine[n]
  BY <1>2, <1>3, <1>4, <1>8, SeqOfEvents DEF Picks
<1>14. ASSUME NEW n \in DOMAIN Buffer'[Unclaim]
       PROVE  /\ rest[n] \in DOMAIN Buffer[Unclaim] /\ Buffer[Unclaim][rest[n]] = Buffer'[Unclaim][n]
              /\ Buffer'[Unclaim][n].id # id /\ rest[n] \in Nat
              /\ \A m \in DOMAIN Buffer'[Unclaim] : m < n => rest[m] < rest[n]
  BY <1>2, <1>3, <1>5, <1>8, SeqOfEvents DEF Picks
<1>15. ASSUME NEW p \in Places, NEW n \in DOMAIN Buffer'[p]
       PROVE  /\ from[p][n] \in Places /\ nth[p][n] \in DOMAIN Buffer[from[p][n]]
              /\ Buffer[from[p][n]][nth[p][n]] = Buffer'[p][n]
              /\ from[p][n] # p => Belongs(p, Buffer'[p][n])
  <2>1. CASE p = t
    BY <1>6, <1>9, <1>12, <1>13, <2>1
  <2>2. CASE p = Unclaim
    BY <1>6, <1>12, <1>14, <2>2
  <2>3. CASE p \notin {t, Unclaim}
    BY <1>7, <1>12, <2>3
  <2> QED
    BY <2>1, <2>2, <2>3
<1>16. ASSUME NEW p \in Places, NEW q \in Places, NEW m \in DOMAIN Buffer'[p], NEW n \in DOMAIN Buffer'[q],
              Buffer'[p][m].of = Buffer'[q][n].of
       PROVE  Buffer'[p][m].id = Buffer'[q][n].id
  <2>1. Buffer'[p][m].id = shows[Buffer'[p][m].of].id
    BY <1>15 DEF Underway
  <2>2. Buffer'[q][n].id = shows[Buffer'[q][n].of].id
    BY <1>15 DEF Underway
  <2> QED
    BY <1>16, <2>1, <2>2
<1>17. ASSUME NEW p \in Places, NEW q \in Places, NEW m \in DOMAIN Buffer'[p], NEW n \in DOMAIN Buffer'[q]
       PROVE  /\ from[p][m] = from[q][n] /\ nth[p][m] = nth[q][n] => p = q /\ m = n
              /\ Buffer'[p][m].of = Buffer'[q][n].of /\ Ahead(p, m, q, n)
                    => Ahead(from[p][m], nth[p][m], from[q][n], nth[q][n])
  <2>1. m \in Nat /\ n \in Nat /\ Rank(p) \in Nat /\ Rank(q) \in Nat
    BY <1>11, <1>12
  <2>2. CASE p = t /\ q = t
    <3>1. from[p][m] = Unclaim /\ nth[p][m] = mine[m] /\ from[q][n] = Unclaim /\ nth[q][n] = mine[n]
      BY <1>12, <2>2
    <3>2. (m < n => mine[m] < mine[n]) /\ (n < m => mine[n] < mine[m]) /\ mine[m] \in Nat /\ mine[n] \in Nat
      BY <1>13, <2>2
    <3> QED
      BY <2>1, <2>2, <3>1, <3>2 DEF Ahead
  <2>3. CASE p = Unclaim /\ q = Unclaim
    <3>1. from[p][m] = Unclaim /\ nth[p][m] = rest[m] /\ from[q][n] = Unclaim /\ nth[q][n] = rest[n]
      BY <1>12, <2>3
    <3>2. (m < n => rest[m] < rest[n]) /\ (n < m => rest[n] < rest[m]) /\ rest[m] \in Nat /\ rest[n] \in Nat
      BY <1>14, <2>3
    <3> QED
      BY <2>1, <2>3, <3>1, <3>2 DEF Ahead
  <2>4. CASE (p = t /\ q = Unclaim) \/ (p = Unclaim /\ q = t)
    <3>1. Buffer'[p][m].id # Buffer'[q][n].id
      BY <1>13, <1>14, <2>4
    <3>2. Buffer'[p][m] # Buffer'[q][n] /\ Buffer'[p][m].of # Buffer'[q][n].of
      BY <1>16, <3>1
    <3>3. /\ Buffer[from[p][m]][nth[p][m]] = Buffer'[p][m]
          /\ Buffer[from[q][n]][nth[q][n]] = Buffer'[q][n]
      BY <1>15
    <3> QED
      BY <3>2, <3>3
  <2>5. CASE p \notin {t, Unclaim} /\ q \notin {t, Unclaim}
    <3>1. from[p][m] = p /\ nth[p][m] = m /\ from[q][n] = q /\ nth[q][n] = n
      BY <1>12, <2>5
    <3> QED
      BY <3>1
  <2>6. CASE p \in {t, Unclaim} /\ q \notin {t, Unclaim}
    <3>1. from[p][m] = Unclaim /\ from[q][n] = q /\ q # Unclaim
      BY <1>12, <2>6
    <3>2. Rank(p) < Rank(q) => Rank(q) = 4 \/ (p = t /\ Rank(q) = 3)
      BY <1>6, <2>6, PlaceKinds, PlaceFacts
    <3>3. Rank(q) # 3
      BY <1>6, <2>6, PlaceKinds, PlaceFacts
    <3> QED
      BY <1>6, <2>1, <2>6, <3>1, <3>2, <3>3 DEF Ahead
  <2>7. CASE p \notin {t, Unclaim} /\ q \in {t, Unclaim}
    <3>1. from[p][m] = p /\ from[q][n] = Unclaim /\ p # Unclaim
      BY <1>12, <2>7
    <3> QED
      BY <1>6, <2>1, <2>7, <3>1 DEF Ahead
  <2> QED
    BY <2>2, <2>3, <2>4, <2>5, <2>6, <2>7
<1>18. Carried(from, nth)
  BY <1>15, <1>17 DEF Carried
<1> QED
  BY <1>18 DEF BuffersCarried

\* A sequence of events after another.
LEMMA ConcatDoes ==
    ASSUME NEW f \in Seq(Events), NEW s \in Seq(Events)
    PROVE  /\ Len(f) \in Nat /\ Len(s) \in Nat
           /\ DOMAIN f = 1 .. Len(f) /\ DOMAIN s = 1 .. Len(s)
           /\ DOMAIN (f \o s) = 1 .. Len(f) + Len(s)
           /\ \A n \in 1 .. Len(f) + Len(s) :
                 (f \o s)[n] = IF n <= Len(f) THEN f[n] ELSE s[n - Len(f)]
<1>1. /\ Len(f) \in Nat /\ Len(s) \in Nat
      /\ DOMAIN f = 1 .. Len(f) /\ DOMAIN s = 1 .. Len(s)
  BY LenProperties
<1>2. /\ f \o s \in Seq(Events) /\ Len(f \o s) = Len(f) + Len(s)
      /\ \A n \in 1 .. Len(f) + Len(s) :
            (f \o s)[n] = IF n <= Len(f) THEN f[n] ELSE s[n - Len(f)]
  BY ConcatProperties
<1>3. DOMAIN (f \o s) = 1 .. Len(f) + Len(s)
  BY <1>2, LenProperties
<1> QED
  BY <1>1, <1>2, <1>3

\* What was staged follows what was written to the stream before.
LEMMA ReleaseCarries ==
    ASSUME HubTypeOK, HubTypeOK', Underway, NEW k \in Shows, k \in DOMAIN shows,
           shows[k].id # 0, ReceiveActivate(k)
    PROVE  BuffersCarried
<1> DEFINE id == shows[k].id
           s == endpoint[id].staged
           f == stream[k].frames
<1>1. id \in Ids
  BY Numbered
<1>2. signals' = signals /\ unmatched' = unmatched
  BY DEF ReceiveActivate
<1>3. \A j \in Shows : j # k => stream'[j].frames = stream[j].frames
  BY ActivateDoes
<1>4. Released(k) \/ (endpoint' = endpoint /\ stream'[k].frames = stream[k].frames)
  BY ActivateDoes
<1>5. ASSUME Released(k)
      PROVE  /\ \A i \in Ids : i # id => endpoint'[i] = endpoint[i]
             /\ endpoint'[id].staged = <<>>
             /\ stream'[k].frames = IF stream[k].open THEN f \o s ELSE f
  <2> DEFINE new == [stream |-> k, active |-> TRUE, staged |-> <<>>]
  <2>1. /\ \/ endpoint' = [endpoint EXCEPT ![id] = NoEndpoint]
           \/ endpoint' = [endpoint EXCEPT ![id] = new]
        /\ stream'[k].frames = IF stream[k].open THEN f \o s ELSE f
    BY <1>5 DEF Released
  <2>2. new.staged = <<>> /\ NoEndpoint.staged = <<>>
    BY DEF NoEndpoint
  <2> HIDE DEF new
  <2>3. /\ \A i \in Ids : i # id => endpoint'[i] = endpoint[i]
        /\ endpoint'[id].staged = <<>>
    BY <1>1, <2>1, <2>2 DEF HubTypeOK
  <2> QED
    BY <2>1, <2>3
<1>6. ASSUME endpoint' = endpoint, stream'[k].frames = stream[k].frames
      PROVE  BuffersCarried
  BY <1>2, <1>3, <1>6, KeptIsCarried
<1>7. ASSUME Released(k), ~stream[k].open
      PROVE  BuffersCarried
  <2>1. /\ \A i \in Ids : endpoint'[i].staged \in {endpoint[i].staged, <<>>}
        /\ stream'[k].frames = stream[k].frames
    BY <1>5, <1>7
  <2> QED
    BY <1>2, <1>3, <2>1, KeptIsCarried
<1>8. ASSUME Released(k), stream[k].open
      PROVE  BuffersCarried
  <2>1. s \in Seq(Events) /\ f \in Seq(Events)
    BY <1>1 DEF HubTypeOK, Ends, Streams
  <2>2. /\ stream'[k].frames = f \o s /\ endpoint'[id].staged = <<>>
        /\ \A i \in Ids : i # id => endpoint'[i] = endpoint[i]
    BY <1>5, <1>8
  <2> DEFINE L == Len(f)
             t == Frames(k)
             g == Staging(id)
  <2>3. /\ L \in Nat /\ Len(s) \in Nat /\ DOMAIN f = 1 .. L /\ DOMAIN s = 1 .. Len(s)
        /\ DOMAIN (f \o s) = 1 .. L + Len(s)
        /\ \A n \in 1 .. L + Len(s) : (f \o s)[n] = IF n <= L THEN f[n] ELSE s[n - L]
    BY <2>1, ConcatDoes
  <2>4. /\ Buffer[t] = f /\ Buffer[g] = s /\ Buffer'[t] = f \o s /\ Buffer'[g] = <<>>
    BY <1>1, <2>2, BufferIs, BufferIsNext
  <2>5. ASSUME NEW p \in Places, p \notin {t, g} PROVE Buffer'[p] = Buffer[p]
    BY <1>2, <1>3, <2>2, <2>5, PlaceKinds, BufferIs, BufferIsNext
  <2>6. t \in Places /\ g \in Places /\ t # g /\ Rank(t) = 1 /\ Rank(g) = 2
    BY <1>1, PlaceFacts
  <2>7. \A x : x.id = id => Belongs(t, x)
    BY DEF Belongs, Frames
  <2>8. \A x : Belongs(g, x) => x.id = id
    BY DEF Belongs, Staging
  <2>9. \A p \in Places : Rank(p) \in Nat
    BY DEF Rank
  <2>10. ASSUME NEW i \in Ids, i # id PROVE Staging(i) # g
    BY <2>10, PlaceFacts
  <2>11. ASSUME NEW p \in Places, Rank(p) = 2 PROVE \E i \in Ids : p = Staging(i)
    BY <2>11, PlaceFacts, PlaceKinds
  <2>12. \A i, x : Belongs(Staging(i), x) => x.id = i
    BY DEF Belongs, Staging
  <2> HIDE DEF L, t, g, id, s, f
  <2> DEFINE Old(p, n) == p # t \/ n <= L
             from == [p \in Places |-> [n \in Nat |-> IF Old(p, n) THEN p ELSE g]]
             nth == [p \in Places |-> [n \in Nat |-> IF Old(p, n) THEN n ELSE n - L]]
  <2>13. ASSUME NEW p \in Places, NEW n \in DOMAIN Buffer'[p]
         PROVE  /\ n \in Nat /\ n # 0 /\ p # g
                /\ Old(p, n) => from[p][n] = p /\ nth[p][n] = n
                /\ ~Old(p, n) => from[p][n] = g /\ nth[p][n] = n - L
    <3>1. n \in Nat /\ n # 0
      BY BufferTypedNext, SeqOfEvents
    <3>2. DOMAIN <<>> = {}
      BY EmptySeq
    <3> QED
      BY <2>4, <2>13, <3>1, <3>2
  <2> HIDE DEF from, nth
  <2>14. ASSUME NEW p \in Places, NEW n \in DOMAIN Buffer'[p]
         PROVE  /\ Old(p, n) => n \in DOMAIN Buffer[p] /\ Buffer[p][n] = Buffer'[p][n]
                /\ ~Old(p, n) =>
                      /\ p = t /\ n > L /\ n - L \in DOMAIN Buffer[g]
                      /\ Buffer[g][n - L] = Buffer'[p][n] /\ Buffer'[p][n].id = id
    <3>1. n \in Nat /\ n # 0
      BY <2>13
    <3>2. CASE p # t
      BY <2>5, <2>13, <3>2
    <3>3. CASE p = t /\ n <= L
      BY <2>3, <2>4, <2>14, <3>1, <3>3
    <3>4. CASE p = t /\ ~(n <= L)
      <4>1. /\ n > L /\ n - L \in 1 .. Len(s) /\ (f \o s)[n] = s[n - L]
        BY <2>3, <2>4, <2>14, <3>1, <3>4
      <4>2. n - L \in DOMAIN Buffer[g] /\ Buffer[g][n - L] = Buffer'[p][n]
        BY <2>3, <2>4, <3>4, <4>1
      <4>3. Belongs(g, Buffer[g][n - L])
        BY <2>6, <4>2 DEF Underway
      <4> QED
        BY <2>8, <3>4, <4>1, <4>2, <4>3
    <3> QED
      BY <3>2, <3>3, <3>4
  <2>15. ASSUME NEW p \in Places, NEW n \in DOMAIN Buffer'[p]
         PROVE  /\ from[p][n] \in Places /\ nth[p][n] \in DOMAIN Buffer[from[p][n]]
                /\ Buffer[from[p][n]][nth[p][n]] = Buffer'[p][n]
                /\ from[p][n] # p => Belongs(p, Buffer'[p][n])
    <3>1. CASE Old(p, n)
      BY <2>13, <2>14, <3>1
    <3>2. CASE ~Old(p, n)
      BY <2>6, <2>7, <2>13, <2>14, <3>2
    <3> QED
      BY <3>1, <3>2
  <2>16. ASSUME NEW p \in Places, NEW q \in Places, NEW m \in DOMAIN Buffer'[p], NEW n \in DOMAIN Buffer'[q],
                Buffer'[p][m].of = Buffer'[q][n].of
         PROVE  Buffer'[p][m].id = Buffer'[q][n].id
    <3>1. Buffer'[p][m].id = shows[Buffer'[p][m].of].id
      BY <2>15 DEF Underway
    <3>2. Buffer'[q][n].id = shows[Buffer'[q][n].of].id
      BY <2>15 DEF Underway
    <3> QED
      BY <2>16, <3>1, <3>2
  <2>17. ASSUME NEW p \in Places, NEW q \in Places, NEW m \in DOMAIN Buffer'[p], NEW n \in DOMAIN Buffer'[q]
         PROVE  /\ from[p][m] = from[q][n] /\ nth[p][m] = nth[q][n] => p = q /\ m = n
                /\ Buffer'[p][m].of = Buffer'[q][n].of /\ Ahead(p, m, q, n)
                      => Ahead(from[p][m], nth[p][m], from[q][n], nth[q][n])
    <3>1. /\ m \in Nat /\ n \in Nat /\ Rank(p) \in Nat /\ Rank(q) \in Nat /\ p # g /\ q # g /\ L \in Nat
      BY <2>3, <2>9, <2>13
    <3>2. CASE Old(p, m) /\ Old(q, n)
      BY <2>13, <3>2
    <3>3. CASE ~Old(p, m) /\ ~Old(q, n)
      <4>1. p = t /\ q = t /\ from[p][m] = g /\ nth[p][m] = m - L /\ from[q][n] = g /\ nth[q][n] = n - L
        BY <2>13, <2>14, <3>3
      <4> QED
        BY <3>1, <4>1 DEF Ahead
    <3>4. CASE Old(p, m) /\ ~Old(q, n)
      <4>1. /\ q = t /\ n > L /\ from[p][m] = p /\ nth[p][m] = m /\ from[q][n] = g /\ nth[q][n] = n - L
            /\ p = t => m <= L
        BY <2>13, <2>14, <3>4
      <4> QED
        BY <2>6, <3>1, <4>1 DEF Ahead
    <3>5. CASE ~Old(p, m) /\ Old(q, n)
      <4>1. /\ p = t /\ m > L /\ from[q][n] = q /\ nth[q][n] = n /\ from[p][m] = g /\ nth[p][m] = m - L
            /\ q = t => n <= L
            /\ Buffer'[p][m].id = id
            /\ n \in DOMAIN Buffer[q] /\ Buffer[q][n] = Buffer'[q][n]
        BY <2>13, <2>14, <3>5
      <4>2. ASSUME Buffer'[p][m].of = Buffer'[q][n].of, Ahead(p, m, q, n)
            PROVE  Rank(q) > 2
        <5>1. Rank(q) > 1
          BY <2>6, <3>1, <4>1, <4>2 DEF Ahead
        <5>2. Buffer[q][n].id = id /\ Belongs(q, Buffer[q][n])
          BY <2>16, <4>1, <4>2 DEF Underway
        <5>3. Rank(q) # 2
          <6>1. SUFFICES ASSUME Rank(q) = 2 PROVE FALSE
            OBVIOUS
          <6>2. PICK i \in Ids : q = Staging(i)
            BY <2>11, <6>1
          <6>3. i = id
            BY <2>12, <5>2, <6>2
          <6> QED
            BY <3>1, <6>2, <6>3 DEF g
        <5> QED
          BY <3>1, <5>1, <5>3
      <4> QED
        BY <2>6, <3>1, <4>1, <4>2 DEF Ahead
    <3> QED
      BY <3>2, <3>3, <3>4, <3>5
  <2>18. Carried(from, nth)
    BY <2>15, <2>17 DEF Carried
  <2> QED
    BY <2>18 DEF BuffersCarried
<1> QED
  BY <1>4, <1>6, <1>7, <1>8

\* Whatever a step does but a new signal, it carries the events.
LEMMA BufferSteps ==
    ASSUME HubTypeOK, HubTypeOK', Gate, Begun, Underway, Endpoints, Once, [HubNext]_hubVars
    PROVE  BuffersCarried \/ \E id \in Ids : Act(id) \/ Close(id)
<1>1. ASSUME UNCHANGED <<signals, unmatched, endpoint>>,
             \A k \in Shows : stream'[k].frames \in {stream[k].frames, <<>>}
      PROVE  BuffersCarried
  BY <1>1, KeptIsCarried
<1>2. ASSUME NEW s \in Owners, NEW r \in Ids \cup {0}, BeginPresent(s, r)
      PROVE  BuffersCarried
  <2>1. PICK n : n = Len(shows) + 1
    OBVIOUS
  <2>2. stream'[n] = NewStream /\ \A k \in Shows : k # n => stream'[k] = stream[k]
    BY <1>2, <2>1, BeginStreams
  <2>3. UNCHANGED <<signals, unmatched, endpoint>>
    BY <1>2 DEF BeginPresent
  <2> QED
    BY <1>1, <2>2, <2>3 DEF NewStream
<1>3. CASE UNCHANGED hubVars
  BY <1>1, <1>3 DEF hubVars
<1>4. CASE \E s \in ModuleSessions : SessionEnds(s)
  BY <1>1, <1>4 DEF SessionEnds
<1>5. CASE PresentFails \/ PresentTimesOut
  <2>1. work # NoWork /\ Abandon
    BY <1>5, AtWork DEF PresentFails, PresentTimesOut, Stages
  <2>2. UNCHANGED <<signals, unmatched, endpoint>>
    BY <1>5 DEF PresentFails, PresentTimesOut
  <2>3. ShutOnly({work.show})
    BY <2>1, AbandonDoes
  <2> QED
    BY <1>1, <2>2, <2>3 DEF ShutOnly
<1>6. CASE Register
  <2>1. UNCHANGED <<signals, unmatched, endpoint>>
    BY <1>6 DEF Register
  <2>2. Registered \/ Refused
    BY <1>6, RegisterDoes
  <2> QED
    BY <1>1, <2>1, <2>2 DEF Registered, Refused, ShutOnly
<1>7. CASE Activate
  <2>1. UNCHANGED <<signals, unmatched, endpoint>>
    BY <1>7 DEF Activate
  <2> QED
    BY <1>1, <1>7, <2>1, ActivatesDoes
<1>8. CASE ActivateFails
  <2>1. UNCHANGED <<signals, unmatched, endpoint>>
    BY <1>8 DEF ActivateFails
  <2> QED
    BY <1>1, <1>8, <2>1, ActivateFailsDoes DEF ShutOnly
<1>9. CASE Settle \/ Notify
  BY <1>1, <1>9 DEF Settle, Notify
<1>10. ASSUME Acknowledge \/ \E k \in Shows : LateEndpoint(k) PROVE BuffersCarried
  <2>1. PICK k \in DOMAIN shows : Installs(k)
    BY <1>10, InstallsDoes
  <2>2. shows[k].id # 0 /\ InstallEndpoint(k)
    BY <2>1 DEF Installs
  <2>3. signals' = signals
    BY <1>10 DEF Acknowledge, LateEndpoint
  <2> QED
    BY <2>2, <2>3, InstallCarries
<1>11. CASE ForwardSignal
  BY <1>11, ForwardCarries
<1>12. CASE PresenterRestarts
  <2>1. /\ \A id \in Ids : endpoint'[id] = NoEndpoint
        /\ NoEndpoint.staged = <<>>
        /\ unmatched' = <<>> /\ signals' = <<>>
        /\ \A k \in Shows : stream'[k].frames = stream[k].frames
    BY <1>12, RestartDoes
  <2>2. \A id \in Ids : endpoint'[id].staged = <<>>
    BY <2>1
  <2> QED
    BY <2>1, <2>2, KeptIsCarried
<1>13. ASSUME NEW k \in Shows, Route(k) PROVE BuffersCarried
  BY <1>13, RouteCarries
<1>14. ASSUME NEW k \in Shows, Release(k) PROVE BuffersCarried
  <2>1. UNCHANGED <<signals, unmatched, endpoint>> /\ stream' = Shut(stream, {k})
    BY <1>14 DEF Release
  <2> QED
    BY <1>1, <2>1, ShutIsOnly DEF ShutOnly
<1>15. CASE \E k \in Shows : ReaderEnds(k)
  BY <1>1, <1>15 DEF ReaderEnds
<1>16. ASSUME NEW k \in Shows, ReceiveActivate(k) PROVE BuffersCarried
  <2>1. k \in DOMAIN shows /\ shows[k].id # 0
    BY <1>16 DEF ReceiveActivate, Begun
  <2> QED
    BY <1>16, <2>1, ReleaseCarries
<1>17. ASSUME NEW k \in Shows, ForgetStream(k) PROVE BuffersCarried
  <2>1. /\ UNCHANGED <<signals, unmatched, stream>>
        /\ endpoint' = [endpoint EXCEPT ![shows[k].id] = NoEndpoint]
    BY <1>17 DEF ForgetStream
  <2>2. \A id \in Ids : endpoint'[id].staged \in {endpoint[id].staged, <<>>}
    BY <2>1 DEF HubTypeOK, NoEndpoint
  <2> QED
    BY <2>1, <2>2, KeptIsCarried
<1> QED
  BY <1>2, <1>3, <1>4, <1>5, <1>6, <1>7, <1>8, <1>9, <1>10, <1>11, <1>12, <1>13, <1>14, <1>15,
     <1>16, <1>17, HubSteps

\* Only a routed frame tells a session something.
LEMMA ToldSteps ==
    ASSUME [HubNext]_hubVars
    PROVE  delivered' = delivered \/ \E k \in Shows : Route(k)
<1>1. CASE UNCHANGED hubVars
  BY <1>1 DEF hubVars
<1>2. CASE \E s \in ModuleSessions : SessionEnds(s)
  BY <1>2 DEF SessionEnds
<1>3. CASE PresentFails \/ PresentTimesOut \/ Register \/ Activate \/ ActivateFails \/ Settle
  BY <1>3 DEF PresentFails, PresentTimesOut, Register, Activate, ActivateFails, Settle
<1>4. CASE Notify \/ Acknowledge \/ ForwardSignal \/ PresenterRestarts
  BY <1>4 DEF Notify, Acknowledge, ForwardSignal, PresenterRestarts
<1>5. CASE \E k \in Shows : Release(k) \/ ReaderEnds(k)
  BY <1>5 DEF Release, ReaderEnds
<1>6. CASE \E k \in Shows : LateEndpoint(k) \/ ReceiveActivate(k) \/ ForgetStream(k)
  BY <1>6 DEF LateEndpoint, ReceiveActivate, ForgetStream
<1>7. CASE \E id \in Ids : Act(id) \/ Close(id)
  BY <1>7 DEF Act, Close, Raise
<1>8. CASE \E s \in Owners, replace \in Ids \cup {0} : BeginPresent(s, replace)
  BY <1>8 DEF BeginPresent
<1> QED
  BY <1>1, <1>2, <1>3, <1>4, <1>5, <1>6, <1>7, <1>8, HubSteps

\* Two events of a presentation that are of one kind are one.
LEMMA SameEvent ==
    ASSUME NEW e \in Events, NEW f \in Events, e.id = f.id, e.of = f.of, e.kind = f.kind
    PROVE  e = f
BY DEF Events

\* What a routed frame tells is told from then on, and nothing else.
LEMMA RouteTells ==
    ASSUME HubTypeOK, NEW k \in Shows, Route(k), NEW e, e = Head(stream[k].frames),
           NEW j \in Shows, NEW kind
    PROVE  IsTold(j, kind)' => IsTold(j, kind) \/ (j = e.of /\ kind = e.kind)
<1>1. e \in Events /\ delivered' = Send(e)
  BY RouteDoes
<1>2. CASE j # e.of \/ owner[e.id] \notin live
  <2>1. delivered'[j] = delivered[j]
    BY <1>1, <1>2, SendDoes
  <2> QED
    BY <2>1 DEF IsTold
<1>3. CASE j = e.of /\ owner[e.id] \in live
  <2> DEFINE old == delivered[j]  new == delivered'[j]
  <2>1. /\ Len(old) \in Nat /\ DOMAIN old = 1 .. Len(old)
        /\ DOMAIN new = 1 .. Len(old) + 1
        /\ \A i \in 1 .. Len(old) : new[i] = old[i]
        /\ new[Len(old) + 1] = <<owner[e.id], e.kind>>
    BY <1>1, <1>3, SendDoes
  <2>2. <<owner[e.id], e.kind>>[2] = e.kind
    OBVIOUS
  <2> HIDE DEF old, new
  <2>3. ASSUME NEW i \in DOMAIN new, new[i][2] = kind
        PROVE  (\E m \in DOMAIN old : old[m][2] = kind) \/ kind = e.kind
    BY <2>1, <2>2, <2>3
  <2> QED
    BY <1>3, <2>3 DEF IsTold, old, new
<1> QED
  BY <1>2, <1>3

\* What was told was raised, so what is raised anew was not told, nor is it
\* under way.
LEMMA RaiseIsNew ==
    ASSUME HubTypeOK, Latest, Done, Underway, Told, NEW id \in Ids, Act(id) \/ Close(id)
    PROVE  \E kind \in Kinds, k \in DOMAIN shows :
              /\ k \in Shows /\ k = screen[id] /\ shows[k].id = id /\ id # 0 /\ Raise(k, kind)
              /\ ~IsRaised(k, kind) /\ ~IsTold(k, kind)
              /\ kind = "action" => ~IsRaised(k, "closed")
              /\ \A p \in Places : \A n \in DOMAIN Buffer[p] :
                    Buffer[p][n].of = k => Buffer[p][n].kind # kind
<1> DEFINE k == screen[id]
<1>1. /\ k \in DOMAIN shows /\ k \in Shows /\ k # 0 /\ shows[k].id = id /\ id # 0
  BY ActDoes, HubAssumption
<1>2. PICK kind \in Kinds :
         /\ Raise(k, kind)
         /\ \/ kind = "action" /\ raised[k] = <<>>
            \/ kind = "closed"
  BY ActDoes
<1>3. ~IsRaised(k, "closed")
  BY <1>1 DEF Done
<1> HIDE DEF k
<1>4. ~IsRaised(k, kind)
  <2>1. CASE kind = "action" /\ raised[k] = <<>>
    <3>1. DOMAIN raised[k] = {}
      BY <2>1, EmptySeq
    <3> QED
      BY <3>1 DEF IsRaised
  <2> QED
    BY <1>2, <1>3, <2>1
<1>5. ~IsTold(k, kind)
  BY <1>1, <1>4 DEF Told, IsTold
<1>6. \A p \in Places : \A n \in DOMAIN Buffer[p] :
         Buffer[p][n].of = k => Buffer[p][n].kind # kind
  BY <1>4 DEF Underway
<1> QED
  BY <1>1, <1>2, <1>3, <1>4, <1>5, <1>6 DEF k

\* A new event is behind all others.
LEMMA RaiseKeeps ==
    ASSUME HubTypeOK, HubTypeOK', Gate, Latest, Done, Underway, Once, InOrder, Told,
           [HubNext]_hubVars, NEW id \in Ids, Act(id) \/ Close(id)
    PROVE  Underway' /\ Once' /\ InOrder'
<1>1. PICK kind \in Kinds, k \in DOMAIN shows :
         /\ k \in Shows /\ k = screen[id] /\ shows[k].id = id /\ id # 0 /\ Raise(k, kind)
         /\ ~IsRaised(k, kind) /\ ~IsTold(k, kind)
         /\ kind = "action" => ~IsRaised(k, "closed")
         /\ \A p \in Places : \A n \in DOMAIN Buffer[p] :
               Buffer[p][n].of = k => Buffer[p][n].kind # kind
  BY RaiseIsNew
<1>2. /\ raised' = [raised EXCEPT ![k] = Append(@, kind)]
      /\ signals' = Append(signals, Event(k, kind))
      /\ UNCHANGED <<stream, endpoint, unmatched, shows, delivered>>
  BY <1>1 DEF Raise
<1>3. PICK e : e = Event(k, kind)
  OBVIOUS
<1>4. /\ e \in Events /\ e.id = shows[k].id /\ e.of = k /\ e.kind = kind
      /\ raised'[k] = Append(raised[k], kind)
      /\ DOMAIN raised'[k] = 1 .. Len(raised[k]) + 1 /\ Len(raised[k]) \in Nat
      /\ raised'[k][Len(raised[k]) + 1] = kind
      /\ DOMAIN signals = 1 .. Len(signals) /\ Len(signals) \in Nat
      /\ DOMAIN signals' = 1 .. Len(signals) + 1
      /\ \A i \in 1 .. Len(signals) : signals'[i] = signals[i]
      /\ signals'[Len(signals) + 1] = e
  <2>1. shows[k].id # 0
    BY <1>1
  <2>2. raised' = [raised EXCEPT ![k] = Append(@, kind)] /\ signals' = Append(signals, Event(k, kind))
    BY <1>2
  <2>3. e \in Events /\ e.id = shows[k].id /\ e.of = k /\ e.kind = kind
    <3>1. shows[k].id \in Ids /\ k \in Shows
      BY <2>1, Numbered
    <3> QED
      BY <1>3, <3>1 DEF Event, Events
  <2>4. /\ raised'[k] = Append(raised[k], kind)
        /\ DOMAIN raised'[k] = 1 .. Len(raised[k]) + 1 /\ Len(raised[k]) \in Nat
        /\ raised'[k][Len(raised[k]) + 1] = kind
    BY <1>3, <2>1, <2>2, RaiseDoes
  <2>5. /\ DOMAIN signals = 1 .. Len(signals) /\ Len(signals) \in Nat
        /\ DOMAIN signals' = 1 .. Len(signals) + 1
        /\ \A i \in 1 .. Len(signals) : signals'[i] = signals[i]
        /\ signals'[Len(signals) + 1] = e
    <3>1. signals \in Seq(Events) /\ signals' = Append(signals, e)
      BY <1>3, <2>2 DEF HubTypeOK
    <3> QED
      BY <2>3, <3>1, AppendDoes
  <2> QED
    BY <2>3, <2>4, <2>5
<1> DEFINE L == Len(signals) + 1
<1>5. ASSUME NEW p \in Places, NEW n \in DOMAIN Buffer'[p]
      PROVE  \/ n \in DOMAIN Buffer[p] /\ Buffer'[p][n] = Buffer[p][n] /\ (p = Queued => n < L)
             \/ p = Queued /\ n = L /\ Buffer'[p][n] = e
  <2>1. CASE p = Queued
    <3>1. Buffer'[p] = signals' /\ Buffer[p] = signals
      BY <2>1, BufferIs, BufferIsNext
    <3> QED
      BY <1>4, <1>5, <2>1, <3>1
  <2>2. CASE p # Queued
    <3>1. Buffer'[p] = Buffer[p]
      BY <1>2, <2>2, PlaceKinds, BufferIs, BufferIsNext
    <3> QED
      BY <1>5, <2>2, <3>1
  <2> QED
    BY <2>1, <2>2
<1>6. L \in Nat
  BY <1>4
<1> HIDE DEF L
<1>7. ASSUME NEW p \in Places, NEW n \in DOMAIN Buffer[p]
      PROVE  Buffer[p][n].of = k => Buffer[p][n].kind # kind
  BY <1>1, <1>7
<1>8. ASSUME NEW p \in Places, NEW n \in DOMAIN Buffer'[p], NEW f, f = Buffer'[p][n]
      PROVE  /\ f.of \in DOMAIN shows'
             /\ f.id = shows'[f.of].id
             /\ \E i \in DOMAIN raised'[f.of] : raised'[f.of][i] = f.kind
             /\ ~ \E i \in DOMAIN delivered'[f.of] : delivered'[f.of][i][2] = f.kind
             /\ p[1] = "staged" => p[2] = f.id
             /\ p[1] = "frames" => p[2] \in DOMAIN shows' /\ shows'[p[2]].id = f.id
  <2>1. CASE n \in DOMAIN Buffer[p] /\ Buffer'[p][n] = Buffer[p][n]
    <3>1. /\ f.of \in DOMAIN shows /\ f.id = shows[f.of].id /\ IsRaised(f.of, f.kind)
          /\ ~IsTold(f.of, f.kind) /\ Belongs(p, f)
      BY <1>8, <2>1 DEF Underway
    <3>2. IsRaised(f.of, f.kind)'
      BY <3>1, RaisedStays, Numbered
    <3>3. \E i \in DOMAIN raised'[f.of] : raised'[f.of][i] = f.kind
      BY <3>2 DEF IsRaised
    <3> QED
      BY <1>2, <3>1, <3>3 DEF IsTold, Belongs
  <2>2. CASE p = Queued /\ f = e
    <3>1. p[1] = "signals"
      BY <2>2 DEF Queued
    <3>2. ~ \E i \in DOMAIN delivered'[f.of] : delivered'[f.of][i][2] = f.kind
      BY <1>1, <1>2, <1>4, <2>2 DEF IsTold
    <3>3. Len(raised[k]) + 1 \in DOMAIN raised'[k]
      BY <1>4
    <3> QED
      BY <1>1, <1>2, <1>4, <2>2, <3>1, <3>2, <3>3
  <2> QED
    BY <1>5, <1>8, <2>1, <2>2
<1>9. Underway'
  <2> SUFFICES ASSUME NEW p \in Places, NEW n \in DOMAIN Buffer'[p]
               PROVE  LET f == Buffer'[p][n]
                      IN  /\ f.of \in DOMAIN shows'
                          /\ f.id = shows'[f.of].id
                          /\ \E i \in DOMAIN raised'[f.of] : raised'[f.of][i] = f.kind
                          /\ ~ \E i \in DOMAIN delivered'[f.of] : delivered'[f.of][i][2] = f.kind
                          /\ p[1] = "staged" => p[2] = f.id
                          /\ p[1] = "frames" => p[2] \in DOMAIN shows' /\ shows'[p[2]].id = f.id
    BY Zenon DEF Underway, IsRaised, IsTold, Belongs
  <2> QED
    BY <1>8
<1>10. Once'
  <2> SUFFICES ASSUME NEW p \in Places, NEW q \in Places,
                      NEW m \in DOMAIN Buffer'[p], NEW n \in DOMAIN Buffer'[q],
                      Buffer'[p][m] = Buffer'[q][n]
               PROVE  p = q /\ m = n
    BY DEF Once
  <2>1. \/ m \in DOMAIN Buffer[p] /\ Buffer'[p][m] = Buffer[p][m]
        \/ p = Queued /\ m = L /\ Buffer'[p][m] = e
    BY <1>5
  <2>2. \/ n \in DOMAIN Buffer[q] /\ Buffer'[q][n] = Buffer[q][n]
        \/ q = Queued /\ n = L /\ Buffer'[q][n] = e
    BY <1>5
  <2>3. ASSUME NEW r \in Places, NEW i \in DOMAIN Buffer[r] PROVE Buffer[r][i] # e
    BY <1>4, <1>7, <2>3
  <2> QED
    BY <2>1, <2>2, <2>3 DEF Once
<1>11. InOrder'
  <2> SUFFICES ASSUME NEW p \in Places, NEW q \in Places,
                      NEW m \in DOMAIN Buffer'[p], NEW n \in DOMAIN Buffer'[q],
                      Buffer'[p][m].of = Buffer'[q][n].of, Buffer'[p][m].kind = "closed",
                      Buffer'[q][n].kind = "action"
               PROVE  ~Ahead(p, m, q, n)
    BY DEF InOrder
  <2>1. \/ m \in DOMAIN Buffer[p] /\ Buffer'[p][m] = Buffer[p][m] /\ (p = Queued => m < L)
        \/ p = Queued /\ m = L /\ Buffer'[p][m] = e
    BY <1>5
  <2>2. \/ n \in DOMAIN Buffer[q] /\ Buffer'[q][n] = Buffer[q][n] /\ (q = Queued => n < L)
        \/ q = Queued /\ n = L /\ Buffer'[q][n] = e
    BY <1>5
  <2>3. CASE /\ m \in DOMAIN Buffer[p] /\ Buffer'[p][m] = Buffer[p][m]
             /\ n \in DOMAIN Buffer[q] /\ Buffer'[q][n] = Buffer[q][n]
    BY <2>3 DEF InOrder
  <2>4. CASE p = Queued /\ m = L /\ Buffer'[p][m] = e
    <3>1. \A r \in Places : ~(4 < Rank(r))
      BY PlaceKinds, PlaceFacts
    <3>2. q = Queued => n \in Nat /\ n <= L
      BY <1>6, <2>2, BufferTypedNext, SeqOfEvents
    <3> QED
      BY <1>6, <2>4, <3>1, <3>2, PlaceFacts DEF Ahead
  <2>5. CASE /\ q = Queued /\ n = L /\ Buffer'[q][n] = e
             /\ m \in DOMAIN Buffer[p] /\ Buffer'[p][m] = Buffer[p][m]
    <3>1. e.kind = "action" /\ kind = "action" /\ Buffer[p][m].of = k /\ Buffer[p][m].kind = "closed"
      BY <1>4, <2>5
    <3>2. IsRaised(k, "closed")
      BY <2>5, <3>1 DEF Underway
    <3> QED
      BY <1>1, <3>1, <3>2
  <2> QED
    BY <2>1, <2>2, <2>3, <2>4, <2>5
<1> QED
  BY <1>9, <1>10, <1>11

\* The events under way stay apart, in order and on their way.
LEMMA UnderwayStep ==
    ASSUME HubTypeOK, HubTypeOK', Gate, Latest, Done, Begun, Endpoints, Underway, Once, InOrder,
           Told, [HubNext]_hubVars
    PROVE  Underway' /\ Once' /\ InOrder'
<1>1. CASE \E id \in Ids : Act(id) \/ Close(id)
  BY <1>1, RaiseKeeps
<1>2. CASE BuffersCarried
  <2>1. ASSUME NEW p \in Places, NEW n \in DOMAIN Buffer'[p]
        PROVE  LET e == Buffer'[p][n] IN e \in Events /\ e.of \in Shows /\ ~IsTold(e.of, e.kind)
                                         /\ e.id = shows[e.of].id
    <3>1. PICK from, nth : Carried(from, nth)
      BY <1>2 DEF BuffersCarried
    <3>2. /\ from[p][n] \in Places /\ nth[p][n] \in DOMAIN Buffer[from[p][n]]
          /\ Buffer[from[p][n]][nth[p][n]] = Buffer'[p][n]
      BY <2>1, <3>1 DEF Carried
    <3>3. PICK q \in Places : \E m \in DOMAIN Buffer[q] : Buffer[q][m] = Buffer'[p][n]
      BY <3>2
    <3>4. PICK m \in DOMAIN Buffer[q] : Buffer[q][m] = Buffer'[p][n]
      BY <3>3
    <3>5. PICK e : e = Buffer[q][m]
      OBVIOUS
    <3>6. e.of \in DOMAIN shows /\ ~IsTold(e.of, e.kind) /\ e.id = shows[e.of].id
      BY <3>5 DEF Underway
    <3>7. e \in Events
      BY <3>5, BufferTyped, SeqOfEvents
    <3> QED
      BY <3>4, <3>5, <3>6, <3>7, Numbered
  <2>2. ASSUME NEW e \in Events, NEW p \in Places, NEW n \in DOMAIN Buffer'[p], Buffer'[p][n] = e
        PROVE  ~IsTold(e.of, e.kind)'
    <3>1. e.of \in Shows /\ ~IsTold(e.of, e.kind) /\ e.id = shows[e.of].id
      BY <2>1, <2>2
    <3>2. CASE delivered' = delivered
      BY <3>1, <3>2 DEF IsTold
    <3>3. ASSUME NEW k \in Shows, Route(k) PROVE ~IsTold(e.of, e.kind)'
      <4>1. PICK h : h = Head(stream[k].frames)
        OBVIOUS
      <4>2. e # h
        BY <2>2, <3>3, <4>1, RouteCarries
      <4>3. /\ h \in Events /\ 1 \in DOMAIN Buffer[Frames(k)] /\ Buffer[Frames(k)][1] = h
            /\ Frames(k) \in Places
        BY <3>3, <4>1, RouteDoes, BufferIs, PlaceFacts
      <4>4. h.id = shows[h.of].id
        BY <4>3 DEF Underway
      <4>5. ~(e.of = h.of /\ e.kind = h.kind)
        BY <3>1, <4>2, <4>3, <4>4, SameEvent
      <4> QED
        BY <3>1, <3>3, <4>1, <4>5, RouteTells
    <3> QED
      BY <3>2, <3>3, ToldSteps
  <2> QED
    BY <1>2, <2>2, CarriedKeeps
<1> QED
  BY <1>1, <1>2, BufferSteps

-----------------------------------------------------------------------------
(* What the sessions are told *)

\* A frame's notification is owned by its session, by nobody or by Boss.
LEMMA OwnerIsSession ==
    ASSUME HubTypeOK, Owned, Underway, NEW k \in Shows, stream[k].frames # <<>>,
           NEW e, e = Head(stream[k].frames), owner[e.id] \in live
    PROVE  owner[e.id] = shows[e.of].by
<1>1. stream[k].frames \in Seq(Events)
  BY DEF HubTypeOK, Streams
<1>2. 1 \in DOMAIN stream[k].frames /\ e = stream[k].frames[1] /\ e \in Events
  BY <1>1, HeadTailProperties, EmptySeq, SeqOfEvents
<1>3. 1 \in DOMAIN Buffer[Frames(k)] /\ Buffer[Frames(k)][1] = e /\ Frames(k) \in Places
  BY <1>2, BufferIs, PlaceFacts
<1>4. e.of \in DOMAIN shows /\ e.id = shows[e.of].id /\ e.id \in Ids
  BY <1>2, <1>3 DEF Underway, Events
<1>5. owner[e.id] # None
  BY HubAssumption DEF HubTypeOK
<1>6. PICK j \in DOMAIN shows : shows[j].id = e.id /\ shows[j].by = owner[e.id]
  BY <1>4, <1>5 DEF Owned
<1> QED
  BY <1>4, <1>6, Numbered DEF Owned

\* A session is told of its own notifications, and of each thing once.
LEMMA HubToldStep ==
    ASSUME HubTypeOK, Gate, Latest, Owned, Underway, Told, [HubNext]_hubVars
    PROVE  Told'
<1>1. /\ DOMAIN shows \subseteq DOMAIN shows'
      /\ \A k \in DOMAIN shows : shows'[k].by = shows[k].by
  BY ShowsStay
<1>2. ASSUME NEW k \in Shows, NEW kind, IsRaised(k, kind)
      PROVE  \E n \in DOMAIN raised'[k] : raised'[k][n] = kind
  <2>1. IsRaised(k, kind)'
    BY <1>2, RaisedStays
  <2> QED
    BY <2>1 DEF IsRaised
<1>3. ASSUME NEW k \in Shows, delivered'[k] = delivered[k]
      PROVE  /\ \A i \in DOMAIN delivered'[k] :
                   /\ k \in DOMAIN shows'
                   /\ delivered'[k][i][1] = shows'[k].by
                   /\ \E n \in DOMAIN raised'[k] : raised'[k][n] = delivered'[k][i][2]
             /\ \A i, j \in DOMAIN delivered'[k] : delivered'[k][i][2] = delivered'[k][j][2] => i = j
  BY <1>1, <1>2, <1>3 DEF Told
<1>4. ASSUME NEW j \in Shows, Route(j), NEW k \in Shows
      PROVE  /\ \A i \in DOMAIN delivered'[k] :
                   /\ k \in DOMAIN shows'
                   /\ delivered'[k][i][1] = shows'[k].by
                   /\ \E n \in DOMAIN raised'[k] : raised'[k][n] = delivered'[k][i][2]
             /\ \A i, m \in DOMAIN delivered'[k] : delivered'[k][i][2] = delivered'[k][m][2] => i = m
  <2>1. PICK e : e = Head(stream[j].frames)
    OBVIOUS
  <2>2. e \in Events /\ delivered' = Send(e) /\ stream[j].frames # <<>>
    BY <1>4, <2>1, RouteDoes
  <2>3. CASE k # e.of \/ owner[e.id] \notin live
    <3>1. delivered'[k] = delivered[k]
      BY <2>2, <2>3, SendDoes
    <3> QED
      BY <1>3, <3>1
  <2>4. CASE k = e.of /\ owner[e.id] \in live
    <3> DEFINE old == delivered[k]  new == delivered'[k]
    <3>1. /\ Len(old) \in Nat /\ DOMAIN old = 1 .. Len(old)
          /\ DOMAIN new = 1 .. Len(old) + 1
          /\ \A i \in 1 .. Len(old) : new[i] = old[i]
          /\ new[Len(old) + 1] = <<owner[e.id], e.kind>>
      BY <2>2, <2>4, SendDoes
    <3>2. owner[e.id] = shows[k].by
      BY <2>1, <2>2, <2>4, OwnerIsSession
    <3>3. /\ 1 \in DOMAIN Buffer[Frames(j)] /\ Buffer[Frames(j)][1] = e /\ Frames(j) \in Places
      BY <1>4, <2>1, RouteDoes, BufferIs, PlaceFacts
    <3>4. k \in DOMAIN shows /\ IsRaised(k, e.kind) /\ ~IsTold(k, e.kind)
      BY <2>4, <3>3 DEF Underway
    <3>5. /\ \A i \in DOMAIN old : old[i][1] = shows[k].by /\ IsRaised(k, old[i][2]) /\ old[i][2] # e.kind
          /\ \A i, m \in DOMAIN old : old[i][2] = old[m][2] => i = m
      BY <3>4 DEF Told, IsTold
    <3>6. <<owner[e.id], e.kind>>[1] = owner[e.id] /\ <<owner[e.id], e.kind>>[2] = e.kind
      OBVIOUS
    <3> HIDE DEF old, new
    <3>7. ASSUME NEW i \in DOMAIN new
          PROVE  \/ i \in DOMAIN old /\ new[i] = old[i]
                 \/ i = Len(old) + 1 /\ new[i][1] = shows[k].by /\ new[i][2] = e.kind
      BY <3>1, <3>2, <3>6, <3>7
    <3>8. ASSUME NEW i \in DOMAIN new
          PROVE  new[i][1] = shows[k].by /\ IsRaised(k, new[i][2])
      BY <3>4, <3>5, <3>7
    <3>9. ASSUME NEW i \in DOMAIN new, NEW m \in DOMAIN new, new[i][2] = new[m][2]
          PROVE  i = m
      BY <3>5, <3>7, <3>9
    <3>10. k \in DOMAIN shows' /\ shows'[k].by = shows[k].by
      BY <1>1, <3>4
    <3>11. \A i \in DOMAIN new : new[i][1] = shows'[k].by /\ \E n \in DOMAIN raised'[k] : raised'[k][n] = new[i][2]
      BY <1>2, <3>8, <3>10
    <3> QED
      BY <3>9, <3>10, <3>11 DEF new
  <2> QED
    BY <2>3, <2>4
<1>5. CASE delivered' = delivered
  BY <1>3, <1>5 DEF Told, IsRaised
<1>6. CASE \E j \in Shows : Route(j)
  BY <1>4, <1>6 DEF Told, IsRaised
<1> QED
  BY <1>5, <1>6, ToldSteps

\* The invariant holds at first.
LEMMA HubInvInit ==
    ASSUME HubInit PROVE HubInv
<1> USE DEF HubInit
<1>1. /\ \A s \in {Kinds, Events, Presentations} : <<>> \in Seq(s)
      /\ DOMAIN <<>> = {} /\ Len(<<>>) = 0
  BY EmptySeq
<1>2. NoWork.pc = "free" /\ NoEndpoint.stream = 0 /\ ~NoEndpoint.active /\ NoEndpoint.staged = <<>>
  BY DEF NoWork, NoEndpoint
<1>3. NewStream \in Streams /\ NewStream.frames = <<>> /\ ~NewStream.activate
  BY <1>1 DEF NewStream, Streams
<1> DEFINE shut == [NewStream EXCEPT !.open = FALSE]
<1>4. shut \in Streams /\ shut.frames = <<>> /\ ~shut.activate
  BY <1>3 DEF Streams
<1>5. stream = [k \in Shows |-> shut]
  OBVIOUS
<1> HIDE DEF shut
<1>6. HubTypeOK
  <2>1. NoEndpoint \in Ends /\ 0 \in 0 .. MaxShown /\ <<>> \in Seq(Owners \X Kinds)
    BY <1>1, EmptySeq, HubAssumption DEF NoEndpoint, Ends
  <2>2. Len(shows) <= MaxShown
    BY <1>1, HubAssumption
  <2> QED
    BY <1>1, <1>4, <1>5, <2>1, <2>2 DEF HubTypeOK
<1>7. Gate /\ Untouched
  BY <1>2 DEF Gate, Untouched
<1>8. Owned /\ Latest
  BY <1>1 DEF Owned, Latest
<1>9. Done
  BY DEF Done, Orders
<1>10. \A p \in Places : Buffer[p] = <<>>
  BY <1>2, <1>4, <1>5, BufferIs, PlaceKinds
<1>11. Underway /\ Once /\ InOrder
  <2>1. \A p \in Places : DOMAIN Buffer[p] = {}
    BY <1>1, <1>10
  <2> QED
    BY <2>1 DEF Underway, Once, InOrder
<1>12. Endpoints
  BY <1>1, <1>2 DEF Endpoints
<1>13. Begun
  BY <1>4, <1>5 DEF Begun
<1>14. Told
  BY <1>1 DEF Told
<1> QED
  BY <1>6, <1>7, <1>8, <1>9, <1>11, <1>12, <1>13, <1>14 DEF HubInv

\* The invariant is inductive.
LEMMA HubInvStep ==
    ASSUME HubInv, [HubNext]_hubVars
    PROVE  HubInv'
<1>1. HubTypeOK /\ Gate /\ Untouched /\ Owned /\ Latest /\ Done
  BY DEF HubInv
<1>2. Underway /\ Once /\ InOrder /\ Endpoints /\ Begun /\ Told
  BY DEF HubInv
<1>3. HubTypeOK'
  BY <1>1, <1>2, HubTypeStep
<1>4. Gate'
  BY <1>1, GateStep
<1>5. Untouched'
  BY <1>1, <1>2, UntouchedStep
<1>6. Owned'
  BY <1>1, <1>2, OwnedStep
<1>7. Latest'
  BY <1>1, LatestStep
<1>8. Done'
  BY <1>1, DoneStep
<1>9. Underway' /\ Once' /\ InOrder'
  BY <1>1, <1>2, <1>3, UnderwayStep
<1>10. Endpoints'
  BY <1>1, <1>2, EndpointsStep
<1>11. Begun'
  BY <1>1, <1>2, BegunStep
<1>12. Told'
  BY <1>1, <1>2, HubToldStep
<1> QED
  BY <1>3, <1>4, <1>5, <1>6, <1>7, <1>8, <1>9, <1>10, <1>11, <1>12 DEF HubInv

\* Whatever the server does with the ids of closed notifications, each step of
\* Boss, the presenter and the user keeps the invariant.
THEOREM HubInvariant == HubSpec => []HubInv
<1>1. HubInit => HubInv
  BY HubInvInit
<1>2. HubInv /\ [HubNext]_hubVars => HubInv'
  BY HubInvStep
<1> QED
  BY <1>1, <1>2, PTL DEF HubSpec

-----------------------------------------------------------------------------
(* Ids that no closed notification had before *)

\* Only a close raises the end of the notification it takes off the screen.
LEMMA ClosedSteps ==
    ASSUME HubTypeOK, Latest, [HubNext]_hubVars, NEW k \in Shows, IsRaised(k, "closed")'
    PROVE  \/ IsRaised(k, "closed")
           \/ \E id \in Ids :
                 /\ screen[id] = k /\ k \in DOMAIN shows /\ shows[k].id = id
                 /\ screen' = [screen EXCEPT ![id] = 0]
                 /\ shows' = shows
<1>1. CASE raised' = raised
  BY <1>1 DEF IsRaised
<1>2. ASSUME NEW id \in Ids, Act(id) \/ Close(id), ~IsRaised(k, "closed")
      PROVE  /\ screen[id] = k /\ k \in DOMAIN shows /\ shows[k].id = id
             /\ screen' = [screen EXCEPT ![id] = 0]
             /\ shows' = shows
  <2> DEFINE j == screen[id]
  <2>1. j \in DOMAIN shows /\ j \in Shows /\ shows[j].id = id
    BY <1>2, ActDoes
  <2>2. PICK kind \in Kinds :
           /\ Raise(j, kind)
           /\ \/ kind = "action" /\ screen' = screen
              \/ kind = "closed" /\ screen' = [screen EXCEPT ![id] = 0]
    BY <1>2, ActDoes
  <2> HIDE DEF j
  <2>3. raised' = [raised EXCEPT ![j] = Append(raised[j], kind)] /\ shows' = shows
    BY <2>2 DEF Raise
  <2>4. /\ raised'[j] = Append(raised[j], kind) /\ raised[j] \in Seq(Kinds)
        /\ \A i \in Shows : i # j => raised'[i] = raised[i]
    BY <2>1, <2>3 DEF HubTypeOK
  <2>5. /\ DOMAIN raised'[j] = 1 .. Len(raised[j]) + 1 /\ Len(raised[j]) \in Nat
        /\ DOMAIN raised[j] = 1 .. Len(raised[j])
        /\ \A i \in 1 .. Len(raised[j]) : raised'[j][i] = raised[j][i]
        /\ raised'[j][Len(raised[j]) + 1] = kind
    BY <2>4, AppendProperties, LenProperties
  <2>6. PICK n \in DOMAIN raised'[k] : raised'[k][n] = "closed"
    BY DEF IsRaised
  <2>7. k = j
    BY <1>2, <2>4, <2>6 DEF IsRaised
  <2>8. n = Len(raised[j]) + 1
    BY <1>2, <2>5, <2>6, <2>7 DEF IsRaised
  <2>9. kind = "closed"
    BY <2>5, <2>6, <2>7, <2>8
  <2> QED
    BY <2>1, <2>2, <2>3, <2>7, <2>9 DEF j
<1>3. CASE \E s \in Owners, replace \in Ids \cup {0} : BeginPresent(s, replace)
  BY <1>1, <1>3 DEF BeginPresent
<1>4. CASE Notify \/ Settle
  BY <1>1, <1>4 DEF Notify, Settle
<1> QED
  BY <1>1, <1>2, <1>3, <1>4, ShowSteps

\* A name the server gives to a presentation: what it shows there from then on.
LEMMA NamedSteps ==
    ASSUME HubTypeOK, Gate, Latest, Done, [HubNext]_hubVars
    PROVE  \/ /\ DOMAIN shows' = DOMAIN shows
              /\ \A k \in DOMAIN shows : shows'[k].id = shows[k].id /\ shows'[k].replace = shows[k].replace
              /\ \A id \in Ids : screen'[id] \in {screen[id], 0}
           \/ \E n : /\ DOMAIN shows' = DOMAIN shows \cup {n} /\ n \notin DOMAIN shows
                     /\ \A k \in DOMAIN shows : shows'[k] = shows[k]
                     /\ shows'[n].id = 0 /\ n \in Shows /\ ~IsRaised(n, "closed")
                     /\ screen' = screen /\ raised' = raised
           \/ \E id \in Ids :
                 /\ Notify /\ work.show \in DOMAIN shows /\ Show.id = 0 /\ ~IsRaised(work.show, "closed")
                 /\ DOMAIN shows' = DOMAIN shows
                 /\ \A k \in DOMAIN shows : k # work.show => shows'[k] = shows[k]
                 /\ shows'[work.show].id = id /\ shows'[work.show].replace = Show.replace
                 /\ screen'[id] = work.show /\ \A i \in Ids : i # id => screen'[i] = screen[i]
                 /\ raised' = raised
                 /\ \/ id = Show.replace
                    \/ /\ \A k \in DOMAIN shows : shows[k].id # id
                       /\ Show.replace # 0 => screen[Show.replace] = 0
<1>1. CASE UNCHANGED <<shows, screen, raised>>
  BY <1>1
<1>2. ASSUME NEW s \in Owners, NEW r \in Ids \cup {0}, BeginPresent(s, r)
      PROVE  \E n : /\ DOMAIN shows' = DOMAIN shows \cup {n} /\ n \notin DOMAIN shows
                    /\ \A k \in DOMAIN shows : shows'[k] = shows[k]
                    /\ shows'[n].id = 0 /\ n \in Shows /\ ~IsRaised(n, "closed")
                    /\ screen' = screen /\ raised' = raised
  <2>1. PICK n : n = Len(shows) + 1
    OBVIOUS
  <2>2. /\ DOMAIN shows' = DOMAIN shows \cup {n} /\ n \notin DOMAIN shows
        /\ \A k \in DOMAIN shows : shows'[k] = shows[k]
        /\ shows'[n].id = 0 /\ n \in Shows
    BY <1>2, <2>1, BeginDoes
  <2>3. raised[n] = <<>>
    BY <2>2 DEF Done
  <2>4. ~IsRaised(n, "closed")
    BY <2>3, EmptySeq DEF IsRaised
  <2> QED
    BY <1>2, <2>2, <2>4 DEF BeginPresent
<1>3. CASE Notify
  <2>1. work.show \in DOMAIN shows /\ Show.id = 0 /\ work.show \in Shows
    BY <1>3, AtWork DEF Notify, Stages
  <2>2. raised[work.show] = <<>>
    BY <2>1 DEF Done, Show
  <2>3. ~IsRaised(work.show, "closed")
    BY <2>2, EmptySeq DEF IsRaised
  <2>4. PICK id \in Ids :
           /\ DOMAIN shows' = DOMAIN shows
           /\ \A k \in DOMAIN shows : k # work.show => shows'[k] = shows[k]
           /\ shows'[work.show].id = id /\ shows'[work.show].replace = Show.replace
           /\ screen' = [screen EXCEPT ![id] = work.show]
           /\ \/ id = Show.replace
              \/ /\ \A k \in DOMAIN shows : shows[k].id # id
                 /\ Show.replace # 0 => screen[Show.replace] = 0
    BY <1>3, NotifyDoes
  <2>5. screen'[id] = work.show /\ \A i \in Ids : i # id => screen'[i] = screen[i]
    BY <2>4 DEF HubTypeOK
  <2>6. raised' = raised
    BY <1>3 DEF Notify
  <2> QED
    BY <1>3, <2>1, <2>3, <2>4, <2>5, <2>6
<1>4. CASE Settle
  <2>1. screen' = screen
    BY <1>4 DEF Settle
  <2> QED
    BY <1>4, <2>1, SettleDoes
<1>5. ASSUME NEW id \in Ids, Act(id) \/ Close(id)
      PROVE  shows' = shows /\ \A i \in Ids : screen'[i] \in {screen[i], 0}
  <2>1. shows' = shows /\ screen' \in {screen, [screen EXCEPT ![id] = 0]}
    BY <1>5 DEF Act, Close, Raise
  <2> QED
    BY <2>1 DEF HubTypeOK
<1> QED
  BY <1>1, <1>2, <1>3, <1>4, <1>5, ShowSteps

\* The presentations after a step are numbered, too.
LEMMA NumberedNext ==
    ASSUME HubTypeOK'
    PROVE  \A k \in DOMAIN shows' : k \in Shows
<1>1. shows' \in Seq(Presentations) /\ Len(shows') <= MaxShown
  BY DEF HubTypeOK, Presentations, Owners
<1>2. DOMAIN shows' = 1 .. Len(shows') /\ Len(shows') \in Nat
  BY <1>1, LenProperties
<1> QED
  BY <1>1, <1>2, HubAssumption DEF Shows

\* A reused id stays one.
LEMMA ReusedGrows ==
    ASSUME HubTypeOK, Gate, Latest, [HubNext]_hubVars
    PROVE  Reused \subseteq Reused'
<1> SUFFICES ASSUME NEW id \in Reused PROVE id \in Reused'
  OBVIOUS
<1>0. PICK k \in DOMAIN shows :
         id \in Ids /\ shows[k].id = id /\ \E j \in 1 .. k - 1 : shows[j].id = id /\ Closed(j)
  BY DEF Reused
<1>1. PICK j \in 1 .. k - 1 : id \in Ids /\ shows[k].id = id /\ shows[j].id = id /\ Closed(j)
  BY <1>0
<1>2. j \in DOMAIN shows /\ j \in Shows /\ id # 0
  BY <1>1, Numbered, HubAssumption
<1>3. IsRaised(j, "closed")'
  BY <1>1, <1>2, RaisedStays DEF Closed, IsRaised
<1>4. k \in DOMAIN shows' /\ shows'[k].id = id /\ shows'[j].id = id
  BY <1>1, <1>2, ShowsStay
<1> QED
  BY <1>1, <1>3, <1>4 DEF Reused, Closed, IsRaised

\* The id of a closed notification that is given out again is a reused one.
LEMMA GivenAgain ==
    ASSUME HubTypeOK, HubTypeOK', Gate, Latest, [HubNext]_hubVars, Notify, NEW id \in Ids,
           DOMAIN shows' = DOMAIN shows, shows'[work.show].id = id,
           NEW j \in DOMAIN shows, shows[j].id = id, IsRaised(j, "closed")
    PROVE  id \in Reused'
<1>1. work.show = Len(shows) /\ work.show \in DOMAIN shows /\ Show.id = 0
  BY AtWork DEF Notify, Stages
<1>2. j \in Nat /\ j # 0 /\ id # 0 /\ j \in 1 .. Len(shows) /\ Len(shows) \in Nat /\ j \in Shows
  BY Numbered, HubAssumption
<1>3. j \in 1 .. work.show - 1
  BY <1>1, <1>2 DEF Show
<1>4. shows'[j].id = id /\ IsRaised(j, "closed")'
  BY <1>2, ShowsStay, RaisedStays
<1> QED
  BY <1>1, <1>3, <1>4 DEF Reused, Closed, IsRaised

\* The end takes the notification off the screen, and nothing comes back there
\* but under a reused id.
LEMMA ClosedIsOffStep ==
    ASSUME HubTypeOK, HubTypeOK', Gate, Latest, Done, ClosedIsOff, [HubNext]_hubVars
    PROVE  ClosedIsOff'
<1> SUFFICES ASSUME NEW k \in DOMAIN shows', IsRaised(k, "closed")', shows'[k].id \notin Reused'
             PROVE  screen'[shows'[k].id] = 0
  BY DEF ClosedIsOff
<1> DEFINE Goal == screen'[shows'[k].id] = 0
<1>1. k \in Shows
  BY NumberedNext
<1>2. ASSUME NEW id \in Ids, screen[id] = k, k \in DOMAIN shows, shows[k].id = id,
             screen' = [screen EXCEPT ![id] = 0], shows' = shows
      PROVE  Goal
  BY <1>2 DEF HubTypeOK
<1>3. ASSUME IsRaised(k, "closed") PROVE Goal
  <2>1. k \in DOMAIN shows /\ shows[k].id # 0 /\ shows[k].id \in Ids /\ shows'[k].id = shows[k].id
    <3>1. raised[k] # <<>>
      BY <1>3, EmptySeq DEF IsRaised
    <3>2. k \in DOMAIN shows /\ shows[k].id # 0
      BY <1>1, <3>1 DEF Done
    <3> QED
      BY <3>2, Numbered, ShowsStay
  <2>2. screen[shows[k].id] = 0
    BY <1>3, <2>1, ReusedGrows DEF ClosedIsOff
  <2>3. ASSUME NEW id \in Ids, Notify, DOMAIN shows' = DOMAIN shows, shows'[work.show].id = id,
               \A i \in Ids : i # id => screen'[i] = screen[i]
        PROVE  Goal
    <3>1. id # shows[k].id
      BY <1>3, <2>1, <2>3, GivenAgain
    <3> QED
      BY <2>1, <2>2, <2>3, <3>1
  <2> QED
    BY <2>1, <2>2, <2>3, NamedSteps
<1> QED
  BY <1>1, <1>2, <1>3, ClosedSteps

\* Only a close takes a notification off the screen, and its end is raised.
LEMMA OffIsClosedStep ==
    ASSUME HubTypeOK, HubTypeOK', Gate, Latest, Done, OffIsClosed, [HubNext]_hubVars
    PROVE  OffIsClosed'
<1> SUFFICES ASSUME NEW j \in DOMAIN shows', shows'[j].id # 0, screen'[shows'[j].id] = 0
             PROVE  \E i \in DOMAIN shows' : shows'[i].id = shows'[j].id /\ IsRaised(i, "closed")'
  BY DEF OffIsClosed
<1> DEFINE Goal == \E i \in DOMAIN shows' : shows'[i].id = shows'[j].id /\ IsRaised(i, "closed")'
<1>1. ASSUME j \in DOMAIN shows, shows[j].id = shows'[j].id, screen[shows[j].id] = 0 PROVE Goal
  <2>1. PICK i \in DOMAIN shows : shows[i].id = shows[j].id /\ IsRaised(i, "closed")
    BY <1>1 DEF OffIsClosed
  <2>2. i \in Shows
    BY Numbered
  <2>3. IsRaised(i, "closed")'
    BY <2>1, <2>2, RaisedStays
  <2>4. i \in DOMAIN shows' /\ shows'[i].id = shows'[j].id
    BY <1>1, <2>1, ShowsStay
  <2> QED
    BY <2>3, <2>4
<1>2. ASSUME NEW id \in Ids, Act(id) \/ Close(id) PROVE Goal
  <2>0. PICK k : k = screen[id]
    OBVIOUS
  <2>1. k \in DOMAIN shows /\ k \in Shows /\ shows[k].id = id
    BY <1>2, <2>0, ActDoes
  <2>2. PICK kind \in Kinds :
           /\ Raise(k, kind)
           /\ \/ kind = "action" /\ screen' = screen
              \/ kind = "closed" /\ screen' = [screen EXCEPT ![id] = 0]
    BY <1>2, <2>0, ActDoes
  <2>3. shows' = shows /\ raised' = [raised EXCEPT ![k] = Append(raised[k], kind)]
    BY <2>2 DEF Raise
  <2>4. CASE screen[shows[j].id] = 0
    BY <1>1, <2>3, <2>4
  <2>5. CASE screen[shows[j].id] # 0
    <3>0. j \in DOMAIN shows /\ shows[j].id \in Ids /\ screen'[shows[j].id] = 0
      BY <2>3, Numbered
    <3>1. kind = "closed" /\ shows[j].id = id
      BY <2>2, <2>5, <3>0 DEF HubTypeOK
    <3>2. raised'[k] = Append(raised[k], "closed") /\ raised[k] \in Seq(Kinds)
      BY <2>1, <2>3, <3>1 DEF HubTypeOK
    <3>3. /\ DOMAIN raised'[k] = 1 .. Len(raised[k]) + 1 /\ Len(raised[k]) \in Nat
          /\ raised'[k][Len(raised[k]) + 1] = "closed"
      BY <2>2, <3>1, <3>2, AppendProperties, LenProperties
    <3>4. IsRaised(k, "closed")'
      BY <3>3 DEF IsRaised
    <3> QED
      BY <2>1, <2>3, <3>1, <3>4
  <2> QED
    BY <2>4, <2>5
<1>3. CASE Notify
  <2>1. PICK id \in Ids :
           /\ DOMAIN shows' = DOMAIN shows
           /\ \A k \in DOMAIN shows : k # work.show => shows'[k] = shows[k]
           /\ shows'[work.show].id = id
           /\ screen' = [screen EXCEPT ![id] = work.show]
    BY <1>3, NotifyDoes
  <2>2. work.show # 0 /\ work.show \in DOMAIN shows
    BY <1>3, AtWork, Numbered DEF Notify, Stages
  <2>3. screen'[id] = work.show /\ \A i \in Ids : i # id => screen'[i] = screen[i]
    BY <2>1 DEF HubTypeOK
  <2>4. shows'[j].id # id
    BY <2>2, <2>3
  <2>5. j \in DOMAIN shows /\ shows'[j] = shows[j] /\ shows[j].id \in Ids
    BY <2>1, <2>4, Numbered
  <2> QED
    BY <1>1, <2>3, <2>4, <2>5
<1>4. ASSUME NEW s \in Owners, NEW r \in Ids \cup {0}, BeginPresent(s, r) PROVE Goal
  <2>1. PICK n : n = Len(shows) + 1
    OBVIOUS
  <2>2. /\ DOMAIN shows' = DOMAIN shows \cup {n}
        /\ \A k \in DOMAIN shows : shows'[k] = shows[k]
        /\ shows'[n].id = 0
    BY <1>4, <2>1, BeginDoes
  <2>3. screen' = screen
    BY <1>4 DEF BeginPresent
  <2> QED
    BY <1>1, <2>2, <2>3
<1>5. CASE Settle
  <2>1. screen' = screen
    BY <1>5 DEF Settle
  <2> QED
    BY <1>1, <1>5, <2>1, SettleDoes
<1>6. CASE UNCHANGED <<shows, screen, raised>>
  BY <1>1, <1>6
<1> QED
  BY <1>2, <1>3, <1>4, <1>5, <1>6, ShowSteps

\* A closed presentation that did not take over its id, which was not reused,
\* is the only one of it: a later one would have reused it.
LEMMA Alone ==
    ASSUME HubTypeOK, Latest PROVE ClosedIsAlone
<1> SUFFICES ASSUME NEW j \in DOMAIN shows, NEW k \in DOMAIN shows, IsRaised(k, "closed"),
                    shows[k].id \notin {0, shows[k].replace} \cup Reused, shows[j].id = shows[k].id,
                    j # k
             PROVE  FALSE
  BY DEF ClosedIsAlone
<1>1. k <= j /\ j \in Nat /\ k \in Nat /\ k # 0
  BY Numbered DEF Latest
<1>2. k \in 1 .. j - 1
  BY <1>1
<1>3. shows[k].id \in Ids
  BY Numbered
<1> QED
  BY <1>2, <1>3 DEF Reused, Closed, IsRaised

\* What was replaced under another id stays off the screen.
LEMMA ReplacedIsOffStep ==
    ASSUME HubTypeOK, HubTypeOK', Gate, Owned, Latest, Done, OffIsClosed, ReplacedIsOff,
           [HubNext]_hubVars
    PROVE  ReplacedIsOff'
<1> SUFFICES ASSUME NEW k \in DOMAIN shows', shows'[k].id # 0,
                    shows'[k].replace \notin {0, shows'[k].id} \cup Reused'
             PROVE  screen'[shows'[k].replace] = 0
  BY DEF ReplacedIsOff
<1> DEFINE Goal == screen'[shows'[k].replace] = 0
<1>1. ASSUME k \in DOMAIN shows, shows'[k].id = shows[k].id, shows'[k].replace = shows[k].replace,
             \A id \in Ids : screen'[id] \in {screen[id], 0}
      PROVE  Goal
  <2>1. shows[k].replace \in Ids
    BY <1>1, Numbered
  <2> QED
    BY <1>1, <2>1, ReusedGrows DEF ReplacedIsOff
<1>2. ASSUME NEW id \in Ids, Notify, work.show \in DOMAIN shows, DOMAIN shows' = DOMAIN shows,
             \A i \in DOMAIN shows : i # work.show => shows'[i] = shows[i],
             shows'[work.show].id = id, shows'[work.show].replace = Show.replace,
             \A i \in Ids : i # id => screen'[i] = screen[i],
             \/ id = Show.replace
             \/ /\ \A i \in DOMAIN shows : shows[i].id # id
                /\ Show.replace # 0 => screen[Show.replace] = 0
      PROVE  Goal
  <2>1. CASE k = work.show
    <3>1. Show.replace \in Ids /\ Show.replace # id
      BY <1>2, <2>1, Numbered DEF Show
    <3> QED
      BY <1>2, <2>1, <3>1, Numbered
  <2>2. CASE k # work.show
    <3>1. shows[k].replace \in Ids /\ screen[shows[k].replace] = 0 /\ shows'[k] = shows[k]
      BY <1>2, <2>2, Numbered, ReusedGrows DEF ReplacedIsOff
    <3>2. PICK j \in 1 .. k - 1 : shows[j].id = shows[k].replace
      BY <1>2, <3>1, Numbered DEF Owned
    <3>3. j \in DOMAIN shows /\ shows[j].id # 0
      BY <1>2, <3>1, <3>2, Numbered
    <3>4. PICK i \in DOMAIN shows : shows[i].id = shows[j].id /\ IsRaised(i, "closed")
      BY <3>1, <3>2, <3>3 DEF OffIsClosed
    <3>5. id # shows[k].replace
      BY <1>2, <3>1, <3>2, <3>4, GivenAgain
    <3> QED
      BY <1>2, <3>1, <3>5
  <2> QED
    BY <2>1, <2>2
<1>3. ASSUME NEW n, DOMAIN shows' = DOMAIN shows \cup {n}, \A i \in DOMAIN shows : shows'[i] = shows[i],
             shows'[n].id = 0, screen' = screen
      PROVE  Goal
  BY <1>1, <1>3
<1> QED
  BY <1>1, <1>2, <1>3, NamedSteps

\* A thread comes to release its notification by an end it read.
LEMMA ReleasesClosedStep ==
    ASSUME HubTypeOK, Gate, Latest, Begun, Underway, ReleasesClosed, [HubNext]_hubVars
    PROVE  ReleasesClosed'
<1>1. /\ DOMAIN shows \subseteq DOMAIN shows'
      /\ \A k \in DOMAIN shows : shows[k].id # 0 => shows'[k].id = shows[k].id
  BY ShowsStay
<1> SUFFICES ASSUME NEW k \in Shows, reader'[k] = "release"
             PROVE  /\ k \in DOMAIN shows'
                    /\ \E j \in DOMAIN shows' : shows'[j].id = shows'[k].id /\ IsRaised(j, "closed")'
  BY DEF ReleasesClosed, IsRaised
<1>2. ASSUME k \in DOMAIN shows, shows[k].id # 0, NEW j \in DOMAIN shows, shows[j].id = shows[k].id,
             IsRaised(j, "closed")
      PROVE  /\ k \in DOMAIN shows'
             /\ \E i \in DOMAIN shows' : shows'[i].id = shows'[k].id /\ IsRaised(i, "closed")'
  <2>1. j \in Shows
    BY Numbered
  <2>2. IsRaised(j, "closed")'
    BY <1>2, <2>1, RaisedStays
  <2> QED
    BY <1>1, <1>2, <2>2
<1>3. CASE reader[k] = "release"
  BY <1>2, <1>3 DEF ReleasesClosed, Begun
<1>4. CASE Route(k)
  <2>1. PICK e : e = Head(stream[k].frames)
    OBVIOUS
  <2>2. Terminal(e) /\ e.kind = "closed"
    BY <1>4, <2>1, RouteDoes DEF Terminal
  <2>3. 1 \in DOMAIN Buffer[Frames(k)] /\ Buffer[Frames(k)][1] = e /\ Frames(k) \in Places
    BY <1>4, <2>1, RouteDoes, BufferIs, PlaceFacts
  <2>4. e.of \in DOMAIN shows /\ e.id = shows[e.of].id /\ IsRaised(e.of, "closed") /\ Belongs(Frames(k), e)
    BY <2>2, <2>3 DEF Underway
  <2>5. k \in DOMAIN shows /\ shows[k].id = e.id
    BY <2>4 DEF Belongs, Frames
  <2>6. shows[k].id # 0
    BY <1>4, <2>5, RouteDoes DEF Begun
  <2> QED
    BY <1>2, <2>4, <2>5, <2>6
<1>5. CASE ReaderEnds(k) \/ Release(k)
  <2>1. reader' = [reader EXCEPT ![k] = "ended"]
    BY <1>5 DEF ReaderEnds, Release
  <2>2. reader'[k] = "ended"
    BY <2>1 DEF HubTypeOK
  <2> QED
    BY <2>2
<1> QED
  BY <1>3, <1>4, <1>5, ReaderSteps
\* Nothing of a presentation is under way that was not so before, but by what
\* the user does; an action is only new to one that was not closed.
LEMMA NothingNew ==
    ASSUME HubTypeOK, HubTypeOK', Gate, Latest, Done, Begun, Endpoints, Underway, Once, Told,
           [HubNext]_hubVars, NEW k \in Shows, IsRaised(k, "closed"),
           \A p \in Places : \A n \in DOMAIN Buffer[p] : Buffer[p][n].of = k => Buffer[p][n].kind # "action",
           NEW p \in Places, NEW n \in DOMAIN Buffer'[p], Buffer'[p][n].of = k
    PROVE  Buffer'[p][n].kind # "action"
<1>1. CASE BuffersCarried
  <2>1. PICK from, nth : Carried(from, nth)
    BY <1>1 DEF BuffersCarried
  <2>2. /\ from[p][n] \in Places /\ nth[p][n] \in DOMAIN Buffer[from[p][n]]
        /\ Buffer[from[p][n]][nth[p][n]] = Buffer'[p][n]
    BY <2>1 DEF Carried
  <2> QED
    BY <2>2
<1>2. ASSUME NEW id \in Ids, Act(id) \/ Close(id) PROVE Buffer'[p][n].kind # "action"
  <2>1. PICK kind \in Kinds, j \in DOMAIN shows :
           /\ j \in Shows /\ Raise(j, kind) /\ shows[j].id = id
           /\ kind = "action" => ~IsRaised(j, "closed")
    BY <1>2, RaiseIsNew
  <2>2. PICK e : e = Event(j, kind)
    OBVIOUS
  <2>3. e \in Events /\ e.of = j /\ e.kind = kind
    BY <2>1, <2>2 DEF Event, Events
  <2>4. /\ signals' = Append(signals, e) /\ UNCHANGED <<stream, endpoint, unmatched>>
    BY <2>1, <2>2 DEF Raise
  <2>5. CASE p = Queued
    <3>1. Buffer'[p] = signals' /\ Buffer[p] = signals /\ signals \in Seq(Events)
      BY <2>5, BufferIs, BufferIsNext DEF HubTypeOK
    <3>2. (n \in DOMAIN Buffer[p] /\ Buffer'[p][n] = Buffer[p][n]) \/ Buffer'[p][n] = e
      BY <2>3, <2>4, <3>1, AppendDoes
    <3> QED
      BY <2>1, <2>3, <3>2
  <2>6. CASE p # Queued
    <3>1. Buffer'[p] = Buffer[p]
      BY <2>4, <2>6, PlaceKinds, BufferIs, BufferIsNext
    <3> QED
      BY <3>1
  <2> QED
    BY <2>5, <2>6
<1> QED
  BY <1>1, <1>2, BufferSteps

\* The end of a presentation that did not take over its id is told last.
LEMMA EndIsLastStep ==
    ASSUME HubTypeOK, HubTypeOK', Gate, Latest, Owned, Done, Begun, Endpoints, Underway, Once, InOrder,
           Told, ClosedIsAlone, EndIsLast, [HubNext]_hubVars
    PROVE  EndIsLast'
<1> SUFFICES ASSUME NEW k \in DOMAIN shows', shows'[k].id \notin {shows'[k].replace} \cup Reused',
                    IsTold(k, "closed")'
             PROVE  /\ \A p \in Places : \A n \in DOMAIN Buffer'[p] :
                          Buffer'[p][n].of = k => Buffer'[p][n].kind # "action"
                    /\ IsTold(k, "action")' =>
                          \E i, j \in DOMAIN delivered'[k] :
                              delivered'[k][i][2] = "action" /\ delivered'[k][j][2] = "closed" /\ i < j
  BY DEF EndIsLast
<1> DEFINE Goal == /\ \A p \in Places : \A n \in DOMAIN Buffer'[p] :
                          Buffer'[p][n].of = k => Buffer'[p][n].kind # "action"
                   /\ IsTold(k, "action")' =>
                          \E i, j \in DOMAIN delivered'[k] :
                              delivered'[k][i][2] = "action" /\ delivered'[k][j][2] = "closed" /\ i < j
<1>1. k \in Shows
  BY NumberedNext
<1>2. ASSUME IsRaised(k, "closed")
      PROVE  k \in DOMAIN shows /\ shows[k].id \notin {0, shows[k].replace} \cup Reused
  <2>1. raised[k] # <<>>
    BY <1>2, EmptySeq DEF IsRaised
  <2>2. k \in DOMAIN shows /\ shows[k].id # 0
    BY <1>1, <2>1 DEF Done
  <2> QED
    BY <2>2, ShowsStay, ReusedGrows
<1>3. ASSUME delivered'[k] = delivered[k] PROVE Goal
  <2>1. IsTold(k, "closed") /\ (IsTold(k, "action")' <=> IsTold(k, "action"))
    BY <1>3 DEF IsTold
  <2>2. IsRaised(k, "closed")
    BY <1>1, <2>1 DEF Told, IsTold
  <2>3. /\ \A p \in Places : \A n \in DOMAIN Buffer[p] :
              Buffer[p][n].of = k => Buffer[p][n].kind # "action"
        /\ IsTold(k, "action") =>
              \E i, j \in DOMAIN delivered[k] :
                  delivered[k][i][2] = "action" /\ delivered[k][j][2] = "closed" /\ i < j
    BY <1>2, <2>1, <2>2 DEF EndIsLast
  <2>4. \A p \in Places : \A n \in DOMAIN Buffer'[p] :
           Buffer'[p][n].of = k => Buffer'[p][n].kind # "action"
    BY <1>1, <2>2, <2>3, NothingNew
  <2> QED
    BY <1>3, <2>1, <2>3, <2>4
<1>4. ASSUME NEW j \in Shows, Route(j) PROVE Goal
  <2>1. PICK e : e = Head(stream[j].frames)
    OBVIOUS
  <2>2. e \in Events /\ delivered' = Send(e) /\ stream[j].frames # <<>>
    BY <1>4, <2>1, RouteDoes
  <2>3. CASE k # e.of \/ owner[e.id] \notin live
    <3>1. delivered'[k] = delivered[k]
      BY <1>1, <2>2, <2>3, SendDoes
    <3> QED
      BY <1>3, <3>1
  <2>4. CASE k = e.of /\ owner[e.id] \in live
    <3>1. 1 \in DOMAIN Buffer[Frames(j)] /\ Buffer[Frames(j)][1] = e /\ Frames(j) \in Places
      BY <1>4, <2>1, RouteDoes, BufferIs, PlaceFacts
    <3>2. /\ k \in DOMAIN shows /\ e.id = shows[k].id /\ IsRaised(k, e.kind) /\ ~IsTold(k, e.kind)
          /\ Belongs(Frames(j), e)
      BY <2>4, <3>1 DEF Underway
    <3>3. j \in DOMAIN shows /\ shows[j].id = shows[k].id
      BY <3>2 DEF Belongs, Frames
    <3>4. e.kind = "closed"
      <4>1. CASE e.kind = "action"
        <5>1. IsTold(k, "closed")
          BY <1>1, <1>4, <2>1, <4>1, RouteTells
        <5>2. IsRaised(k, "closed")
          BY <1>1, <5>1 DEF Told, IsTold
        <5> QED
          BY <1>2, <2>4, <3>1, <4>1, <5>1, <5>2 DEF EndIsLast
      <4> QED
        BY <2>2, <4>1 DEF Events, Kinds
    <3>5. shows[k].id \notin {0, shows[k].replace} \cup Reused /\ IsRaised(k, "closed")
      BY <1>2, <3>2, <3>4
    <3>6. ASSUME NEW p \in Places, NEW n \in DOMAIN Buffer'[p], Buffer'[p][n].of = k,
                 Buffer'[p][n].kind = "action"
          PROVE  FALSE
      <4>1. PICK from, nth : Carried(from, nth)
        BY <1>4, RouteCarries DEF BuffersCarried
      <4>2. PICK q \in Places : q = from[p][n]
        BY <4>1 DEF Carried
      <4>3. PICK m \in DOMAIN Buffer[q] : Buffer[q][m] = Buffer'[p][n]
        BY <4>1, <4>2 DEF Carried
      <4>4. Buffer[q][m].of = k /\ Buffer[q][m].kind = "action" /\ Belongs(q, Buffer[q][m])
            /\ Buffer[q][m].id = shows[k].id
        BY <3>6, <4>3 DEF Underway
      <4>5. ~Ahead(Frames(j), 1, q, m)
        BY <2>4, <3>1, <3>4, <4>4 DEF InOrder
      <4>6. Rank(q) = 1
        BY <4>5, PlaceKinds, PlaceFacts DEF Ahead
      <4>7. PICK i \in Shows : q = Frames(i)
        BY <4>6, PlaceKinds, PlaceFacts
      <4>8. i \in DOMAIN shows /\ shows[i].id = shows[k].id
        BY <4>4, <4>7 DEF Belongs, Frames
      <4>9. i = k /\ j = k
        BY <3>2, <3>3, <3>5, <4>8 DEF ClosedIsAlone
      <4>10. Buffer[q] \in Seq(Events)
        BY BufferTyped
      <4>11. m \in Nat /\ m # 0
        BY <4>10, SeqOfEvents
      <4>12. m = 1
        BY <4>5, <4>7, <4>9, <4>11 DEF Ahead
      <4> QED
        BY <3>1, <3>4, <4>4, <4>7, <4>9, <4>12
    <3>7. ASSUME IsTold(k, "action")'
          PROVE  \E i, m \in DOMAIN delivered'[k] :
                    delivered'[k][i][2] = "action" /\ delivered'[k][m][2] = "closed" /\ i < m
      <4> DEFINE old == delivered[k]  new == delivered'[k]
      <4>1. /\ Len(old) \in Nat /\ DOMAIN old = 1 .. Len(old)
            /\ DOMAIN new = 1 .. Len(old) + 1
            /\ \A i \in 1 .. Len(old) : new[i] = old[i]
            /\ new[Len(old) + 1] = <<owner[e.id], e.kind>>
        BY <2>2, <2>4, SendDoes
      <4>2. <<owner[e.id], e.kind>>[2] = "closed"
        BY <3>4
      <4>3. \E i \in DOMAIN old : old[i][2] = "action"
        <5>1. IsTold(k, "action")
          BY <1>1, <1>4, <2>1, <3>4, <3>7, RouteTells
        <5> QED
          BY <5>1 DEF IsTold
      <4> HIDE DEF old, new
      <4>4. PICK i \in DOMAIN old : old[i][2] = "action"
        BY <4>3
      <4>5. i < Len(old) + 1 /\ i \in DOMAIN new /\ Len(old) + 1 \in DOMAIN new /\ new[i] = old[i]
        BY <4>1
      <4>6. new[i][2] = "action" /\ new[Len(old) + 1][2] = "closed"
        BY <4>1, <4>2, <4>4, <4>5
      <4> QED
        BY <4>5, <4>6 DEF new
    <3> QED
      BY <3>6, <3>7
  <2> QED
    BY <2>3, <2>4
<1> QED
  BY <1>3, <1>4, ToldSteps

-----------------------------------------------------------------------------
(* The way back of what is shown *)

\* While an id shows something, no end of its notification is under way, and no
\* thread is about to release it.
LEMMA ShownHasNoEnd ==
    ASSUME HubTypeOK, Begun, Underway, ClosedIsOff, ReleasesClosed, NEW id \in Ids \ Reused, screen[id] # 0
    PROVE  /\ \A p \in Places : \A n \in DOMAIN Buffer[p] :
                 Buffer[p][n].id = id => ~Terminal(Buffer[p][n])
           /\ \A k \in DOMAIN shows : shows[k].id = id => reader[k] # "release"
<1>1. ASSUME NEW k \in DOMAIN shows, shows[k].id = id PROVE ~IsRaised(k, "closed")
  BY <1>1 DEF ClosedIsOff
<1>2. ASSUME NEW p \in Places, NEW n \in DOMAIN Buffer[p], Buffer[p][n].id = id
      PROVE  ~Terminal(Buffer[p][n])
  <2>1. /\ Buffer[p][n].of \in DOMAIN shows /\ shows[Buffer[p][n].of].id = id
        /\ IsRaised(Buffer[p][n].of, Buffer[p][n].kind)
    BY <1>2 DEF Underway
  <2> QED
    BY <1>1, <2>1 DEF Terminal
<1>3. ASSUME NEW k \in DOMAIN shows, shows[k].id = id PROVE reader[k] # "release"
  BY <1>1, <1>3, Numbered DEF ReleasesClosed
<1> QED
  BY <1>2, <1>3

\* What a step that ends a presentation's work without settling it touches.
LEMMA WorkEnds ==
    ASSUME HubTypeOK, Gate, [HubNext]_hubVars, work # NoWork, work' = NoWork
    PROVE  Settle \/ (Show.id \in spoiled' /\ shows' = shows)
<1>1. Show.id \in Ids \cup {0}
  BY WorkTyped, Numbered DEF Show
<1>2. CASE PresentFails \/ PresentTimesOut
  <2>1. Abandon /\ shows' = shows
    BY <1>2 DEF PresentFails, PresentTimesOut
  <2> QED
    BY <2>1, AbandonDoes
<1>3. CASE ActivateFails
  <2>1. shows' = shows
    BY <1>3 DEF ActivateFails
  <2> QED
    BY <1>3, <2>1, ActivateFailsDoes
<1>4. CASE Register
  <2>1. shows' = shows
    BY <1>4 DEF Register
  <2>2. ASSUME Registered PROVE FALSE
    BY <2>2 DEF Registered, NoWork, Works
  <2>3. Refused
    BY <1>4, <2>2, RegisterDoes
  <2> QED
    BY <2>1, <2>3 DEF Refused
<1>5. CASE PresenterRestarts
  <2>1. shows' = shows
    BY <1>5 DEF PresenterRestarts
  <2> QED
    BY <1>1, <1>5, <2>1, RestartDoes
<1>6. ASSUME Activate PROVE FALSE
  BY <1>6, ActivatesDoes DEF NoWork, Works
<1>7. ASSUME Notify \/ Acknowledge PROVE FALSE
  <2>1. work # NoWork /\ work \in Works
    BY WorkTyped
  <2>2. work' = [work EXCEPT !.pc = "endpoint"] \/ work' = [work EXCEPT !.pc = "register"]
    BY <1>7 DEF Notify, Acknowledge
  <2>3. work'.pc # "free"
    BY <2>1, <2>2 DEF Works, Stages
  <2> QED
    BY <2>3 DEF NoWork
<1>8. CASE UNCHANGED work
  BY <1>8
<1>9. ASSUME NEW s \in Owners, NEW r \in Ids \cup {0}, BeginPresent(s, r) PROVE FALSE
  BY <1>9 DEF BeginPresent
<1>10. CASE UNCHANGED hubVars
  BY <1>8, <1>10 DEF hubVars
<1>11. CASE \E s \in ModuleSessions : SessionEnds(s)
  BY <1>8, <1>11 DEF SessionEnds
<1>12. CASE ForwardSignal
  BY <1>8, <1>12 DEF ForwardSignal
<1>13. CASE \E k \in Shows : Route(k) \/ Release(k) \/ ReaderEnds(k)
  BY <1>8, <1>13 DEF Route, Release, ReaderEnds
<1>14. CASE \E k \in Shows : LateEndpoint(k) \/ ReceiveActivate(k) \/ ForgetStream(k)
  BY <1>8, <1>14 DEF LateEndpoint, ReceiveActivate, ForgetStream
<1>15. CASE \E i \in Ids : Act(i) \/ Close(i)
  BY <1>8, <1>15 DEF Act, Close, Raise
<1> QED
  BY <1>2, <1>3, <1>4, <1>5, <1>6, <1>7, <1>9, <1>10, <1>11, <1>12, <1>13, <1>14, <1>15, HubSteps

\* An endpoint that is not the shown presentation's is not installed over its own.
LEMMA NoOtherInstall ==
    ASSUME HubTypeOK, HubTypeOK', Gate, Latest, Begun, Endpoints, [HubNext]_hubVars, NEW id \in Ids, id \notin spoiled,
           screen[id] # 0, endpoint[id].stream = screen[id], NEW j, Installs(j)
    PROVE  shows[j].id # id
<1> SUFFICES ASSUME shows[j].id = id PROVE FALSE
  OBVIOUS
<1>1. j \in DOMAIN shows
  BY DEF Installs
<1>2. CASE j \in late
  BY <1>2 DEF Begun
<1>3. CASE Acknowledge /\ j = work.show
  <2>1. work.pc = "endpoint" /\ work.show = Len(shows)
    BY <1>3, AtWork DEF Acknowledge, Presenting, Stages
  <2>2. j <= screen[id] /\ screen[id] \in DOMAIN shows
    BY <1>1 DEF Latest
  <2>3. j = screen[id]
    BY <1>1, <1>3, <2>1, <2>2, Numbered
  <2> QED
    BY <1>3, <2>1, <2>3 DEF Endpoints
<1> QED
  BY <1>2, <1>3 DEF Installs

\* The stream of what is shown stays open.
LEMMA OpenStays ==
    ASSUME HubTypeOK, HubTypeOK', Gate, Latest, Begun, Endpoints, Underway, ClosedIsOff,
           ReleasesClosed, [HubNext]_hubVars,
           NEW id \in Ids \ Reused, id \notin spoiled', screen[id] # 0,
           endpoint[id].stream = screen[id], stream[screen[id]].open
    PROVE  stream'[screen[id]].open
<1>1. PICK k : k = screen[id]
  OBVIOUS
<1>2. k \in DOMAIN shows /\ shows[k].id = id /\ k \in Shows /\ k # 0 /\ id # 0
  BY <1>1, Numbered DEF Latest
<1>3. id \notin spoiled
  BY SpoiledStays
<1>4. ASSUME k = work.show, PresentFails \/ PresentTimesOut \/ ActivateFails \/ (Register /\ Refused)
      PROVE  FALSE
  <2>1. CASE PresentFails \/ PresentTimesOut
    <3>1. work # NoWork /\ Abandon
      BY <2>1, AtWork DEF PresentFails, PresentTimesOut, Stages
    <3> QED
      BY <1>2, <1>4, <3>1, AbandonDoes DEF Show
  <2>2. CASE ActivateFails
    BY <1>2, <1>4, <2>2, ActivateFailsDoes DEF Show
  <2>3. CASE Refused
    BY <1>2, <1>4, <2>3 DEF Show, Refused
  <2> QED
    BY <1>4, <2>1, <2>2, <2>3
<1>5. ASSUME Register, k = pending[Show.id] PROVE FALSE
  BY <1>2, <1>5, RegisterDoes DEF Begun
<1>6. ASSUME Route(k), Terminal(Head(stream[k].frames)) PROVE FALSE
  <2>1. PICK e : e = Head(stream[k].frames)
    OBVIOUS
  <2>2. 1 \in DOMAIN Buffer[Frames(k)] /\ Buffer[Frames(k)][1] = e /\ Frames(k) \in Places
    BY <1>2, <1>6, <2>1, RouteDoes, BufferIs, PlaceFacts
  <2>3. Belongs(Frames(k), e)
    BY <2>2 DEF Underway
  <2>4. e.id = id
    BY <1>2, <2>3 DEF Belongs, Frames
  <2> QED
    BY <1>6, <2>1, <2>2, <2>4, ShownHasNoEnd
<1>7. ASSUME Release(k) PROVE FALSE
  BY <1>2, <1>7, ShownHasNoEnd DEF Release
<1>8. ASSUME NEW j \in DOMAIN shows, Installs(j), k = endpoint[shows[j].id].stream PROVE FALSE
  <2>1. shows[j].id \in Ids
    BY <1>8, Numbered DEF Installs
  <2>2. shows[j].id = id
    BY <1>2, <1>8, <2>1 DEF Endpoints
  <2> QED
    BY <1>1, <1>3, <1>8, <2>2, NoOtherInstall
<1>9. ASSUME NEW e \in Events, ForwardSignal, e = Head(signals), Terminal(e), k = endpoint[e.id].stream
      PROVE  FALSE
  <2>1. e.id \in Ids
    BY <1>9 DEF Events
  <2>2. e.id = id
    BY <1>2, <1>9, <2>1 DEF Endpoints
  <2>3. 1 \in DOMAIN Buffer[Queued] /\ Buffer[Queued][1] = e
    BY <1>9, SignalTaken, BufferIs DEF ForwardSignal
  <2> QED
    BY <1>9, <2>2, <2>3, PlaceFacts, ShownHasNoEnd
<1>10. ASSUME NEW i \in DOMAIN endpoint[id].staged, Terminal(endpoint[id].staged[i]) PROVE FALSE
  <2>1. i \in DOMAIN Buffer[Staging(id)] /\ Buffer[Staging(id)][i] = endpoint[id].staged[i]
        /\ Staging(id) \in Places
    BY <1>10, BufferIs, PlaceFacts
  <2>2. Belongs(Staging(id), endpoint[id].staged[i])
    BY <2>1 DEF Underway
  <2>3. endpoint[id].staged[i].id = id
    BY <2>2 DEF Belongs, Staging
  <2> QED
    BY <1>10, <2>1, <2>3, ShownHasNoEnd
<1>11. ASSUME PresenterRestarts PROVE FALSE
  BY <1>11, RestartDoes
<1>12. ~Shuts(k)
  BY <1>2, <1>4, <1>5, <1>6, <1>7, <1>8, <1>9, <1>10, <1>11 DEF Shuts
<1> QED
  BY <1>1, <1>2, <1>12, OpenSteps

\* The endpoint of what is shown stays, and stays active.
LEMMA EndStays ==
    ASSUME HubTypeOK, HubTypeOK', Gate, Latest, Begun, Endpoints, Underway, ClosedIsOff,
           ReleasesClosed, [HubNext]_hubVars,
           NEW id \in Ids \ Reused, id \notin spoiled', screen[id] # 0,
           endpoint[id].stream = screen[id], stream[screen[id]].open
    PROVE  /\ endpoint'[id].stream = screen[id]
           /\ endpoint[id].active => endpoint'[id].active
           /\ \A k \in Shows : ReceiveActivate(k) /\ k = screen[id] => endpoint'[id].active
<1> DEFINE Goal == /\ endpoint'[id].stream = screen[id]
                   /\ endpoint[id].active => endpoint'[id].active
                   /\ \A k \in Shows : ReceiveActivate(k) /\ k = screen[id] => endpoint'[id].active
<1>1. PICK k : k = screen[id]
  OBVIOUS
<1>2. k \in DOMAIN shows /\ shows[k].id = id /\ k \in Shows /\ k # 0 /\ id # 0
  BY <1>1, Numbered DEF Latest
<1>3. id \notin spoiled
  BY SpoiledStays
<1>4. ASSUME NEW j \in Shows, ReceiveActivate(j)
      PROVE  /\ endpoint'[id].stream = k
             /\ endpoint[id].active => endpoint'[id].active
             /\ j = k => endpoint'[id].active
  <2>1. j \in DOMAIN shows /\ shows[j].id # 0
    BY <1>4 DEF ReceiveActivate, Begun
  <2>2. \/ Released(j)
        \/ endpoint[shows[j].id].stream # j /\ endpoint' = endpoint
    BY <1>4, <2>1, ActivateDoes
  <2>3. CASE endpoint[shows[j].id].stream # j /\ endpoint' = endpoint
    BY <1>1, <1>2, <2>3
  <2>4. CASE Released(j)
    <3> DEFINE own == shows[j].id
               closed == \E i \in DOMAIN endpoint[own].staged : Terminal(endpoint[own].staged[i])
               new == [stream |-> j, active |-> TRUE, staged |-> <<>>]
    <3>1. /\ endpoint[own].stream = j
          /\ endpoint' = IF closed THEN [endpoint EXCEPT ![own] = NoEndpoint]
                         ELSE [endpoint EXCEPT ![own] = new]
      BY <2>4 DEF Released
    <3>2. own = id => ~closed
      <4> SUFFICES ASSUME own = id, NEW i \in DOMAIN endpoint[id].staged, Terminal(endpoint[id].staged[i])
                   PROVE  FALSE
        OBVIOUS
      <4>1. i \in DOMAIN Buffer[Staging(id)] /\ Buffer[Staging(id)][i] = endpoint[id].staged[i]
            /\ Staging(id) \in Places
        BY BufferIs, PlaceFacts
      <4>2. Belongs(Staging(id), endpoint[id].staged[i])
        BY <4>1 DEF Underway
      <4>3. endpoint[id].staged[i].id = id
        BY <4>2 DEF Belongs, Staging
      <4> QED
        BY <4>1, <4>3, ShownHasNoEnd
    <3>3. own \in Ids /\ new.stream = j /\ new.active
      BY <2>1, Numbered
    <3> HIDE DEF closed, new
    <3>4. own = id => endpoint'[id] = new
      BY <3>1, <3>2, <3>3 DEF HubTypeOK
    <3>5. own # id => endpoint'[id] = endpoint[id]
      BY <3>1, <3>3 DEF HubTypeOK
    <3> QED
      BY <1>1, <1>2, <3>1, <3>3, <3>4, <3>5
  <2> QED
    BY <2>2, <2>3, <2>4
<1>5. ASSUME endpoint' = endpoint, ~\E j \in Shows : ReceiveActivate(j) PROVE Goal
  BY <1>5
<1>6. ASSUME NEW j \in DOMAIN shows, Installs(j), ~\E i \in Shows : ReceiveActivate(i) PROVE Goal
  <2>1. shows[j].id # id
    BY <1>3, <1>6, NoOtherInstall
  <2>2. j \in DOMAIN shows /\ shows[j].id # 0 /\ InstallEndpoint(j)
    BY <1>6 DEF Installs
  <2>3. endpoint'[id] = endpoint[id]
    <3>1. \A i \in Ids : i # shows[j].id => endpoint'[i] = endpoint[i]
      BY <2>2, InstallDoes
    <3> QED
      BY <2>1, <3>1
  <2> QED
    BY <1>6, <2>3
<1>7. ASSUME ForwardSignal, ~\E j \in Shows : ReceiveActivate(j) PROVE Goal
  <2>1. PICK e : e = Head(signals)
    OBVIOUS
  <2>2. e \in Events /\ e.id \in Ids
    BY <1>7, <2>1, SignalTaken DEF ForwardSignal
  <2>3. Unclaimed(e) \/ Staged(e) \/ Forwarded(e)
    BY <1>7, <2>1, ForwardDoes
  <2>4. CASE Unclaimed(e) \/ Staged(e)
    BY <1>7, <2>4 DEF Unclaimed, Staged
  <2>5. CASE Forwarded(e)
    <3>1. 1 \in DOMAIN Buffer[Queued] /\ Buffer[Queued][1] = e
      BY <1>7, <2>1, SignalTaken, BufferIs DEF ForwardSignal
    <3>2. e.id = id => ~Terminal(e)
      BY <3>1, PlaceFacts, ShownHasNoEnd
    <3>3. endpoint' = IF Terminal(e) THEN [endpoint EXCEPT ![e.id] = NoEndpoint] ELSE endpoint
      BY <2>5 DEF Forwarded
    <3>4. endpoint'[id] = endpoint[id]
      BY <2>2, <3>2, <3>3 DEF HubTypeOK
    <3> QED
      BY <1>7, <3>4
  <2> QED
    BY <2>3, <2>4, <2>5
<1>8. ASSUME NEW j \in Shows, ForgetStream(j), ~\E i \in Shows : ReceiveActivate(i) PROVE Goal
  <2>1. /\ endpoint[shows[j].id].stream = j /\ ~stream[j].open
        /\ endpoint' = [endpoint EXCEPT ![shows[j].id] = NoEndpoint]
    BY <1>8 DEF ForgetStream
  <2>2. shows[j].id # id
    BY <2>1
  <2>3. endpoint'[id] = endpoint[id]
    BY <2>1, <2>2 DEF HubTypeOK
  <2> QED
    BY <1>8, <2>3
<1>9. ASSUME PresenterRestarts PROVE FALSE
  BY <1>9, RestartDoes
<1>10. CASE \E j \in Shows : ReceiveActivate(j)
  BY <1>1, <1>4, <1>10
<1>11. ASSUME Acknowledge \/ \E j \in Shows : LateEndpoint(j)
       PROVE  \E j \in DOMAIN shows : Installs(j)
  BY <1>11, InstallsDoes
<1> QED
  BY <1>5, <1>6, <1>7, <1>8, <1>9, <1>10, <1>11, EndSteps

\* An Activate frame stays on its way until the presenter takes it.
LEMMA ActivateStays ==
    ASSUME HubTypeOK, Gate, Begun, [HubNext]_hubVars, NEW k \in Shows, k \in DOMAIN shows, stream[k].activate
    PROVE  stream'[k].activate \/ ReceiveActivate(k) \/ PresenterRestarts
<1>1. CASE UNCHANGED stream
  BY <1>1
<1>2. ASSUME NEW s \in Owners, NEW r \in Ids \cup {0}, BeginPresent(s, r)
      PROVE  stream'[k].activate
  <2>1. PICK n : n = Len(shows) + 1
    OBVIOUS
  <2>2. k # n
    BY <2>1, Numbered
  <2> QED
    BY <1>2, <2>1, <2>2, BeginStreams
<1>3. CASE PresentFails \/ PresentTimesOut
  <2>1. work # NoWork /\ Abandon
    BY <1>3, AtWork DEF PresentFails, PresentTimesOut, Stages
  <2> QED
    BY <1>3, <2>1, AbandonDoes DEF ShutOnly
<1>4. CASE Register
  <2>1. Registered \/ Refused
    BY <1>4, RegisterDoes
  <2> QED
    BY <1>4, <2>1 DEF Registered, Refused, ShutOnly
<1>5. CASE Activate
  BY <1>5, ActivatesDoes
<1>6. CASE ActivateFails
  BY <1>6, ActivateFailsDoes DEF ShutOnly
<1>7. ASSUME NEW j \in Shows, Route(j) PROVE stream'[k].activate
  <2>1. PICK e : e = Head(stream[j].frames)
    OBVIOUS
  <2>2. /\ j # k => stream'[k] = stream[k]
        /\ stream'[j].activate = stream[j].activate
    BY <1>7, <2>1, RouteDoes
  <2> QED
    BY <2>2
<1>8. ASSUME NEW j \in Shows, Release(j) PROVE stream'[k].activate
  <2>1. stream' = Shut(stream, {j})
    BY <1>8 DEF Release
  <2> QED
    BY <2>1, ShutIsOnly DEF ShutOnly
<1>9. ASSUME Acknowledge \/ \E j \in Shows : LateEndpoint(j) PROVE stream'[k].activate
  <2>1. PICK j \in DOMAIN shows : Installs(j)
    BY <1>9, InstallsDoes
  <2>2. InstallEndpoint(j)
    BY <2>1 DEF Installs
  <2> QED
    BY <2>2, InstallShuts DEF ShutOnly
<1>10. CASE ForwardSignal
  <2>1. PICK e : e = Head(signals)
    OBVIOUS
  <2>2. Unclaimed(e) \/ Staged(e) \/ Forwarded(e)
    BY <1>10, <2>1, ForwardDoes
  <2>3. CASE Unclaimed(e) \/ Staged(e)
    BY <2>3 DEF Unclaimed, Staged
  <2>4. CASE Forwarded(e)
    BY <2>4 DEF Forwarded
  <2> QED
    BY <2>2, <2>3, <2>4
<1>11. ASSUME NEW j \in Shows, ReceiveActivate(j), j # k PROVE stream'[k].activate
  <2>1. j \in DOMAIN shows /\ shows[j].id # 0
    BY <1>11 DEF ReceiveActivate, Begun
  <2> QED
    BY <1>11, <2>1, ActivateDoes
<1>12. CASE UNCHANGED hubVars \/ \E s \in ModuleSessions : SessionEnds(s)
  BY <1>1, <1>12 DEF hubVars, SessionEnds
<1>13. CASE Settle \/ Notify
  BY <1>1, <1>13 DEF Settle, Notify
<1>14. CASE \E j \in Shows : ReaderEnds(j) \/ ForgetStream(j)
  BY <1>1, <1>14 DEF ReaderEnds, ForgetStream
<1>15. CASE \E i \in Ids : Act(i) \/ Close(i)
  BY <1>1, <1>15 DEF Act, Close, Raise
<1> QED
  BY <1>2, <1>3, <1>4, <1>5, <1>6, <1>7, <1>8, <1>9, <1>10, <1>11, <1>12, <1>13, <1>14, <1>15, HubSteps

\* What takes an id from its owner.
LEMMA OwnerLost ==
    ASSUME HubTypeOK, Gate, Begun, [HubNext]_hubVars, NEW id \in Ids
    PROVE  \/ owner'[id] = owner[id]
           \/ Register /\ Registered /\ id = Show.id /\ owner'[id] = Show.by
           \/ ActivateFails /\ id = Show.id /\ id \in spoiled'
           \/ Settle /\ id = Show.replace /\ id # Show.id
           \/ \E s \in ModuleSessions : s \notin live' /\ owner[id] = s
           \/ \E k \in Shows : reader[k] = "release" /\ shows[k].id = id
<1> DEFINE Goal ==
           \/ owner'[id] = owner[id]
           \/ Register /\ Registered /\ id = Show.id /\ owner'[id] = Show.by
           \/ ActivateFails /\ id = Show.id /\ id \in spoiled'
           \/ Settle /\ id = Show.replace /\ id # Show.id
           \/ \E s \in ModuleSessions : s \notin live' /\ owner[id] = s
           \/ \E k \in Shows : reader[k] = "release" /\ shows[k].id = id
<1>1. CASE UNCHANGED hubVars
  BY <1>1 DEF hubVars
<1>2. ASSUME NEW s \in ModuleSessions, SessionEnds(s) PROVE Goal
  <2>1. live' = live \ {s} /\ owner'[id] = IF owner[id] = s THEN None ELSE owner[id]
    BY <1>2 DEF SessionEnds
  <2> QED
    BY <2>1
<1>3. CASE PresentFails \/ PresentTimesOut \/ Activate
  BY <1>3 DEF PresentFails, PresentTimesOut, Activate
<1>4. CASE Notify \/ Acknowledge \/ ForwardSignal \/ PresenterRestarts
  BY <1>4 DEF Notify, Acknowledge, ForwardSignal, PresenterRestarts
<1>5. ASSUME NEW k \in Shows, Route(k) \/ Release(k) \/ ReaderEnds(k) PROVE Goal
  <2>1. CASE Release(k)
    <3>1. owner' = [owner EXCEPT ![shows[k].id] = None] /\ reader[k] = "release"
      BY <2>1 DEF Release
    <3> QED
      BY <3>1 DEF HubTypeOK
  <2> QED
    BY <1>5, <2>1 DEF Route, ReaderEnds
<1>6. CASE \E k \in Shows : LateEndpoint(k) \/ ReceiveActivate(k) \/ ForgetStream(k)
  BY <1>6 DEF LateEndpoint, ReceiveActivate, ForgetStream
<1>7. CASE \E i \in Ids : Act(i) \/ Close(i)
  BY <1>7 DEF Act, Close, Raise
<1>8. CASE \E s \in Owners, replace \in Ids \cup {0} : BeginPresent(s, replace)
  BY <1>8 DEF BeginPresent
<1>9. CASE ActivateFails
  BY <1>9, ActivateFailsDoes
<1>10. CASE Settle
  BY <1>10, SettleDoes
<1>11. CASE Register
  <2>1. CASE Registered
    <3>1. owner' = [owner EXCEPT ![Show.id] = Show.by]
      BY <2>1 DEF Registered
    <3> QED
      BY <1>11, <2>1, <3>1 DEF HubTypeOK
  <2>2. CASE Refused
    BY <2>2 DEF Refused
  <2> QED
    BY <1>11, <2>1, <2>2, RegisterDoes
<1> QED
  BY <1>1, <1>2, <1>3, <1>4, <1>5, <1>6, <1>7, <1>8, <1>9, <1>10, <1>11, HubSteps

\* What is shown stays its session's while that is served.
LEMMA OwnerStays ==
    ASSUME HubTypeOK, Gate, Owned, Latest, Begun, Underway, ClosedIsOff, ReleasesClosed,
           ReplacedIsOff, [HubNext]_hubVars,
           NEW id \in Ids \ Reused, id \notin spoiled', screen[id] # 0,
           owner[id] = shows[screen[id]].by, owner[id] \in live' \cup {Boss}
    PROVE  owner'[id] = owner[id]
<1>1. PICK k : k = screen[id]
  OBVIOUS
<1>2. k \in DOMAIN shows /\ shows[k].id = id /\ k \in Shows /\ id # 0
  BY <1>1, Numbered DEF Latest
<1>3. ASSUME Register, id = Show.id PROVE Show.by = owner[id]
  <2>1. work.show \in DOMAIN shows
    BY <1>3, AtWork DEF Register, Stages
  <2> QED
    BY <1>1, <1>2, <1>3, <2>1 DEF Owned, Show
<1>4. ASSUME Settle, id = Show.replace, id # Show.id PROVE FALSE
  <2>1. work.show \in DOMAIN shows /\ Show.id # 0
    BY <1>4, SettleDoes
  <2> QED
    BY <1>2, <1>4, <2>1 DEF ReplacedIsOff, Show
<1>5. ASSUME NEW j \in Shows, reader[j] = "release", shows[j].id = id PROVE FALSE
  <2>1. j \in DOMAIN shows
    BY <1>5 DEF ReleasesClosed
  <2> QED
    BY <1>5, <2>1, ShownHasNoEnd
<1>6. ASSUME NEW s \in ModuleSessions, s \notin live', owner[id] = s PROVE FALSE
  BY <1>6, HubAssumption
<1> QED
  BY <1>3, <1>4, <1>5, <1>6, OwnerLost

\* A presentation goes through its stages and is settled, or spoils its id.
LEMMA PastStays ==
    ASSUME HubTypeOK, Gate, [HubNext]_hubVars, NEW k \in DOMAIN shows, shows[k].id # 0,
           shows[k].id \notin spoiled', Past(k, {"endpoint", "register", "activate", "settle"})
    PROVE  Past(k, {"endpoint", "register", "activate", "settle"})'
<1>1. CASE shows[k].done
  BY <1>1, ShowsStay DEF Past
<1>2. CASE work.pc \in {"endpoint", "register", "activate", "settle"} /\ work.show = k
  <2>1. work # NoWork
    BY <1>2 DEF NoWork
  <2>2. CASE UNCHANGED <<work, shows>>
    BY <1>2, <2>2 DEF Past
  <2>3. CASE work' = NoWork
    <3>1. Settle
      BY <1>2, <2>1, <2>3, WorkEnds DEF Show
    <3> QED
      BY <1>2, <3>1, SettleDoes DEF Past
  <2>4. ASSUME NEW s \in Owners, NEW r \in Ids \cup {0}, BeginPresent(s, r) PROVE FALSE
    BY <2>1, <2>4 DEF BeginPresent
  <2>5. ASSUME Notify PROVE FALSE
    BY <1>2, <2>5 DEF Notify, Presenting
  <2>6. CASE work' \in Works /\ work'.show = work.show /\ work'.pc # "notify"
    BY <1>2, <2>6 DEF Past, Works, Stages
  <2> QED
    BY <2>2, <2>3, <2>4, <2>5, <2>6, WorkSteps
<1> QED
  BY <1>1, <1>2 DEF Past

\* By which step a presentation comes to a stage.
LEMMA PastMoves ==
    ASSUME HubTypeOK, Gate, [HubNext]_hubVars, NEW k \in DOMAIN shows
    PROVE  /\ Past(k, {"register", "activate", "settle"})' =>
                 Past(k, {"register", "activate", "settle"}) \/ (Acknowledge /\ k = work.show)
           /\ Past(k, {"activate", "settle"})' =>
                 Past(k, {"activate", "settle"}) \/ (Register /\ Registered /\ k = work.show)
           /\ Past(k, {"settle"})' =>
                 Past(k, {"settle"}) \/ (Activate /\ k = work.show)
<1>1. ASSUME shows'[k].done PROVE Past(k, {"settle"})
  <2>1. CASE UNCHANGED shows
    BY <1>1, <2>1 DEF Past
  <2>2. ASSUME NEW s \in Owners, NEW r \in Ids \cup {0}, BeginPresent(s, r) PROVE shows'[k] = shows[k]
    <3>1. PICK n : n = Len(shows) + 1
      OBVIOUS
    <3> QED
      BY <2>2, <3>1, BeginDoes
  <2>3. CASE Notify
    <3>1. shows'[k] = shows[k]
      BY <1>1, <2>3, NotifyDoes
    <3> QED
      BY <1>1, <3>1 DEF Past
  <2>4. CASE Settle
    <3>1. shows[k].done \/ k = work.show
      BY <1>1, <2>4, SettleDoes
    <3> QED
      BY <2>4, <3>1 DEF Past, Settle, Presenting
  <2>5. CASE \E i \in Ids : Act(i) \/ Close(i)
    <3>1. shows' = shows
      BY <2>5 DEF Act, Close, Raise
    <3> QED
      BY <1>1, <3>1 DEF Past
  <2>6. CASE shows'[k] = shows[k]
    BY <1>1, <2>6 DEF Past
  <2> QED
    BY <2>1, <2>2, <2>3, <2>4, <2>5, <2>6, ShowSteps
<1> DEFINE Goal(S) ==
             work'.pc \in S /\ work'.show = k =>
                \/ work.pc \in S /\ work.show = k
                \/ Acknowledge /\ k = work.show /\ work'.pc = "register"
                \/ Register /\ Registered /\ k = work.show /\ work'.pc = "activate"
                \/ Activate /\ k = work.show /\ work'.pc = "settle"
<1>2. ASSUME NEW S, S \subseteq {"register", "activate", "settle"} PROVE Goal(S)
  <2>1. CASE UNCHANGED <<work, shows>>
    BY <2>1
  <2>2. CASE work' = NoWork
    BY <1>2, <2>2 DEF NoWork
  <2>3. ASSUME NEW s \in Owners, NEW r \in Ids \cup {0}, BeginPresent(s, r) PROVE work'.show # k
    <3>1. PICK n : n = Len(shows) + 1
      OBVIOUS
    <3> QED
      BY <2>3, <3>1, BeginDoes
  <2>4. CASE Notify
    BY <1>2, <2>4, NotifyDoes
  <2>5. CASE Register /\ work' \in Works /\ work'.show = work.show
    <3>1. ~Refused
      BY <2>5 DEF Refused, NoWork, Works
    <3>2. Registered /\ work'.pc = "activate"
      BY <2>5, <3>1, RegisterDoes DEF Registered
    <3> QED
      BY <2>5, <3>2
  <2>6. CASE Activate /\ work'.show = work.show
    BY <2>6, ActivatesDoes
  <2>7. CASE Acknowledge /\ work'.show = work.show
    <3>1. work' = [work EXCEPT !.pc = "register"] /\ work \in Works
      BY <2>7, AtWork DEF Acknowledge, Stages
    <3>2. work'.pc = "register"
      BY <3>1 DEF Works
    <3> QED
      BY <2>7, <3>2
  <2> QED
    BY <2>1, <2>2, <2>3, <2>4, <2>5, <2>6, <2>7, WorkSteps
<1>3. Register => work.pc = "register"
  BY DEF Register, Presenting
<1>4. Activate => work.pc = "activate"
  BY DEF Activate, Presenting
<1> HIDE DEF Goal
<1>5. Past(k, {"register", "activate", "settle"})' =>
         Past(k, {"register", "activate", "settle"}) \/ (Acknowledge /\ k = work.show)
  <2>1. Goal({"register", "activate", "settle"})
    BY <1>2
  <2> QED
    BY <1>1, <1>3, <1>4, <2>1 DEF Past, Goal
<1>6. Past(k, {"activate", "settle"})' =>
         Past(k, {"activate", "settle"}) \/ (Register /\ Registered /\ k = work.show)
  <2>1. Goal({"activate", "settle"})
    BY <1>2
  <2> QED
    BY <1>1, <1>4, <2>1 DEF Past, Goal
<1>7. Past(k, {"settle"})' => Past(k, {"settle"}) \/ (Activate /\ k = work.show)
  <2>1. Goal({"settle"})
    BY <1>2
  <2> QED
    BY <1>1, <2>1 DEF Past, Goal
<1> QED
  BY <1>5, <1>6, <1>7

\* What an id shows after a step was shown there, or was just named.
LEMMA ScreenSteps ==
    ASSUME HubTypeOK, Gate, Latest, Done, [HubNext]_hubVars, NEW id \in Ids, screen'[id] # 0
    PROVE  \/ screen'[id] = screen[id]
           \/ /\ screen'[id] = work.show /\ work'.pc = "endpoint" /\ work'.show = work.show
              /\ ~shows'[work.show].done
<1>1. CASE Notify
  <2>1. PICK i \in Ids : screen' = [screen EXCEPT ![i] = work.show]
    BY <1>1, NotifyDoes
  <2>2. screen'[id] = screen[id] \/ screen'[id] = work.show
    BY <2>1 DEF HubTypeOK
  <2> QED
    BY <1>1, <2>2, NotifyDoes
<1>2. CASE \A i \in Ids : screen'[i] \in {screen[i], 0}
  BY <1>2
<1>3. CASE screen' = screen
  BY <1>3
<1> QED
  BY <1>1, <1>2, <1>3, NamedSteps

\* What is shown keeps the way back that was built for it, whatever happens to
\* other notifications, to their streams and in the other processes.
LEMMA WayBackStep ==
    ASSUME HubInv, HubTypeOK', ClosedIsOff, ReleasesClosed, ReplacedIsOff, WayBack,
           [HubNext]_hubVars
    PROVE  WayBack'
<1> USE DEF HubInv
<1> DEFINE S1 == {"endpoint", "register", "activate", "settle"}
           S2 == {"register", "activate", "settle"}
           S3 == {"activate", "settle"}
           S4 == {"settle"}
<1> SUFFICES ASSUME NEW id \in Ids, id \notin spoiled' \cup Reused', NEW k, k = screen'[id], k # 0
             PROVE  /\ Past(k, S1)'
                    /\ Past(k, S2)' => endpoint'[id].stream = k /\ stream'[k].open
                    /\ Past(k, S3)' /\ shows'[k].by \in live' \cup {Boss} => owner'[id] = shows'[k].by
                    /\ Past(k, S4)' =>
                          reader'[k] = "reading" /\ (stream'[k].activate \/ endpoint'[id].active)
  BY DEF WayBack
<1> HIDE DEF HubInv
<1> DEFINE Goal ==
           /\ Past(k, S1)'
           /\ Past(k, S2)' => endpoint'[id].stream = k /\ stream'[k].open
           /\ Past(k, S3)' /\ shows'[k].by \in live' \cup {Boss} => owner'[id] = shows'[k].by
           /\ Past(k, S4)' =>
                 reader'[k] = "reading" /\ (stream'[k].activate \/ endpoint'[id].active)
<1>1. CASE work'.pc = "endpoint" /\ work'.show = k /\ ~shows'[k].done
  <2>1. Past(k, S1)'
    BY <1>1 DEF Past
  <2>2. ~Past(k, S2)' /\ ~Past(k, S3)' /\ ~Past(k, S4)'
    BY <1>1 DEF Past
  <2> QED
    BY <2>1, <2>2
<1>2. CASE k = screen[id]
  <2>1. k \in DOMAIN shows /\ shows[k].id = id /\ k \in Shows /\ id # 0 /\ id \notin spoiled
    <3>1. k \in DOMAIN shows /\ shows[k].id = id
      BY <1>2 DEF Latest, HubInv
    <3>2. HubTypeOK /\ Gate
      BY DEF HubInv
    <3> QED
      BY <3>1, <3>2, Numbered, SpoiledStays
  <2>2. HubTypeOK /\ Gate /\ Untouched /\ Owned /\ Latest /\ Done /\ Underway /\ Begun /\ Endpoints
    BY DEF HubInv
  <2>3. id \notin Reused
    BY <2>2, ReusedGrows
  <2>4. /\ Past(k, S1)
        /\ Past(k, S2) => endpoint[id].stream = k /\ stream[k].open
        /\ Past(k, S3) /\ shows[k].by \in live \cup {Boss} => owner[id] = shows[k].by
        /\ Past(k, S4) => reader[k] = "reading" /\ (stream[k].activate \/ endpoint[id].active)
    BY <1>2, <2>1, <2>3 DEF WayBack
  <2>5. /\ Past(k, S2)' => Past(k, S2) \/ (Acknowledge /\ k = work.show)
        /\ Past(k, S3)' => Past(k, S3) \/ (Register /\ Registered /\ k = work.show)
        /\ Past(k, S4)' => Past(k, S4) \/ (Activate /\ k = work.show)
    BY <2>1, <2>2, PastMoves
  <2>6. shows'[k].by = shows[k].by /\ live' \subseteq live
    BY <2>1, <2>2, ShowsStay, LiveStep
  <2>7. Past(k, S3) => Past(k, S2)
    BY DEF Past
  <2>8. Past(k, S4) => Past(k, S3)
    BY DEF Past
  <2>9. Past(k, S1)'
    BY <2>1, <2>4, <2>2, PastStays
  <2>10. ASSUME Past(k, S2)
        PROVE  /\ endpoint'[id].stream = k /\ stream'[k].open
               /\ endpoint[id].active => endpoint'[id].active
               /\ \A j \in Shows : ReceiveActivate(j) /\ j = k => endpoint'[id].active
    <3>1. endpoint[id].stream = screen[id] /\ stream[screen[id]].open /\ screen[id] # 0
      BY <1>2, <2>4, <2>10
    <3>2. stream'[screen[id]].open
      BY <2>3, <2>2, <3>1, OpenStays
    <3>3. /\ endpoint'[id].stream = screen[id]
          /\ endpoint[id].active => endpoint'[id].active
          /\ \A j \in Shows : ReceiveActivate(j) /\ j = screen[id] => endpoint'[id].active
      BY <2>3, <2>2, <3>1, EndStays
    <3> QED
      BY <1>2, <3>2, <3>3
  <2>11. Past(k, S2)' => endpoint'[id].stream = k /\ stream'[k].open
    <3>1. ASSUME Acknowledge, k = work.show PROVE endpoint'[id].stream = k /\ stream'[k].open
      <4>1. work.pc = "endpoint" /\ InstallEndpoint(k)
        BY <3>1 DEF Acknowledge, Presenting
      <4>2. stream[k].open /\ endpoint[id].stream # k
        BY <2>1, <2>2, <3>1, <4>1 DEF Untouched, Endpoints
      <4>3. endpoint'[id].stream = k
        <5>1. k \in DOMAIN shows /\ shows[k].id # 0 /\ HubTypeOK
          BY <2>1, <2>2
        <5>2. endpoint'[shows[k].id].stream = k
          BY <4>1, <5>1, InstallDoes
        <5> QED
          BY <2>1, <5>2
      <4>4. stream'[k].open
        BY <2>1, <2>2, <4>1, <4>2, InstallShuts DEF ShutOnly
      <4> QED
        BY <4>3, <4>4
    <3> QED
      BY <2>5, <2>10, <3>1
  <2>12. ASSUME Past(k, S3)', shows'[k].by \in live' \cup {Boss} PROVE owner'[id] = shows'[k].by
    <3>1. CASE Register /\ Registered /\ k = work.show
      <4>1. owner' = [owner EXCEPT ![Show.id] = Show.by] /\ Show.id = id /\ Show.by = shows[k].by
        BY <2>1, <3>1 DEF Registered, Show
      <4> QED
        BY <2>2, <2>6, <4>1 DEF HubTypeOK
    <3>2. CASE Past(k, S3)
      <4>1. owner[id] = shows[k].by
        BY <2>4, <2>6, <2>12, <3>2
      <4>2. owner[id] = shows[screen[id]].by /\ owner[id] \in live' \cup {Boss} /\ screen[id] # 0
        BY <1>2, <2>6, <2>12, <4>1
      <4>3. owner'[id] = owner[id]
        BY <2>3, <2>2, <4>2, OwnerStays
      <4> QED
        BY <2>6, <4>1, <4>3
    <3> QED
      BY <2>5, <2>12, <3>1, <3>2
  <2>13. ASSUME Past(k, S4)' PROVE reader'[k] = "reading" /\ (stream'[k].activate \/ endpoint'[id].active)
    <3>1. CASE Activate /\ k = work.show
      <4>1. reader' = [reader EXCEPT ![k] = "reading"] /\ stream'[k].activate
        BY <2>1, <2>2, <3>1, ActivatesDoes
      <4> QED
        BY <2>1, <2>2, <4>1 DEF HubTypeOK
    <3>2. CASE Past(k, S4)
      <4>1. /\ reader[k] = "reading" /\ (stream[k].activate \/ endpoint[id].active)
            /\ Past(k, S2)
        BY <2>4, <2>7, <2>8, <3>2
      <4>2. reader'[k] = "reading"
        <5>1. ASSUME Route(k) PROVE reader'[k] = "reading"
          <6>1. PICK e : e = Head(stream[k].frames)
            OBVIOUS
          <6>2. 1 \in DOMAIN Buffer[Frames(k)] /\ Buffer[Frames(k)][1] = e /\ Frames(k) \in Places
            BY <2>1, <2>2, <5>1, <6>1, RouteDoes, BufferIs, PlaceFacts
          <6>3. Belongs(Frames(k), e)
            BY <2>2, <6>2 DEF Underway
          <6>4. e.id = id
            BY <2>1, <6>3 DEF Belongs, Frames
          <6>5. ~Terminal(e)
            BY <1>2, <2>3, <2>2, <6>2, <6>4, ShownHasNoEnd
          <6> QED
            BY <2>1, <2>2, <5>1, <6>1, <6>5, RouteDoes
        <5>2. ~ReaderEnds(k)
          BY <2>4, <4>1 DEF ReaderEnds
        <5> QED
          BY <2>1, <2>2, <4>1, <5>1, <5>2, ReaderSteps
      <4>3. stream'[k].activate \/ endpoint'[id].active
        <5>1. CASE endpoint[id].active
          BY <2>10, <4>1, <5>1
        <5>2. CASE stream[k].activate
          <6>1. ~PresenterRestarts
            BY <2>2, RestartDoes
          <6>2. ReceiveActivate(k) => endpoint'[id].active
            BY <2>1, <2>10, <4>1
          <6> QED
            BY <2>1, <2>2, <5>2, <6>1, <6>2, ActivateStays
        <5> QED
          BY <4>1, <5>1, <5>2
      <4> QED
        BY <4>2, <4>3
    <3> QED
      BY <2>5, <2>13, <3>1, <3>2
  <2> QED
    BY <2>9, <2>11, <2>12, <2>13
<1>3. HubTypeOK /\ Gate /\ Latest /\ Done
  BY DEF HubInv
<1> QED
  BY <1>1, <1>2, <1>3, ScreenSteps

\* What holds of the ids that were not reused.
Unreused ==
    /\ ClosedIsOff /\ OffIsClosed /\ EndIsLast
    /\ ReleasesClosed /\ ReplacedIsOff /\ WayBack

\* It holds at first.
LEMMA UnreusedInit ==
    ASSUME HubInit PROVE Unreused
<1>1. DOMAIN shows = {}
  BY EmptySeq DEF HubInit
<1>2. ReleasesClosed
  BY DEF HubInit, ReleasesClosed
<1>3. WayBack
  BY DEF HubInit, WayBack
<1> QED
  BY <1>1, <1>2, <1>3 DEF Unreused, ClosedIsOff, OffIsClosed, EndIsLast, ReplacedIsOff

\* Every step keeps it, given the invariant.
LEMMA UnreusedStep ==
    ASSUME HubInv, Unreused, [HubNext]_hubVars
    PROVE  Unreused'
<1>1. /\ HubTypeOK /\ Gate /\ Owned /\ Latest /\ Done
      /\ Underway /\ Once /\ InOrder /\ Endpoints /\ Begun /\ Told
  BY DEF HubInv
<1>2. HubTypeOK'
  BY <1>1, HubTypeStep
<1>3. ClosedIsOff /\ OffIsClosed /\ EndIsLast /\ ReleasesClosed /\ ReplacedIsOff /\ WayBack
  BY DEF Unreused
<1>4. ClosedIsOff'
  BY <1>1, <1>2, <1>3, ClosedIsOffStep
<1>5. OffIsClosed'
  BY <1>1, <1>2, <1>3, OffIsClosedStep
<1>6. EndIsLast'
  BY <1>1, <1>2, <1>3, Alone, EndIsLastStep
<1>7. ReleasesClosed'
  BY <1>1, <1>3, ReleasesClosedStep
<1>8. ReplacedIsOff'
  BY <1>1, <1>2, <1>3, ReplacedIsOffStep
<1>9. WayBack'
  BY <1>2, <1>3, WayBackStep
<1> QED
  BY <1>4, <1>5, <1>6, <1>7, <1>8, <1>9 DEF Unreused

\* What is told of a presentation, in the words of the property.
LEMMA ToldIsRaised ==
    ASSUME HubTypeOK, Done, Told, EndIsLast, NEW k \in DOMAIN shows,
           shows[k].id \notin {shows[k].replace} \cup Reused,
           NEW told, told = [i \in DOMAIN delivered[k] |-> delivered[k][i][2]]
    PROVE  told \in {<<>>, <<"action">>, <<"closed">>, raised[k]}
<1>1. k \in Shows
  BY Numbered
<1> DEFINE d == delivered[k]  r == raised[k]
<1>2. d \in Seq(Owners \X Kinds)
  BY <1>1 DEF HubTypeOK
<1>3. DOMAIN d = 1 .. Len(d) /\ Len(d) \in Nat /\ \A i \in DOMAIN d : d[i][2] \in Kinds
  BY <1>2, LenProperties
<1>4. \A i, j \in DOMAIN d : d[i][2] = d[j][2] => i = j
  BY <1>1 DEF Told
<1>5. ASSUME NEW i \in DOMAIN d PROVE \E n \in DOMAIN r : r[n] = d[i][2]
  BY <1>1, <1>5 DEF Told, IsRaised
<1>6. ASSUME NEW i \in DOMAIN d, d[i][2] = "closed", NEW j \in DOMAIN d, d[j][2] = "action"
      PROVE  j < i
  <2>1. IsTold(k, "closed") /\ IsTold(k, "action")
    BY <1>6 DEF IsTold
  <2>2. PICK m, n \in DOMAIN d : d[m][2] = "action" /\ d[n][2] = "closed" /\ m < n
    BY <2>1 DEF EndIsLast
  <2> QED
    BY <1>4, <1>6, <2>2
<1>7. r \in Orders
  BY <1>1 DEF Done
<1>8. /\ told = [i \in 1 .. Len(d) |-> told[i]]
      /\ \A i \in 1 .. Len(d) : told[i] = d[i][2]
  BY <1>3
<1> HIDE DEF d, r
<1>9. Len(d) \in {0, 1, 2}
  <2>1. SUFFICES ASSUME Len(d) > 2 PROVE FALSE
    BY <1>3
  <2>2. {1, 2, 3} \subseteq DOMAIN d
    BY <1>3, <2>1
  <2> QED
    BY <1>3, <1>4, <2>2 DEF Kinds
<1>10. CASE Len(d) = 0
  BY <1>8, <1>10
<1>11. CASE Len(d) = 1
  <2>1. told[1] \in Kinds
    BY <1>3, <1>8, <1>11
  <2>2. told = <<told[1]>>
    BY <1>8, <1>11
  <2> QED
    BY <2>1, <2>2 DEF Kinds
<1>12. CASE Len(d) = 2
  <2>1. 1 \in DOMAIN d /\ 2 \in DOMAIN d /\ d[1][2] # d[2][2]
    BY <1>3, <1>4, <1>12
  <2>2. d[1][2] = "action" /\ d[2][2] = "closed"
    BY <1>3, <1>6, <2>1 DEF Kinds
  <2>3. told = <<"action", "closed">>
    BY <1>8, <1>12, <2>2
  <2>4. (\E n \in DOMAIN r : r[n] = "action") /\ (\E n \in DOMAIN r : r[n] = "closed")
    BY <1>5, <2>1, <2>2
  <2>5. r = <<"action", "closed">>
    BY <1>7, <2>4 DEF Orders
  <2> QED
    BY <2>3, <2>5 DEF r
<1> QED
  BY <1>9, <1>10, <1>11, <1>12

\* The invariant makes what is told reach its session.
LEMMA InvReaches ==
    ASSUME HubInv, Unreused PROVE ReachesItsSession
<1> SUFFICES ASSUME NEW k \in DOMAIN shows, NEW told, told = [i \in DOMAIN delivered[k] |-> delivered[k][i][2]]
             PROVE  /\ \A i \in DOMAIN delivered[k] : delivered[k][i][1] = shows[k].by
                    /\ IsInjective(told)
                    /\ shows[k].id \notin {shows[k].replace} \cup Reused =>
                          told \in {<<>>, <<"action">>, <<"closed">>, raised[k]}
  BY DEF ReachesItsSession
<1>1. HubTypeOK /\ Done /\ Told /\ EndIsLast
  BY DEF HubInv, Unreused
<1>2. k \in Shows
  BY <1>1, Numbered
<1>3. \A i \in DOMAIN delivered[k] : delivered[k][i][1] = shows[k].by
  BY <1>1, <1>2 DEF Told
<1>4. IsInjective(told)
  BY <1>1, <1>2 DEF Told, IsInjective
<1>5. shows[k].id \notin {shows[k].replace} \cup Reused =>
         told \in {<<>>, <<"action">>, <<"closed">>, raised[k]}
  BY <1>1, ToldIsRaised
<1> QED
  BY <1>3, <1>4, <1>5

\* The invariant gives what is shown its way back.
LEMMA InvRouted ==
    ASSUME HubInv, Unreused PROVE ShownIsRouted
<1> SUFFICES ASSUME NEW id \in Ids \ (spoiled \cup Reused), NEW k, k = screen[id], k # 0, shows[k].done,
                    shows[k].by \in live \cup {Boss}
             PROVE  /\ owner[id] = shows[k].by
                    /\ endpoint[id].stream = k
                    /\ stream[k].open
                    /\ stream[k].activate \/ endpoint[id].active
                    /\ reader[k] = "reading"
  BY DEF ShownIsRouted
<1>1. \A stages : Past(k, stages)
  BY DEF Past
<1> QED
  BY <1>1 DEF Unreused, WayBack

\* The types of the hub's state are kept by every step.
THEOREM HubTypes == HubSpec => []HubTypeOK
<1>1. HubInv => HubTypeOK
  BY DEF HubInv
<1> QED
  BY <1>1, HubInvariant, PTL

\* Whatever the server does with ids, a session is told only what was done to
\* its own notifications, and each thing once.
THEOREM HubTold == HubSpec => []Told
<1>1. HubInv => Told
  BY DEF HubInv
<1> QED
  BY <1>1, HubInvariant, PTL

\* What the user does reaches its session, once and, where neither another nor a
\* closed notification had its id before, in order, whatever ids the server gives.
THEOREM HubReachesItsSession == HubSpec => []ReachesItsSession
<1>1. HubInit => Unreused
  BY UnreusedInit
<1>2. HubInv /\ Unreused /\ [HubNext]_hubVars => Unreused'
  BY UnreusedStep
<1>3. HubInv /\ Unreused => ReachesItsSession
  BY InvReaches
<1> QED
  BY <1>1, <1>2, <1>3, HubInvariant, PTL DEF HubSpec

\* What is shown, owned by a served session and not spoiled has a whole way back
\* to it, unless its id was a closed notification's before.
THEOREM HubShownIsRouted == HubSpec => []ShownIsRouted
<1>1. HubInit => Unreused
  BY UnreusedInit
<1>2. HubInv /\ Unreused /\ [HubNext]_hubVars => Unreused'
  BY UnreusedStep
<1>3. HubInv /\ Unreused => ShownIsRouted
  BY InvRouted
<1> QED
  BY <1>1, <1>2, <1>3, HubInvariant, PTL DEF HubSpec

-----------------------------------------------------------------------------
(* Live variables: the invariant                                           *)

\* The registered runtime is the connection whose handler serves it, and only
\* such a connection has a runtime to unregister after it revoked.
RuntimeIsHeld ==
    \A c \in Connections :
        /\ c \in Runtimes /\ handler[c] \in {"serving", "leaving", "revoked"} => runtime = c
        /\ c \notin Runtimes => handler[c] # "revoked"

\* A connection was told of publications only while it was served.
ToldWhileServed == \A c \in Connections : handler[c] # "serving" => accepted[c] = Empty

USE DEF Connections, HandlerStates, registry, Serves, Move
----------------------------------------------------------------------------
(* What is visible and what is published.                                  *)

PublisherSets == [Sessions -> Publications \cup {Nothing}]

\* The absence of a publication is told from every publication.
LEMMA NothingIsNoPublication == Nothing \notin Publications
  BY NullAssumption DEF Publications

\* A publication without variables is none.
LEMMA PublicationHasKey ==
    ASSUME NEW x \in Publications
    PROVE  DOMAIN x.variables # {}
<1>1. x.variables \in Snapshots /\ x.variables # Empty
  BY DEF Publications
<1>2. x.variables = [k \in DOMAIN x.variables |-> x.variables[k]]
  BY <1>1, SnapshotAssumption
<1>3. SUFFICES ASSUME DOMAIN x.variables = {} PROVE FALSE
  OBVIOUS
<1>4. [k \in DOMAIN x.variables |-> x.variables[k]] = Empty
  BY <1>3 DEF Empty
<1> QED
  BY <1>1, <1>2, <1>4

\* A visible key has one publisher, and shows its value.
LEMMA MergedAt ==
    ASSUME NEW set \in PublisherSets, Mergeable(set), NEW s \in Publishers(set),
           NEW k \in DOMAIN set[s].variables
    PROVE  k \in DOMAIN Merged(set) /\ Merged(set)[k] = set[s].variables[k]
<1> DEFINE t == CHOOSE t \in Publishers(set) : k \in DOMAIN set[t].variables
<1>1. t \in Publishers(set) /\ k \in DOMAIN set[t].variables
  OBVIOUS
<1>2. t = s
  BY <1>1 DEF Mergeable
<1>3. k \in UNION {DOMAIN set[u].variables : u \in Publishers(set)}
  OBVIOUS
<1> QED
  BY <1>2, <1>3 DEF Merged

\* Every visible key is published by somebody.
LEMMA MergedKeys ==
    ASSUME NEW set, NEW k \in DOMAIN Merged(set)
    PROVE  \E s \in Publishers(set) : k \in DOMAIN set[s].variables
  BY DEF Merged

\* A change of one publication that changes its variables is visible.
LEMMA ChangeIsVisible ==
    ASSUME NEW old \in PublisherSets, NEW new \in PublisherSets,
           Mergeable(old), Mergeable(new), NEW s \in Sessions,
           \A t \in Sessions \ {s} : new[t] = old[t],
           Merged(old) = Merged(new), s \in Publishers(old)
    PROVE  s \in Publishers(new) /\ new[s].variables = old[s].variables
<1> USE DEF Publishers
<1>1. \A k \in DOMAIN old[s].variables : s \in Publishers(new) /\ k \in DOMAIN new[s].variables
  <2> SUFFICES ASSUME NEW k \in DOMAIN old[s].variables
               PROVE  s \in Publishers(new) /\ k \in DOMAIN new[s].variables
    OBVIOUS
  <2>1. k \in DOMAIN Merged(new)
    BY MergedAt
  <2>2. PICK t \in Publishers(new) : k \in DOMAIN new[t].variables
    BY <2>1, MergedKeys
  <2>3. t = s
    BY <2>2 DEF Mergeable
  <2> QED
    BY <2>2, <2>3
<1>2. s \in Publishers(new)
  <2>1. old[s] \in Publications
    BY DEF PublisherSets
  <2> QED
    BY <1>1, <2>1, PublicationHasKey
<1>3. \A k \in DOMAIN new[s].variables : k \in DOMAIN old[s].variables
  <2> SUFFICES ASSUME NEW k \in DOMAIN new[s].variables PROVE k \in DOMAIN old[s].variables
    OBVIOUS
  <2>1. k \in DOMAIN Merged(old)
    BY <1>2, MergedAt
  <2>2. PICK t \in Publishers(old) : k \in DOMAIN old[t].variables
    BY <2>1, MergedKeys
  <2>3. t = s
    BY <1>2, <2>2 DEF Mergeable
  <2> QED
    BY <2>2, <2>3
<1>4. \A k \in DOMAIN old[s].variables : new[s].variables[k] = old[s].variables[k]
  <2> SUFFICES ASSUME NEW k \in DOMAIN old[s].variables
               PROVE  new[s].variables[k] = old[s].variables[k]
    OBVIOUS
  <2>1. Merged(old)[k] = old[s].variables[k]
    BY MergedAt
  <2>2. Merged(new)[k] = new[s].variables[k]
    BY <1>1, <1>2, MergedAt
  <2> QED
    BY <2>1, <2>2
<1>5. /\ old[s].variables = [k \in DOMAIN old[s].variables |-> old[s].variables[k]]
      /\ new[s].variables = [k \in DOMAIN new[s].variables |-> new[s].variables[k]]
  <2>1. old[s] \in Publications /\ new[s] \in Publications
    BY <1>2 DEF PublisherSets
  <2> QED
    BY <2>1, SnapshotAssumption DEF Publications
<1>6. DOMAIN old[s].variables = DOMAIN new[s].variables
  BY <1>1, <1>3
<1> QED
  BY <1>2, <1>4, <1>5, <1>6
----------------------------------------------------------------------------
(* The steps.                                                              *)

\* What an accepted publication does, and what a refused one leaves alone.
LEMMA PublishDoes ==
    ASSUME NEW c \in Connections, NEW vals \in Snapshots, Publish(c, vals)
    PROVE  /\ Serves(c) /\ UNCHANGED <<runtime, handler, alive, shown>>
           /\ \/ UNCHANGED <<published, overruled, accepted, telling>>
              \/ /\ published' = [published EXCEPT ![SessionOf[c]] = Publication(c, vals)]
                 /\ Admits(c, published') /\ Tells(c, published')
                 /\ accepted' = [accepted EXCEPT ![c] = vals]
                 /\ overruled' = (overruled \ {c}) \cup Twins(c)
  BY DEF Publish

\* What a handler that revokes does.
LEMMA RevokeDoes ==
    ASSUME NEW c \in Connections, Revoke(c)
    PROVE  /\ handler[c] = "leaving" /\ UNCHANGED <<runtime, alive, accepted, shown>>
           /\ handler' = [handler EXCEPT ![c] = IF c \in Runtimes THEN "revoked" ELSE "gone"]
           /\ published' = IF Holds(c) THEN [published EXCEPT ![SessionOf[c]] = Nothing]
                                       ELSE published
           /\ Tells(c, published')
           /\ overruled' = IF Holds(c) THEN overruled \cup Twins(c) ELSE overruled
  BY DEF Revoke

\* Every step of Next is one of these.
LEMMA StepKinds ==
    ASSUME Next
    PROVE  \/ \E c \in Connections :
                  \/ Connect(c) \/ Leave(c) \/ Tell(c) \/ Revoke(c) \/ Unregister(c)
                  \/ \E vals \in Snapshots : Publish(c, vals)
           \/ \E p \in Processes : Die(p)
  BY DEF Next, Handle, PublishUncertified

\* A connection names a session and has a process.
LEMMA ConnectionTypes ==
    \A c \in Connections : SessionOf[c] \in Sessions /\ ProcessOf[c] \in Processes
  BY ConnectionAssumption

\* A publication is what its process says it is.
LEMMA PublicationType ==
    ASSUME NEW c \in Connections, NEW vals \in Snapshots
    PROVE  Publication(c, vals) \in Publications \cup {Nothing}
  BY ConnectionTypes DEF Publication, Publications

\* What is visible has been published: the part of TypeOK about a surface.
LEMMA MergedType ==
    ASSUME NEW set \in PublisherSets
    PROVE  \A k \in DOMAIN Merged(set) :
               \E v \in Snapshots : k \in DOMAIN v /\ Merged(set)[k] = v[k]
<1> SUFFICES ASSUME NEW k \in DOMAIN Merged(set)
             PROVE  \E v \in Snapshots : k \in DOMAIN v /\ Merged(set)[k] = v[k]
  OBVIOUS
<1> DEFINE s == CHOOSE s \in Publishers(set) : k \in DOMAIN set[s].variables
<1>1. s \in Publishers(set) /\ k \in DOMAIN set[s].variables
  BY MergedKeys
<1>2. set[s] \in Publications
  BY <1>1 DEF Publishers, PublisherSets
<1>3. Merged(set)[k] = set[s].variables[k]
  BY DEF Merged
<1> QED
  BY <1>1, <1>2, <1>3 DEF Publications

\* Every step keeps the types.
LEMMA TypeStep == TypeOK /\ Next => TypeOK'
<1> SUFFICES ASSUME TypeOK, Next PROVE TypeOK'
  OBVIOUS
<1> USE DEF TypeOK
<1>1. ASSUME NEW c \in Connections, Connect(c) PROVE TypeOK'
  BY <1>1 DEF Connect
<1>2. ASSUME NEW c \in Connections, Leave(c) PROVE TypeOK'
  BY <1>2, SnapshotAssumption DEF Leave
<1>3. ASSUME NEW c \in Connections, Tell(c) PROVE TypeOK'
  <2>1. \A k \in DOMAIN shown' : \E v \in Snapshots : k \in DOMAIN v /\ shown'[k] = v[k]
    BY <1>3, MergedType DEF Tell, PublisherSets
  <2> QED
    BY <1>3, <2>1 DEF Tell
<1>4. ASSUME NEW c \in Connections, Revoke(c) PROVE TypeOK'
  BY <1>4, RevokeDoes, ConnectionTypes DEF Tells, Twins
<1>5. ASSUME NEW c \in Connections, Unregister(c) PROVE TypeOK'
  BY <1>5 DEF Unregister
<1>6. ASSUME NEW c \in Connections, NEW vals \in Snapshots, Publish(c, vals) PROVE TypeOK'
  BY <1>6, PublishDoes, ConnectionTypes, PublicationType DEF Tells, Twins
<1>7. ASSUME NEW p \in Processes, Die(p) PROVE TypeOK'
  BY <1>7 DEF Die
<1> QED
  BY <1>1, <1>2, <1>3, <1>4, <1>5, <1>6, <1>7, StepKinds

\* A runtime is registered until its handler unregisters it.
LEMMA RuntimeStep == TypeOK /\ RuntimeIsHeld /\ Next => RuntimeIsHeld'
<1> SUFFICES ASSUME TypeOK, RuntimeIsHeld, Next PROVE RuntimeIsHeld'
  OBVIOUS
<1> USE DEF TypeOK, RuntimeIsHeld
<1>1. ASSUME NEW c \in Connections, Connect(c) PROVE RuntimeIsHeld'
  BY <1>1, NullAssumption, ConnectionAssumption DEF Connect
<1>2. ASSUME NEW c \in Connections, Leave(c) PROVE RuntimeIsHeld'
  BY <1>2 DEF Leave
<1>3. ASSUME NEW c \in Connections, Revoke(c) PROVE RuntimeIsHeld'
  BY <1>3, RevokeDoes
<1>4. ASSUME NEW c \in Connections, Unregister(c) PROVE RuntimeIsHeld'
  BY <1>4 DEF Unregister
<1>5. CASE UNCHANGED <<runtime, handler>>
  BY <1>5
<1> QED
  BY <1>1, <1>2, <1>3, <1>4, <1>5, PublishDoes, StepKinds DEF Tell, Die

\* A publication that is replaced or withdrawn was its process's own.
LEMMA WithdrawnByOwner ==
    ASSUME TypeOK, NEW c \in Connections, Revoke(c) \/ \E vals \in Snapshots : Publish(c, vals),
           NEW s \in Publishers(published), published'[s] # published[s]
    PROVE  s = SessionOf[c] /\ published[s].owner = ProcessOf[c]
<1> USE DEF TypeOK, Publishers
<1>1. CASE Revoke(c)
  BY <1>1, RevokeDoes, ConnectionTypes DEF Holds
<1>2. ASSUME NEW vals \in Snapshots, Publish(c, vals)
      PROVE  s = SessionOf[c] /\ published[s].owner = ProcessOf[c]
  BY <1>2, PublishDoes, ConnectionTypes DEF Admits
<1> QED
  BY <1>1, <1>2

\* A publication is made by a connection that is served, and is revoked before
\* the connection is let go.
LEMMA RevokerStep == TypeOK /\ PublicationHasRevoker /\ Next => PublicationHasRevoker'
<1> SUFFICES ASSUME TypeOK, PublicationHasRevoker, Next, NEW s \in Publishers(published)'
             PROVE  \E c \in Connections : /\ SessionOf[c] = s
                                           /\ ProcessOf[c] = published'[s].owner
                                           /\ handler'[c] \in {"serving", "leaving"}
  BY DEF PublicationHasRevoker
<1> USE DEF TypeOK, Publishers
<1>1. ASSUME published'[s] = published[s],
             \A c \in Connections : handler[c] \in {"serving", "leaving"} =>
                 \/ handler'[c] \in {"serving", "leaving"}
                 \/ Revoke(c)
      PROVE  \E c \in Connections : /\ SessionOf[c] = s
                                    /\ ProcessOf[c] = published'[s].owner
                                    /\ handler'[c] \in {"serving", "leaving"}
  <2>1. PICK c \in Connections : /\ SessionOf[c] = s
                                 /\ ProcessOf[c] = published[s].owner
                                 /\ handler[c] \in {"serving", "leaving"}
    BY <1>1 DEF PublicationHasRevoker
  <2>2. ~Revoke(c)
    BY <1>1, <2>1, RevokeDoes DEF Holds
  <2> QED
    BY <1>1, <2>1, <2>2
<1>2. ASSUME NEW c \in Connections, NEW vals \in Snapshots, Publish(c, vals)
      PROVE  \E d \in Connections : /\ SessionOf[d] = s
                                    /\ ProcessOf[d] = published'[s].owner
                                    /\ handler'[d] \in {"serving", "leaving"}
  <2>1. CASE published'[s] = published[s]
    BY <1>1, <1>2, <2>1, PublishDoes
  <2>2. CASE published'[s] # published[s]
    <3>1. s = SessionOf[c] /\ published'[s] = Publication(c, vals)
      BY <1>2, <2>2, PublishDoes, ConnectionTypes
    <3>2. published'[s].owner = ProcessOf[c]
      BY <3>1 DEF Publication
    <3> QED
      BY <1>2, <3>1, <3>2, PublishDoes
  <2> QED
    BY <2>1, <2>2
<1>3. ASSUME NEW c \in Connections, Revoke(c)
      PROVE  \E d \in Connections : /\ SessionOf[d] = s
                                    /\ ProcessOf[d] = published'[s].owner
                                    /\ handler'[d] \in {"serving", "leaving"}
  <2>1. published'[s] = published[s]
    BY <1>3, RevokeDoes, ConnectionTypes
  <2>2. \A d \in Connections \ {c} : handler'[d] = handler[d]
    BY <1>3, RevokeDoes
  <2> QED
    BY <1>1, <1>3, <2>1, <2>2
<1>4. ASSUME NEW c \in Connections, Connect(c) \/ Leave(c) \/ Tell(c) \/ Unregister(c)
      PROVE  \E d \in Connections : /\ SessionOf[d] = s
                                    /\ ProcessOf[d] = published'[s].owner
                                    /\ handler'[d] \in {"serving", "leaving"}
  <2>1. \A d \in Connections : handler[d] \in {"serving", "leaving"} =>
            handler'[d] \in {"serving", "leaving"}
    BY <1>4 DEF Connect, Leave, Tell, Unregister
  <2>2. published'[s] = published[s]
    BY <1>4 DEF Connect, Leave, Tell, Unregister
  <2> QED
    BY <1>1, <2>1, <2>2
<1>5. ASSUME NEW p \in Processes, Die(p)
      PROVE  \E d \in Connections : /\ SessionOf[d] = s
                                    /\ ProcessOf[d] = published'[s].owner
                                    /\ handler'[d] \in {"serving", "leaving"}
  BY <1>1, <1>5 DEF Die
<1> QED
  BY <1>2, <1>3, <1>4, <1>5, StepKinds

\* No two publications share a key.
LEMMA MergeableStep == TypeOK /\ Mergeable(published) /\ Next => Mergeable(published)'
<1> SUFFICES ASSUME TypeOK, Mergeable(published), Next PROVE Mergeable(published')
  OBVIOUS
<1>1. ASSUME NEW c \in Connections, NEW vals \in Snapshots, Publish(c, vals)
      PROVE  Mergeable(published')
  BY <1>1, PublishDoes DEF Admits
<1>2. ASSUME NEW c \in Connections, Revoke(c) PROVE Mergeable(published')
  <2>1. Publishers(published') \subseteq Publishers(published)
    BY <1>2, RevokeDoes, ConnectionTypes DEF Publishers, TypeOK
  <2>2. \A s \in Publishers(published') : published'[s] = published[s]
    BY <1>2, RevokeDoes, ConnectionTypes DEF Publishers, TypeOK
  <2> QED
    BY <2>1, <2>2 DEF Mergeable
<1>3. CASE published' = published
  BY <1>3
<1> QED
  BY <1>1, <1>2, <1>3, StepKinds DEF Connect, Leave, Tell, Unregister, Die

\* A surface is behind only while somebody has yet to tell it.
LEMMA ShownStep == ShownIsCurrent /\ Next => ShownIsCurrent'
<1> SUFFICES ASSUME ShownIsCurrent, Next PROVE ShownIsCurrent'
  OBVIOUS
<1>1. ASSUME NEW c \in Connections, Tells(c, published'), shown' = shown PROVE ShownIsCurrent'
  BY <1>1 DEF Tells, Changed, ShownIsCurrent
<1>2. ASSUME NEW c \in Connections, NEW vals \in Snapshots, Publish(c, vals)
      PROVE  ShownIsCurrent'
  BY <1>1, <1>2, PublishDoes DEF ShownIsCurrent
<1>3. ASSUME NEW c \in Connections, Revoke(c) PROVE ShownIsCurrent'
  BY <1>1, <1>3, RevokeDoes
<1>4. ASSUME NEW c \in Connections, Tell(c) PROVE ShownIsCurrent'
  BY <1>4 DEF Tell, ShownIsCurrent
<1>5. CASE UNCHANGED <<published, telling, shown>>
  BY <1>5 DEF ShownIsCurrent
<1> QED
  BY <1>2, <1>3, <1>4, <1>5, StepKinds DEF Connect, Leave, Unregister, Die

\* A connection that ends was told of nothing any more.
LEMMA ToldStep == TypeOK /\ ToldWhileServed /\ Next => ToldWhileServed'
<1> SUFFICES ASSUME TypeOK, ToldWhileServed, Next PROVE ToldWhileServed'
  OBVIOUS
<1> USE DEF TypeOK, ToldWhileServed
<1>1. ASSUME NEW c \in Connections, NEW vals \in Snapshots, Publish(c, vals)
      PROVE  ToldWhileServed'
  BY <1>1, PublishDoes
<1>2. ASSUME NEW c \in Connections, Revoke(c) PROVE ToldWhileServed'
  BY <1>2, RevokeDoes
<1>3. ASSUME NEW c \in Connections, Connect(c) \/ Leave(c) \/ Unregister(c) PROVE ToldWhileServed'
  BY <1>3 DEF Connect, Leave, Unregister
<1>4. CASE UNCHANGED <<handler, accepted>>
  BY <1>4
<1> QED
  BY <1>1, <1>2, <1>3, <1>4, StepKinds DEF Tell, Die

\* What a served connection was told is published stays so, unless a twin of it
\* publishes or revokes.
LEMMA ScopedStep ==
    ASSUME TypeOK, RuntimeIsHeld, ToldWhileServed, ConnectionScoped, Next
    PROVE  ConnectionScoped'
<1> USE DEF TypeOK, ConnectionScoped
<1>1. \A c, d \in Connections :
          /\ c # d /\ SessionOf[c] = SessionOf[d] /\ ProcessOf[c] = ProcessOf[d]
          /\ handler[c] \in {"serving", "leaving"} /\ handler[d] \in {"serving", "leaving"}
          => d \in Twins(c)
  BY DEF RuntimeIsHeld, Twins
<1>2. ASSUME NEW c \in Connections, NEW vals \in Snapshots, Publish(c, vals)
      PROVE  ConnectionScoped'
  <2>1. CASE UNCHANGED <<published, overruled, accepted>>
    BY <1>2, <2>1, PublishDoes
  <2>2. CASE ~UNCHANGED <<published, overruled, accepted>>
    <3>1. /\ published' = [published EXCEPT ![SessionOf[c]] = Publication(c, vals)]
          /\ Admits(c, published') /\ handler' = handler /\ handler[c] = "serving"
          /\ accepted' = [accepted EXCEPT ![c] = vals]
          /\ overruled' = (overruled \ {c}) \cup Twins(c)
      BY <1>2, <2>2, PublishDoes
    <3>2. vals # Empty => published'[SessionOf[c]] = [owner |-> ProcessOf[c], variables |-> vals]
      BY <3>1, ConnectionTypes DEF Publication
    <3>3. ASSUME NEW d \in Connections \ {c}, d \notin overruled',
                 handler[d] = "serving", accepted[d] # Empty
          PROVE  /\ published'[SessionOf[d]] = published[SessionOf[d]]
                 /\ d \notin overruled
      <4>0. d \notin overruled /\ d \notin Twins(c)
        BY <3>1, <3>3
      <4>1. /\ published[SessionOf[d]] = [owner |-> ProcessOf[d], variables |-> accepted[d]]
            /\ accepted[d] \in Snapshots
        BY <3>3, <4>0
      <4>2. published[SessionOf[d]] # Nothing /\ published[SessionOf[d]].owner = ProcessOf[d]
        BY <4>1, NullAssumption, ConnectionTypes
      <4>3. SessionOf[d] # SessionOf[c]
        BY <1>1, <3>1, <3>3, <4>0, <4>2 DEF Admits
      <4> QED
        BY <3>1, <4>0, <4>3, ConnectionTypes
    <3> QED
      BY <3>1, <3>2, <3>3
  <2> QED
    BY <2>1, <2>2
<1>3. ASSUME NEW c \in Connections, Revoke(c) PROVE ConnectionScoped'
  <2>1. ASSUME NEW d \in Connections, d \notin overruled',
               handler'[d] = "serving", accepted[d] # Empty
        PROVE  /\ published'[SessionOf[d]] = published[SessionOf[d]]
               /\ handler[d] = "serving" /\ d \notin overruled
    <3>0. d \notin overruled /\ (Holds(c) => d \notin Twins(c))
      BY <1>3, <2>1, RevokeDoes
    <3>1. handler[d] = "serving" /\ d # c /\ handler[c] = "leaving"
      BY <1>3, <2>1, RevokeDoes
    <3>2. published[SessionOf[d]].owner = ProcessOf[d]
      <4>1. published[SessionOf[d]] = [owner |-> ProcessOf[d], variables |-> accepted[d]]
        BY <2>1, <3>0, <3>1
      <4> QED
        BY <4>1
    <3>3. ~(Holds(c) /\ SessionOf[c] = SessionOf[d])
      BY <1>1, <3>0, <3>1, <3>2 DEF Holds
    <3> QED
      BY <1>3, <3>0, <3>1, <3>3, RevokeDoes, ConnectionTypes
  <2> QED
    BY <1>3, <2>1, RevokeDoes
<1>4. ASSUME NEW c \in Connections, Leave(c) PROVE ConnectionScoped'
  BY <1>4 DEF Leave
<1>5. ASSUME NEW c \in Connections, Connect(c) PROVE ConnectionScoped'
  BY <1>5 DEF Connect, ToldWhileServed
<1>6. ASSUME NEW c \in Connections, Unregister(c) PROVE ConnectionScoped'
  BY <1>6 DEF Unregister
<1>7. CASE UNCHANGED <<published, handler, overruled, accepted>>
  BY <1>7
<1> QED
  BY <1>2, <1>3, <1>4, <1>5, <1>6, <1>7, StepKinds DEF Tell, Die
----------------------------------------------------------------------------
IInv == /\ TypeOK /\ RuntimeIsHeld /\ ToldWhileServed /\ Mergeable(published)
        /\ PublicationHasRevoker /\ ShownIsCurrent

\* The inductive invariant holds throughout.
THEOREM Invariant == Spec => []IInv
<1>1. Init => IInv
  <2> SUFFICES ASSUME Init PROVE IInv
    OBVIOUS
  <2>1. Publishers(published) = {}
    BY DEF Init, Publishers
  <2>2. DOMAIN Merged(published) = {}
    BY <2>1, MergedKeys
  <2>3. Merged(published) = Empty
    BY <2>1 DEF Merged, Empty
  <2>4. TypeOK
    BY SnapshotAssumption DEF Init, TypeOK, Empty
  <2> QED
    BY <2>1, <2>3, <2>4 DEF Init, IInv, RuntimeIsHeld, ToldWhileServed, Mergeable,
       PublicationHasRevoker, ShownIsCurrent
<1>2. IInv /\ [Next]_vars => IInv'
  <2> SUFFICES ASSUME IInv, [Next]_vars PROVE IInv'
    OBVIOUS
  <2> USE DEF IInv
  <2>1. CASE Next
    BY <2>1, TypeStep, RuntimeStep, ToldStep, MergeableStep, RevokerStep, ShownStep
  <2>2. CASE UNCHANGED vars
    BY <2>2 DEF vars, TypeOK, RuntimeIsHeld, ToldWhileServed, PublicationHasRevoker,
       ShownIsCurrent
  <2> QED
    BY <2>1, <2>2
<1> QED
  BY <1>1, <1>2, PTL DEF Spec

\* Type correctness of the live variables.
THEOREM TypeInvariant == Spec => []TypeOK
<1>1. IInv => TypeOK
  BY DEF IInv
<1> QED
  BY <1>1, Invariant, PTL

\* Whatever was published will be revoked: by a handler of the process that
\* published it (client_loop, service_publisher_loop).
THEOREM PublicationsAreRevoked == Spec => []PublicationHasRevoker
<1>1. IInv => PublicationHasRevoker
  BY DEF IInv
<1> QED
  BY <1>1, Invariant, PTL

\* Surfaces are told of every visible change (publish, revoke).
THEOREM SurfacesAreCurrent == Spec => []ShownIsCurrent
<1>1. IInv => ShownIsCurrent
  BY DEF IInv
<1> QED
  BY <1>1, Invariant, PTL

\* publish answers a connection truthfully for as long as it is served: only a
\* service connection of the same process and session can overrule it (publish,
\* revoke, and the order in which handle_client tears a runtime down).
THEOREM PublicationsLast == Spec => []ConnectionScoped
<1>1. Init => ConnectionScoped
  BY DEF Init, ConnectionScoped
<1>2. IInv /\ ConnectionScoped /\ [Next]_vars => ConnectionScoped'
  <2> SUFFICES ASSUME IInv, ConnectionScoped, [Next]_vars PROVE ConnectionScoped'
    OBVIOUS
  <2>1. CASE Next
    BY <2>1, ScopedStep DEF IInv
  <2>2. CASE UNCHANGED vars
    BY <2>2 DEF vars, ConnectionScoped
  <2> QED
    BY <2>1, <2>2
<1> QED
  BY <1>1, <1>2, Invariant, PTL DEF Spec

\* A publication is replaced or withdrawn by the handler of a connection of its
\* own process only, which leaves or has something to tell (publish, revoke).
THEOREM OwnersWithdraw == Spec => OnlyOwnerWithdraws
<1>1. ASSUME IInv, Next, NEW s \in Publishers(published), published'[s] # published[s]
      PROVE  \E c \in Connections :
                 /\ SessionOf[c] = s /\ ProcessOf[c] = published[s].owner
                 /\ handler'[c] # handler[c] \/ c \in telling' \ telling
  <2> USE DEF IInv
  <2>1. PICK c \in Connections : Revoke(c) \/ \E vals \in Snapshots : Publish(c, vals)
    BY <1>1, StepKinds DEF Connect, Leave, Tell, Unregister, Die
  <2>2. s = SessionOf[c] /\ published[s].owner = ProcessOf[c]
    BY <1>1, <2>1, WithdrawnByOwner
  <2>3. CASE Revoke(c)
    BY <1>1, <2>2, <2>3, RevokeDoes DEF TypeOK
  <2>4. ASSUME NEW vals \in Snapshots, Publish(c, vals)
        PROVE  c \in telling' \ telling
    <3>1. /\ c \notin telling /\ Tells(c, published')
          /\ published' = [published EXCEPT ![SessionOf[c]] = Publication(c, vals)]
      BY <1>1, <2>4, PublishDoes
    <3>2. SUFFICES Merged(published) # Merged(published')
      BY <3>1 DEF Tells, Changed
    <3>3. SUFFICES ASSUME Merged(published) = Merged(published') PROVE FALSE
      OBVIOUS
    <3>4. TypeOK' /\ Mergeable(published')
      BY <1>1, TypeStep, MergeableStep
    <3>5. s \in Publishers(published') /\ published'[s].variables = published[s].variables
      <4>1. published \in PublisherSets /\ published' \in PublisherSets
        BY <1>1, <3>4 DEF TypeOK, PublisherSets
      <4>2. s \in Sessions /\ \A t \in Sessions \ {s} : published'[t] = published[t]
        BY <2>2, <3>1, <4>1 DEF Publishers, PublisherSets
      <4> QED
        BY <1>1, <3>3, <3>4, <4>1, <4>2, ChangeIsVisible
    <3>6. published'[s] = Publication(c, vals) /\ published'[s] # Nothing
      BY <1>1, <2>2, <3>1, <3>5 DEF Publishers, TypeOK
    <3>7. published'[s] = [owner |-> ProcessOf[c], variables |-> vals]
      BY <3>6 DEF Publication
    <3>8. published[s] \in Publications
      BY <1>1 DEF Publishers, TypeOK
    <3>9. published[s] = [owner |-> published[s].owner, variables |-> published[s].variables]
      BY <3>8 DEF Publications
    <3> QED
      BY <1>1, <2>2, <3>5, <3>7, <3>9
  <2> QED
    BY <2>1, <2>2, <2>3, <2>4
<1>2. IInv /\ [Next]_vars =>
        [\A s \in Publishers(published) : published'[s] # published[s] =>
          \E c \in Connections :
              /\ SessionOf[c] = s /\ ProcessOf[c] = published[s].owner
              /\ handler'[c] # handler[c] \/ c \in telling' \ telling]_vars
  BY <1>1
<1> QED
  BY <1>2, Invariant, PTL DEF Spec, OnlyOwnerWithdraws
=============================================================================
