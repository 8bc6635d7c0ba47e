------------------------ MODULE ServiceJournalProofs ------------------------
(***************************************************************************)
(* Proofs about the journal of a module update's services and its driver,  *)
(* for any units, scenarios and processes.                                 *)
(*                                                                         *)
(* All but the order of the entries is told by two sets, the steps on      *)
(* record and those verified. What a power loss leaves trails what readers *)
(* see by at most one confirmation and one intent; the lifetime lock keeps *)
(* a second driver from the step of the first; and what a process holds in *)
(* memory tells which of the two successors it may publish.                *)
(***************************************************************************)
EXTENDS ServiceJournal, FiniteSetTheorems, SequenceTheorems, TLAPS

Rec(j) == {j[i].step : i \in DOMAIN j}
Ver(j) == {x \in Steps : Contains(j, Entry(x, TRUE))}

\* An entry is open only at the end, and no step is recorded twice.
Tidy(j) ==
    /\ \A i \in 1..(Len(j) - 1) : j[i].verified
    /\ \A i, n \in 1..Len(j) : j[i].step = j[n].step => i = n

\* What was recorded was allowed, and came in its order.
Ordered(j) ==
    \A u \in Units, op \in Ops :
        <<u, op>> \in Rec(j) => op \in Allowed(u) /\ InOrder(j, u, op)

\* Both checkpoints are journals; there is none before the units were captured.
Journals ==
    /\ Tidy(file.journal) /\ Tidy(durable.journal)
    /\ Ordered(file.journal) /\ Ordered(durable.journal)
    /\ ~file.exists => file = NoFile
    /\ file.exists => \A u \in Units : Preservable(u)
    /\ ~durable.exists => durable = NoFile
    /\ durable.exists => file.exists

\* What a power loss leaves trails the file, and an effect is known to it.
Trailing ==
    /\ Rec(durable.journal) \subseteq Rec(file.journal)
    /\ Ver(durable.journal) \subseteq Ver(file.journal)
    /\ Ver(file.journal) \subseteq happened
    /\ \A x \in Steps : /\ calls[x] \in {0, 1}
                        /\ calls[x] = 1 => x \in Rec(durable.journal)
                        /\ x \in happened => calls[x] = 1

Driving == {"intent", "syncing intent", "authorised", "applied"}

\* What a process holds is what its place says.
Holds(d) ==
    LET mem == driver[d]
        next == mem.next.journal
    IN  /\ mem.pc \in Driving => /\ life = d
                                 /\ mem.step \in Steps
                                 /\ next # <<>> /\ Last(next) = Entry(mem.step, FALSE)
        /\ mem.pc \in {"syncing", "syncing intent"} => guard = d
        /\ mem.pc = "opening" => /\ mem.next = [NoFile EXCEPT !.exists = TRUE]
                                 /\ \A u \in Units : Preservable(u)
        /\ mem.pc \in {"intent", "acknowledge"} => mem.next.generation > 0
        /\ mem.pc = "acknowledge" => /\ next # <<>> /\ Last(next).verified
                                     /\ Last(next).step \in happened
        /\ mem.pc = "syncing intent" => mem.step \in Rec(file.journal) /\ calls[mem.step] = 0
        /\ mem.pc = "authorised" => mem.step \in Rec(durable.journal) /\ calls[mem.step] = 0

Held == \A d \in Drivers : Holds(d)

\* A unit is as it was found, but for what happened to it and for a boot.
UnitFollows(u) ==
    /\ <<u, "WriteUnit">> \notin happened /\ <<u, "RemoveUnit">> \notin happened =>
           service[u].file = case[u].found.file
    /\ <<u, "Enable">> \notin happened =>
           IF <<u, "Disable">> \in happened THEN ~service[u].enabled
                                            ELSE service[u].enabled = case[u].found.enabled
    /\ <<u, "Start">> \notin happened /\ ~booted =>
           IF <<u, "Stop">> \in happened THEN ~service[u].active
                                         ELSE service[u].active = case[u].found.active

UnitsFollow == \A u \in Units : UnitFollows(u)

IInv == TypeOK /\ Journals /\ Trailing /\ Held /\ UnitsFollow

-----------------------------------------------------------------------------
(* Journals.                                                               *)

\* An entry is its step and whether it is verified.
LEMMA EntryShape ==
    /\ \A x : /\ Entry(x, TRUE).step = x /\ Entry(x, TRUE).verified
              /\ Entry(x, FALSE).step = x /\ ~Entry(x, FALSE).verified
    /\ \A x \in Steps, v \in BOOLEAN : Entry(x, v) \in Entries
    /\ \A e \in Entries : /\ e.step \in Steps /\ e.verified \in BOOLEAN
                          /\ e = Entry(e.step, e.verified)
<1>1. \A x : /\ Entry(x, TRUE).step = x /\ Entry(x, TRUE).verified
            /\ Entry(x, FALSE).step = x /\ ~Entry(x, FALSE).verified
  BY DEF Entry
<1>2. \A x \in Steps, v \in BOOLEAN : Entry(x, v) \in Entries
  BY DEF Entry, Entries
<1>3. ASSUME NEW e \in Entries
      PROVE  e.step \in Steps /\ e.verified \in BOOLEAN /\ e = Entry(e.step, e.verified)
  BY <1>3 DEF Entry, Entries
<1> QED
  BY <1>1, <1>2, <1>3

\* A journal is a finite sequence of entries.
LEMMA JournalShape ==
    ASSUME NEW j \in Seq(Entries)
    PROVE  /\ Len(j) \in Nat /\ DOMAIN j = 1..Len(j)
           /\ \A i \in 1..Len(j) : j[i] \in Entries
           /\ j # <<>> <=> Len(j) > 0
<1>1. Len(j) \in Nat /\ DOMAIN j = 1..Len(j)
  BY LenProperties
<1>2. \A i \in 1..Len(j) : j[i] \in Entries
  BY ElementOfSeq
<1>3. j # <<>> <=> Len(j) > 0
  BY EmptySeq, <1>1
<1> QED
  BY <1>1, <1>2, <1>3

\* The sets tell what is recorded, verified and pending.
LEMMA SetsTell ==
    ASSUME NEW j \in Seq(Entries)
    PROVE  /\ Rec(j) \subseteq Steps /\ Ver(j) \subseteq Rec(j)
           /\ \A x : Recorded(j, x) <=> x \in Rec(j)
           /\ \A u \in Units, op \in Ops : Verified(j, u, op) <=> <<u, op>> \in Ver(j)
           /\ \A x \in Steps : Contains(j, Entry(x, TRUE)) <=> x \in Ver(j)
<1>1. \A i \in DOMAIN j : j[i].step \in Steps
  BY JournalShape, EntryShape
<1>2. ASSUME NEW x \in Ver(j) PROVE x \in Rec(j)
  <2>1. PICK i \in 1..Len(j) : j[i] = Entry(x, TRUE)
    BY <1>2 DEF Ver, Contains
  <2>2. i \in DOMAIN j /\ j[i].step = x
    BY <2>1, JournalShape, EntryShape
  <2> QED
    BY <2>2 DEF Rec
<1>3. \A u \in Units, op \in Ops : <<u, op>> \in Steps
  BY DEF Steps
<1>4. Rec(j) \subseteq Steps
  BY <1>1 DEF Rec
<1>5. \A x : Recorded(j, x) <=> x \in Rec(j)
  BY DEF Rec, Recorded
<1>6. \A x \in Steps : Contains(j, Entry(x, TRUE)) <=> x \in Ver(j)
  BY DEF Ver
<1>7. \A u \in Units, op \in Ops : Verified(j, u, op) <=> <<u, op>> \in Ver(j)
  BY <1>3, <1>6 DEF Verified
<1> QED
  BY <1>2, <1>4, <1>5, <1>6, <1>7

\* In a tidy journal a step has one entry.
LEMMA OneEntry ==
    ASSUME NEW j \in Seq(Entries), Tidy(j)
    PROVE  /\ \A i \in 1..Len(j) : j[i].verified <=> j[i].step \in Ver(j)
           /\ Pending(j) = Rec(j) \ Ver(j)
           /\ \A x \in Steps : Contains(j, Entry(x, FALSE)) <=> x \in Rec(j) \ Ver(j)
           /\ Rec(j) \ Ver(j) # {} =>
                  /\ j # <<>> /\ ~Last(j).verified /\ Last(j).step \in Steps
                  /\ Rec(j) \ Ver(j) = {Last(j).step}
<1>1. \A i \in 1..Len(j) : /\ j[i].step \in Steps /\ j[i].verified \in BOOLEAN
                           /\ j[i] = Entry(j[i].step, j[i].verified)
  BY JournalShape, EntryShape
<1>2. DOMAIN j = 1..Len(j) /\ Len(j) \in Nat
  BY JournalShape
<1>3. \A i \in 1..Len(j) : j[i].verified <=> j[i].step \in Ver(j)
  <2> SUFFICES ASSUME NEW i \in 1..Len(j) PROVE j[i].verified <=> j[i].step \in Ver(j)
    OBVIOUS
  <2>1. ASSUME j[i].verified PROVE j[i].step \in Ver(j)
    <3>1. j[i].verified = TRUE
      BY <1>1, <2>1
    <3>2. j[i] = Entry(j[i].step, TRUE)
      BY <1>1, <3>1
    <3> QED
      BY <1>1, <3>2 DEF Ver, Contains
  <2>2. ASSUME j[i].step \in Ver(j) PROVE j[i].verified
    <3>1. PICK n \in 1..Len(j) : j[n] = Entry(j[i].step, TRUE)
      BY <2>2 DEF Ver, Contains
    <3>2. j[n].step = j[i].step /\ j[n].verified
      BY <3>1, EntryShape
    <3> QED
      BY <3>2 DEF Tidy
  <2> QED
    BY <2>1, <2>2
<1>4. Pending(j) = Rec(j) \ Ver(j)
  <2>1. ASSUME NEW x PROVE x \in Pending(j) <=> x \in Rec(j) \ Ver(j)
    BY <1>2, <1>3 DEF Pending, Rec
  <2> QED
    BY <2>1
<1>5. \A x \in Steps : Contains(j, Entry(x, FALSE)) <=> x \in Rec(j) \ Ver(j)
  <2> SUFFICES ASSUME NEW x \in Steps
               PROVE  Contains(j, Entry(x, FALSE)) <=> x \in Rec(j) \ Ver(j)
    OBVIOUS
  <2>1. ASSUME Contains(j, Entry(x, FALSE)) PROVE x \in Rec(j) \ Ver(j)
    <3>1. PICK i \in 1..Len(j) : j[i] = Entry(x, FALSE)
      BY <2>1 DEF Contains
    <3>2. j[i].step = x /\ ~j[i].verified
      BY <3>1, EntryShape
    <3> QED
      BY <1>2, <1>3, <3>2 DEF Rec
  <2>2. ASSUME x \in Rec(j) \ Ver(j) PROVE Contains(j, Entry(x, FALSE))
    <3>1. PICK i \in 1..Len(j) : j[i].step = x
      BY <1>2, <2>2 DEF Rec
    <3>2. j[i].verified = FALSE
      BY <1>1, <1>3, <2>2, <3>1
    <3>3. j[i] = Entry(x, FALSE)
      BY <1>1, <3>1, <3>2
    <3> QED
      BY <3>3 DEF Contains
  <2> QED
    BY <2>1, <2>2
<1>6. ASSUME NEW x \in Rec(j) \ Ver(j)
      PROVE  j # <<>> /\ ~Last(j).verified /\ Last(j).step = x
  <2>1. PICK i \in 1..Len(j) : j[i].step = x
    BY <1>2, <1>6 DEF Rec
  <2>2. ~j[i].verified
    BY <1>3, <1>6, <2>1
  <2>3. i \notin 1..(Len(j) - 1)
    BY <2>2 DEF Tidy
  <2>4. \A n \in Nat : \A a \in 1..n : a \notin 1..(n - 1) => a = n /\ n > 0
    OBVIOUS
  <2>5. i = Len(j) /\ Len(j) > 0
    BY <1>2, <2>1, <2>3, <2>4
  <2> QED
    BY <2>1, <2>2, <2>5, JournalShape DEF Last
<1>7. Rec(j) \subseteq Steps
  BY SetsTell
<1> QED
  BY <1>3, <1>4, <1>5, <1>6, <1>7

\* begin records a step, at the end and open.
LEMMA BeginRecords ==
    ASSUME NEW j \in Seq(Entries), Tidy(j), Pending(j) = {},
           NEW x \in Steps, x \notin Rec(j), NEW k, k = Append(j, Entry(x, FALSE))
    PROVE  /\ k \in Seq(Entries) /\ Tidy(k) /\ k # <<>> /\ Last(k) = Entry(x, FALSE)
           /\ Rec(k) = Rec(j) \cup {x} /\ Ver(k) = Ver(j)
<1>1. Entry(x, FALSE) \in Entries /\ Len(j) \in Nat
  BY EntryShape, JournalShape
<1>2. /\ k \in Seq(Entries) /\ Len(k) = Len(j) + 1
      /\ \A i \in 1..Len(j) : k[i] = j[i]
      /\ k[Len(k)] = Entry(x, FALSE)
  <2> DEFINE e == Entry(x, FALSE)
  <2>1. e \in Entries
    BY <1>1
  <2> HIDE DEF e
  <2>2. /\ Append(j, e) \in Seq(Entries) /\ Len(Append(j, e)) = Len(j) + 1
        /\ \A i \in 1..Len(j) : Append(j, e)[i] = j[i]
        /\ Append(j, e)[Len(j) + 1] = e
    BY <2>1, AppendProperties
  <2>3. k = Append(j, e) /\ e = Entry(x, FALSE)
    BY DEF e
  <2> QED
    BY <2>2, <2>3
<1>3. \A i \in 1..Len(k) : i = Len(k) \/ i \in 1..Len(j)
  BY <1>1, <1>2
<1>4. DOMAIN k = 1..Len(k) /\ DOMAIN j = 1..Len(j) /\ k # <<>>
  <2>1. Len(k) > 0
    BY <1>1, <1>2
  <2> QED
    BY <1>2, <2>1, JournalShape
<1>5. /\ k[Len(k)].step = x /\ ~k[Len(k)].verified
      /\ Len(k) \in 1..Len(k)
      /\ \A i \in 1..Len(j) : i \in 1..Len(k) /\ i # Len(k)
  <2>1. k[Len(k)].step = x /\ ~k[Len(k)].verified
    BY <1>2, EntryShape
  <2>2. Len(k) \in 1..Len(k) /\ \A i \in 1..Len(j) : i \in 1..Len(k) /\ i # Len(k)
    BY <1>1, <1>2
  <2> QED
    BY <2>1, <2>2
<1>6. Rec(k) = Rec(j) \cup {x}
  <2>1. ASSUME NEW y \in Rec(k) PROVE y \in Rec(j) \cup {x}
    <3>1. PICK i \in 1..Len(k) : k[i].step = y
      BY <1>4, <2>1 DEF Rec
    <3> QED
      BY <1>2, <1>3, <1>4, <1>5, <3>1 DEF Rec
  <2>2. ASSUME NEW y \in Rec(j) \cup {x} PROVE y \in Rec(k)
    <3>1. CASE y = x
      BY <1>4, <1>5, <3>1 DEF Rec
    <3>2. CASE y \in Rec(j)
      <4>1. PICK i \in 1..Len(j) : j[i].step = y
        BY <1>4, <3>2 DEF Rec
      <4> QED
        BY <1>2, <1>4, <1>5, <4>1 DEF Rec
    <3> QED
      BY <2>2, <3>1, <3>2
  <2> QED
    BY <2>1, <2>2
<1>7. \A y \in Steps : Contains(k, Entry(y, TRUE)) <=> Contains(j, Entry(y, TRUE))
  <2>1. \A y : Entry(y, TRUE) # Entry(x, FALSE)
    <3>1. \A y : Entry(y, TRUE).verified /\ ~Entry(x, FALSE).verified
      BY EntryShape
    <3> QED
      BY <3>1
  <2> QED
    BY <1>2, <1>3, <1>5, <2>1 DEF Contains
<1>8. Ver(k) = Ver(j)
  BY <1>7 DEF Ver
<1>9. \A i \in 1..Len(j) : j[i].verified /\ j[i].step # x
  <2>1. \A i \in 1..Len(j) : j[i].step \in Rec(j)
    BY <1>4 DEF Rec
  <2>2. Rec(j) \ Ver(j) = {}
    <3>1. Pending(j) = Rec(j) \ Ver(j)
      BY OneEntry
    <3> QED
      BY <3>1
  <2>3. \A i \in 1..Len(j) : j[i].verified <=> j[i].step \in Ver(j)
    BY OneEntry
  <2> QED
    BY <2>1, <2>2, <2>3
<1>10. Tidy(k)
  <2>1. \A i \in 1..(Len(k) - 1) : i \in 1..Len(j)
    BY <1>1, <1>2
  <2>2. \A i, n \in 1..Len(k) : k[i].step = k[n].step => i = n
    <3> SUFFICES ASSUME NEW i \in 1..Len(k), NEW n \in 1..Len(k), k[i].step = k[n].step
                 PROVE  i = n
      OBVIOUS
    <3>1. CASE i \in 1..Len(j) /\ n \in 1..Len(j)
      <4>1. j[i].step = j[n].step
        BY <1>2, <3>1
      <4> QED
        BY <3>1, <4>1 DEF Tidy
    <3>2. CASE i = Len(k) /\ n = Len(k)
      BY <3>2
    <3>3. CASE i = Len(k) /\ n \in 1..Len(j)
      BY <1>2, <1>5, <1>9, <3>3
    <3>4. CASE n = Len(k) /\ i \in 1..Len(j)
      BY <1>2, <1>5, <1>9, <3>4
    <3> QED
      BY <1>3, <3>1, <3>2, <3>3, <3>4
  <2> QED
    BY <1>2, <1>9, <2>1, <2>2 DEF Tidy
<1> QED
  BY <1>2, <1>4, <1>6, <1>8, <1>10 DEF Last

\* confirm closes the open step, and nothing else.
LEMMA ConfirmCloses ==
    ASSUME NEW j \in Seq(Entries), Tidy(j), Pending(j) # {},
           NEW k, k = Append(Front(j), Entry(Last(j).step, TRUE))
    PROVE  /\ k \in Seq(Entries) /\ Tidy(k) /\ k # <<>>
           /\ Last(k).verified /\ Last(k).step = Last(j).step /\ Pending(j) = {Last(j).step}
           /\ Rec(k) = Rec(j) /\ Ver(k) = Rec(j)
<1>0. Pending(j) = {Last(j).step} /\ Last(j).step \in Steps /\ j # <<>>
  BY OneEntry
<1>1. Entry(Last(j).step, TRUE) \in Entries
  BY <1>0, EntryShape
<1>2. Len(j) \in Nat /\ Len(j) > 0 /\ Len(j) \in 1..Len(j)
  BY <1>0, JournalShape
<1>3. /\ Front(j) \in Seq(Entries) /\ Len(Front(j)) = Len(j) - 1
      /\ \A i \in 1..(Len(j) - 1) : Front(j)[i] = j[i]
  <2>1. \A i \in 1..(Len(j) - 1) : j[i] \in Entries
    BY <1>2, JournalShape
  <2>2. 1 \in Int /\ Len(j) - 1 \in Int
    BY <1>2
  <2>3. /\ SubSeq(j, 1, Len(j) - 1) \in Seq(Entries)
        /\ Len(SubSeq(j, 1, Len(j) - 1)) = IF 1 <= Len(j) - 1 THEN (Len(j) - 1) - 1 + 1 ELSE 0
        /\ \A i \in 1 .. (Len(j) - 1) - 1 + 1 : SubSeq(j, 1, Len(j) - 1)[i] = j[1 + i - 1]
    BY <2>1, <2>2, SubSeqProperties
  <2>4. \A i \in 1..(Len(j) - 1) : i \in 1 .. (Len(j) - 1) - 1 + 1 /\ 1 + i - 1 = i
    BY <1>2
  <2>5. Len(SubSeq(j, 1, Len(j) - 1)) = Len(j) - 1
    <3>1. \A n \in Nat : n > 0 => (IF 1 <= n - 1 THEN (n - 1) - 1 + 1 ELSE 0) = n - 1
      OBVIOUS
    <3> QED
      BY <1>2, <2>3, <3>1
  <2>6. \A i \in 1..(Len(j) - 1) : SubSeq(j, 1, Len(j) - 1)[i] = j[i]
    <3> TAKE i \in 1..(Len(j) - 1)
    <3>1. SubSeq(j, 1, Len(j) - 1)[i] = j[1 + i - 1]
      BY <2>3, <2>4
    <3> QED
      BY <2>4, <3>1
  <2> QED
    BY <2>3, <2>5, <2>6 DEF Front
<1>4. /\ k \in Seq(Entries) /\ Len(k) = Len(j)
      /\ \A i \in 1..(Len(j) - 1) : k[i] = j[i]
      /\ k[Len(j)] = Entry(Last(j).step, TRUE)
  <2>1. /\ k \in Seq(Entries) /\ Len(k) = Len(Front(j)) + 1
        /\ \A i \in 1..Len(Front(j)) : k[i] = Front(j)[i]
        /\ k[Len(Front(j)) + 1] = Entry(Last(j).step, TRUE)
    BY <1>1, <1>3, AppendProperties
  <2>2. Len(Front(j)) + 1 = Len(j)
    BY <1>2, <1>3
  <2> QED
    BY <1>3, <2>1, <2>2
<1>5. \A i \in 1..Len(j) : k[i].step = j[i].step /\ k[i].verified
  <2> SUFFICES ASSUME NEW i \in 1..Len(j) PROVE k[i].step = j[i].step /\ k[i].verified
    OBVIOUS
  <2>1. CASE i = Len(j)
    <3>1. k[i] = Entry(Last(j).step, TRUE) /\ Last(j) = j[i]
      BY <1>4, <2>1 DEF Last
    <3>2. k[i].step = Last(j).step /\ k[i].verified
      BY <3>1, EntryShape
    <3> QED
      BY <3>1, <3>2
  <2>2. CASE i # Len(j)
    <3>1. i \in 1..(Len(j) - 1)
      BY <1>2, <2>2
    <3> QED
      BY <1>4, <3>1 DEF Tidy
  <2> QED
    BY <2>1, <2>2
<1>6. DOMAIN k = 1..Len(j) /\ DOMAIN j = 1..Len(j) /\ k # <<>>
  BY <1>2, <1>4, JournalShape
<1>7. Rec(k) = Rec(j)
  BY <1>5, <1>6 DEF Rec
<1>8. Tidy(k)
  <2>1. \A i \in 1..(Len(j) - 1) : i \in 1..Len(j)
    BY <1>2
  <2>2. \A i, n \in 1..Len(j) : k[i].step = k[n].step => i = n
    <3> TAKE i, n \in 1..Len(j)
    <3>1. k[i].step = j[i].step /\ k[n].step = j[n].step
      BY <1>5
    <3> QED
      BY <3>1 DEF Tidy
  <2> QED
    BY <1>4, <1>5, <2>1, <2>2 DEF Tidy
<1>9. Ver(k) = Rec(j)
  <2>1. \A i \in 1..Len(k) : k[i].step \in Ver(k)
    BY <1>4, <1>5, <1>8, OneEntry
  <2>2. Rec(k) \subseteq Ver(k)
    BY <1>4, <1>6, <2>1 DEF Rec
  <2>3. Ver(k) \subseteq Rec(k)
    BY <1>4, SetsTell
  <2> QED
    BY <1>7, <2>2, <2>3
<1>10. Last(k).verified /\ Last(k).step = Last(j).step
  <2>1. Last(k) = Entry(Last(j).step, TRUE)
    BY <1>4 DEF Last
  <2> QED
    BY <2>1, EntryShape
<1> QED
  BY <1>0, <1>4, <1>6, <1>7, <1>8, <1>9, <1>10

\* A checkpoint that begins a step.
LEMMA BegunIs ==
    ASSUME NEW cp \in Checkpoints, Tidy(cp.journal), NEW u \in Units, NEW op \in Ops,
           MayBegin(cp.journal, u, op), NEW next, next = Begun(cp, <<u, op>>)
    PROVE  /\ next \in Checkpoints /\ Tidy(next.journal)
           /\ next.generation > 0 /\ next.exists = cp.exists
           /\ next.journal # <<>> /\ Last(next.journal) = Entry(<<u, op>>, FALSE)
           /\ ~Last(next.journal).verified
           /\ \A x : x \in Rec(next.journal) <=> x \in Rec(cp.journal) \/ x = <<u, op>>
           /\ Ver(next.journal) = Ver(cp.journal)
           /\ <<u, op>> \in Steps /\ <<u, op>> \notin Rec(cp.journal)
<1>1. cp.journal \in Seq(Entries) /\ cp.generation \in Nat /\ cp.exists \in BOOLEAN
  BY DEF Checkpoints
<1>2. <<u, op>> \in Steps /\ <<u, op>> \notin Rec(cp.journal) /\ Pending(cp.journal) = {}
  BY <1>1, SetsTell DEF MayBegin, Steps
<1>3. /\ next.journal = Append(cp.journal, Entry(<<u, op>>, FALSE))
      /\ next.generation = cp.generation + 1 /\ next.exists = cp.exists
      /\ next = [generation |-> next.generation, journal |-> next.journal,
                 exists |-> next.exists]
  BY DEF Begun, Checkpoints
<1>4. /\ next.journal \in Seq(Entries) /\ Tidy(next.journal) /\ next.journal # <<>>
      /\ Last(next.journal) = Entry(<<u, op>>, FALSE)
      /\ Rec(next.journal) = Rec(cp.journal) \cup {<<u, op>>}
      /\ Ver(next.journal) = Ver(cp.journal)
  BY <1>1, <1>2, <1>3, BeginRecords
<1>5. next.generation \in Nat /\ next.generation > 0
  BY <1>1, <1>3
<1>6. next \in Checkpoints
  BY <1>1, <1>3, <1>4, <1>5 DEF Checkpoints
<1>7. ~Last(next.journal).verified
  BY <1>4, EntryShape
<1>8. \A x : x \in Rec(next.journal) <=> x \in Rec(cp.journal) \/ x = <<u, op>>
  BY <1>4
<1> QED
  BY <1>8, <1>2, <1>3, <1>4, <1>5, <1>6, <1>7

\* A checkpoint that confirms the open step.
LEMMA ConfirmedIs ==
    ASSUME NEW cp \in Checkpoints, Tidy(cp.journal), Pending(cp.journal) # {},
           NEW next, next = Confirmed(cp)
    PROVE  /\ next \in Checkpoints /\ Tidy(next.journal)
           /\ next.generation > 0 /\ next.exists = cp.exists
           /\ next.journal # <<>> /\ Last(next.journal).verified
           /\ Last(next.journal).step = Last(cp.journal).step
           /\ Pending(cp.journal) = {Last(cp.journal).step}
           /\ Rec(next.journal) = Rec(cp.journal) /\ Ver(next.journal) = Rec(cp.journal)
<1>1. cp.journal \in Seq(Entries) /\ cp.generation \in Nat /\ cp.exists \in BOOLEAN
  BY DEF Checkpoints
<1>2. /\ next.journal = Append(Front(cp.journal), Entry(Last(cp.journal).step, TRUE))
      /\ next.generation = cp.generation + 1 /\ next.exists = cp.exists
      /\ next = [generation |-> next.generation, journal |-> next.journal,
                 exists |-> next.exists]
  BY DEF Confirmed, Checkpoints
<1>3. /\ next.journal \in Seq(Entries) /\ Tidy(next.journal) /\ next.journal # <<>>
      /\ Last(next.journal).verified
      /\ Last(next.journal).step = Last(cp.journal).step
      /\ Pending(cp.journal) = {Last(cp.journal).step}
      /\ Rec(next.journal) = Rec(cp.journal) /\ Ver(next.journal) = Rec(cp.journal)
  BY <1>1, <1>2, ConfirmCloses
<1>4. next.generation \in Nat /\ next.generation > 0
  BY <1>1, <1>2
<1>5. next \in Checkpoints
  BY <1>1, <1>2, <1>3, <1>4 DEF Checkpoints
<1> QED
  BY <1>2, <1>3, <1>4, <1>5

\* There is nothing in no file, or in an opened one.
LEMMA NothingYet ==
    /\ NoFile \in Checkpoints /\ NoFile.journal = <<>> /\ NoFile.exists = FALSE
    /\ LET opened == [NoFile EXCEPT !.exists = TRUE]
       IN  /\ opened \in Checkpoints /\ opened.journal = <<>>
           /\ opened.exists = TRUE /\ opened.generation = 0
    /\ <<>> \in Seq(Entries) /\ Tidy(<<>>) /\ Rec(<<>>) = {} /\ Ver(<<>>) = {}
    /\ Ordered(<<>>)
<1>1. <<>> \in Seq(Entries) /\ Len(<<>>) = 0
  BY EmptySeq
<1>2. NoFile \in Checkpoints /\ NoFile.journal = <<>> /\ NoFile.exists = FALSE
  BY <1>1 DEF NoFile, Checkpoints
<1>3. LET opened == [NoFile EXCEPT !.exists = TRUE]
      IN  /\ opened \in Checkpoints /\ opened.journal = <<>>
          /\ opened.exists = TRUE /\ opened.generation = 0
  BY <1>1 DEF NoFile, Checkpoints
<1>4. DOMAIN <<>> = {} /\ 1..Len(<<>>) = {} /\ 1..(Len(<<>>) - 1) = {}
  <2>1. DOMAIN <<>> = 1..Len(<<>>)
    BY <1>1, JournalShape
  <2>2. 1..0 = {} /\ 1..(0 - 1) = {}
    OBVIOUS
  <2> QED
    BY <1>1, <2>1, <2>2
<1>5. Rec(<<>>) = {}
  BY <1>4 DEF Rec
<1>6. Ver(<<>>) = {}
  BY <1>1, <1>5, SetsTell
<1>7. Tidy(<<>>)
  BY <1>4 DEF Tidy
<1>8. Ordered(<<>>)
  BY <1>5 DEF Ordered
<1> QED
  BY <1>1, <1>2, <1>3, <1>5, <1>6, <1>7, <1>8

\* What came in its order stays so as more is verified, and as it is begun.
LEMMA OrderKeeps ==
    ASSUME NEW j \in Seq(Entries), Ordered(j), NEW k \in Seq(Entries), Ver(j) \subseteq Ver(k),
           \A u \in Units, op \in Ops :
               <<u, op>> \in Rec(k) => <<u, op>> \in Rec(j) \/ MayBegin(j, u, op)
    PROVE  Ordered(k)
<1> SUFFICES ASSUME NEW u \in Units, NEW op \in Ops, <<u, op>> \in Rec(k)
             PROVE  op \in Allowed(u) /\ InOrder(k, u, op)
  BY DEF Ordered
<1>1. op \in Allowed(u) /\ InOrder(j, u, op)
  BY DEF Ordered, MayBegin
<1>2. \A o \in Ops : Verified(j, u, o) => Verified(k, u, o)
  BY SetsTell
<1>3. {"Stop", "Disable", "WriteUnit", "RemoveUnit", "ManagerReload"} \subseteq Ops
  BY DEF Ops
<1>4. InOrder(k, u, op)
  BY <1>1, <1>2, <1>3 DEF InOrder
<1> QED
  BY <1>1, <1>4

-----------------------------------------------------------------------------
(* The driver.                                                             *)

\* What a process is given in memory changes no other process.
LEMMA SetDoes ==
    ASSUME driver \in [Drivers -> Memory], NEW d \in Drivers, NEW m \in Memory,
           driver' = [driver EXCEPT ![d] = m]
    PROVE  /\ driver' \in [Drivers -> Memory] /\ driver'[d] = m
           /\ \A e \in Drivers \ {d} : driver'[e] = driver[e]
OBVIOUS

\* Going on to a place keeps what is in memory.
LEMMA GoDoes ==
    ASSUME driver \in [Drivers -> Memory], NEW d \in Drivers, NEW pc \in Places, Go(d, pc)
    PROVE  /\ driver' \in [Drivers -> Memory] /\ driver'[d].pc = pc
           /\ driver'[d].next = driver[d].next /\ driver'[d].step = driver[d].step
           /\ \A e \in Drivers \ {d} : driver'[e] = driver[e]
<1>1. driver[d] \in Memory
  OBVIOUS
<1>2. [driver[d] EXCEPT !.pc = pc] \in Memory
  BY <1>1 DEF Memory
<1> QED
  BY <1>1, <1>2 DEF Go, Memory

\* Who leaves is idle, and only its own locks are free.
LEMMA LeaveDoes ==
    ASSUME driver \in [Drivers -> Memory], {life, guard} \subseteq Drivers \cup {Nobody},
           NEW d \in Drivers, Leave(d)
    PROVE  /\ driver' \in [Drivers -> Memory] /\ driver'[d] = Idle
           /\ {life', guard'} \subseteq Drivers \cup {Nobody}
           /\ \A e \in Drivers \ {d} : /\ driver'[e] = driver[e]
                                       /\ life = e => life' = e
                                       /\ guard = e => guard' = e
<1>1. Idle \in Memory
  BY NothingYet DEF Idle, Memory, Places
<1> QED
  BY <1>1 DEF Leave

\* The scenario stays, and with it what is allowed and in order.
LEMMA CaseStays ==
    ASSUME case' = case
    PROVE  /\ \A u \in Units : Preservable(u)' <=> Preservable(u)
           /\ Ordered(file.journal)' <=> Ordered(file'.journal)
           /\ Ordered(durable.journal)' <=> Ordered(durable'.journal)
<1>1. \A u : Transition(u)' = Transition(u)
  BY DEF Transition
<1>2. \A u : Target(u)' = Target(u)
  BY <1>1 DEF Target
<1>3. \A u : Preservable(u)' <=> Preservable(u)
  BY <1>1 DEF Preservable
<1>4. \A u : Allowed(u)' = Allowed(u)
  BY <1>1, <1>2 DEF Allowed
<1>5. \A u : (WasActive(u)' <=> WasActive(u)) /\ (WasEnabled(u)' <=> WasEnabled(u))
  BY <1>2 DEF WasActive, WasEnabled
<1>6. Ordered(file.journal)' <=> Ordered(file'.journal)
  BY <1>4, <1>5 DEF Ordered, InOrder, Verified, Rec, Entry, Contains
<1>7. Ordered(durable.journal)' <=> Ordered(durable'.journal)
  BY <1>4, <1>5 DEF Ordered, InOrder, Verified, Rec, Entry, Contains
<1> QED
  BY <1>3, <1>6, <1>7

\* A store publishes the checkpoint that follows the file: the opened one, the
\* step its process began, or the confirmation of a step that happened.
LEMMA PublishDoes ==
    ASSUME IInv, NEW d \in Drivers, Publish(d)
    PROVE  /\ file' \in Checkpoints /\ Tidy(file'.journal) /\ Ordered(file'.journal)
           /\ file'.exists /\ \A u \in Units : Preservable(u)
           /\ Rec(file.journal) \subseteq Rec(file'.journal)
           /\ Ver(file.journal) \subseteq Ver(file'.journal)
           /\ Ver(file'.journal) \subseteq happened
           /\ driver[d].pc = "intent" => driver[d].step \in Rec(file'.journal) \ Rec(file.journal)
           /\ driver[d].pc # "intent" => driver'[d].pc = "syncing"
           /\ driver[d].pc = "intent" => driver'[d].pc = "syncing intent"
           /\ driver' \in [Drivers -> Memory]
           /\ driver'[d].next = driver[d].next /\ driver'[d].step = driver[d].step
           /\ \A e \in Drivers \ {d} : driver'[e] = driver[e]
<1> DEFINE next == driver[d].next
<1>1. /\ driver \in [Drivers -> Memory] /\ file \in Checkpoints /\ driver[d] \in Memory
      /\ file.journal \in Seq(Entries)
  BY DEF IInv, TypeOK, Checkpoints
<1>2. /\ Tidy(file.journal) /\ Ordered(file.journal)
      /\ ~file.exists => file = NoFile
      /\ file.exists => \A u \in Units : Preservable(u)
      /\ Ver(file.journal) \subseteq happened
      /\ Holds(d)
  BY DEF IInv, Journals, Trailing, Held
<1>3. /\ file' = next /\ ValidSuccessor(file, next)
      /\ driver[d].pc \in {"opening", "intent", "acknowledge"}
  BY DEF Publish
<1>4. next \in Checkpoints /\ next.generation \in Nat /\ next.journal \in Seq(Entries)
  BY <1>1 DEF Memory, Checkpoints
<1>5. /\ driver[d].pc # "intent" => driver'[d].pc = "syncing"
      /\ driver[d].pc = "intent" => driver'[d].pc = "syncing intent"
      /\ driver' \in [Drivers -> Memory]
      /\ driver'[d].next = driver[d].next /\ driver'[d].step = driver[d].step
      /\ \A e \in Drivers \ {d} : driver'[e] = driver[e]
  <2>1. PICK pc \in {"syncing", "syncing intent"} :
           /\ Go(d, pc)
           /\ driver[d].pc # "intent" => pc = "syncing"
           /\ driver[d].pc = "intent" => pc = "syncing intent"
    BY DEF Publish, At
  <2>2. pc \in Places
    BY <2>1 DEF Places
  <2> QED
    BY <1>1, <2>1, <2>2, GoDoes
<1>6. CASE driver[d].pc = "opening"
  <2>1. next = [NoFile EXCEPT !.exists = TRUE] /\ \A u \in Units : Preservable(u)
    BY <1>2, <1>6 DEF Holds
  <2>2. next.generation = 0 /\ next.journal = <<>> /\ next.exists
    BY <2>1, NothingYet
  <2>3. ~file.exists
    <3>1. file.generation \in Nat
      BY <1>1 DEF Checkpoints
    <3>2. file.exists => 0 = file.generation + 1
      BY <1>3, <2>2 DEF ValidSuccessor
    <3> QED
      BY <3>1, <3>2
  <2>4. file.journal = <<>>
    BY <1>2, <2>3, NothingYet
  <2> QED
    BY <1>3, <1>4, <1>5, <1>6, <2>1, <2>2, <2>4, NothingYet
<1>7. CASE driver[d].pc \in {"intent", "acknowledge"}
  <2>1. file.exists
    <3>1. next.generation > 0
      BY <1>2, <1>7 DEF Holds
    <3>2. ~file.exists => next.generation = 0
      BY <1>3 DEF ValidSuccessor
    <3> QED
      BY <3>1, <3>2
  <2>2. \/ \E u \in Units, op \in Ops :
               MayBegin(file.journal, u, op) /\ next = Begun(file, <<u, op>>)
        \/ Pending(file.journal) # {} /\ next = Confirmed(file)
    BY <1>3, <2>1 DEF ValidSuccessor
  <2>3. ASSUME NEW u \in Units, NEW op \in Ops,
               MayBegin(file.journal, u, op), next = Begun(file, <<u, op>>)
        PROVE  /\ Tidy(next.journal) /\ Ordered(next.journal) /\ next.exists
               /\ \A x : x \in Rec(next.journal) <=> x \in Rec(file.journal) \/ x = <<u, op>>
               /\ Ver(next.journal) = Ver(file.journal)
               /\ <<u, op>> \notin Rec(file.journal)
               /\ driver[d].pc = "intent" /\ driver[d].step = <<u, op>>
    <3> HIDE DEF next
    <3>1. /\ Tidy(next.journal) /\ next.exists = file.exists
          /\ \A x : x \in Rec(next.journal) <=> x \in Rec(file.journal) \/ x = <<u, op>>
          /\ Ver(next.journal) = Ver(file.journal)
          /\ <<u, op>> \notin Rec(file.journal)
          /\ ~Last(next.journal).verified /\ Last(next.journal) = Entry(<<u, op>>, FALSE)
      BY <1>1, <1>2, <2>3, BegunIs
    <3>2. driver[d].pc = "intent"
      BY <1>2, <1>7, <3>1 DEF Holds, next
    <3>3. Last(next.journal) = Entry(driver[d].step, FALSE)
      BY <1>2, <3>2 DEF Holds, Driving, next
    <3>4. driver[d].step = <<u, op>>
      <4>1. /\ Entry(driver[d].step, FALSE).step = driver[d].step
            /\ Entry(<<u, op>>, FALSE).step = <<u, op>>
        BY EntryShape
      <4> QED
        BY <3>1, <3>3, <4>1
    <3>5. \A v \in Units, o \in Ops :
             <<v, o>> \in Rec(next.journal) =>
                 <<v, o>> \in Rec(file.journal) \/ MayBegin(file.journal, v, o)
      BY <2>3, <3>1
    <3>6. Ordered(next.journal)
      BY <1>1, <1>2, <1>4, <3>1, <3>5, OrderKeeps
    <3> QED
      BY <2>1, <3>1, <3>2, <3>4, <3>6
  <2>4. ASSUME Pending(file.journal) # {}, next = Confirmed(file)
        PROVE  /\ Tidy(next.journal) /\ Ordered(next.journal) /\ next.exists
               /\ Rec(next.journal) = Rec(file.journal)
               /\ Ver(file.journal) \subseteq Ver(next.journal)
               /\ Ver(next.journal) \subseteq happened
               /\ driver[d].pc = "acknowledge"
    <3>1. /\ Tidy(next.journal) /\ next.exists = file.exists
          /\ Rec(next.journal) = Rec(file.journal) /\ Ver(next.journal) = Rec(file.journal)
          /\ Last(next.journal).verified
          /\ Last(next.journal).step = Last(file.journal).step
          /\ Pending(file.journal) = {Last(file.journal).step}
      BY <1>1, <1>2, <2>4, ConfirmedIs
    <3>2. driver[d].pc = "acknowledge"
      <4>1. \A x : ~Entry(x, FALSE).verified
        BY EntryShape
      <4>2. driver[d].pc = "intent" => Last(next.journal) = Entry(driver[d].step, FALSE)
        BY <1>2 DEF Holds, Driving
      <4> QED
        BY <1>7, <3>1, <4>1, <4>2
    <3>3. Last(next.journal).step \in happened
      BY <1>2, <3>2 DEF Holds
    <3>4. Ver(file.journal) \subseteq Rec(file.journal)
      BY <1>1, SetsTell
    <3>5. Pending(file.journal) = Rec(file.journal) \ Ver(file.journal)
      BY <1>1, <1>2, OneEntry
    <3>6. Rec(file.journal) \subseteq happened
      BY <1>2, <3>1, <3>3, <3>5
    <3>7. Ordered(next.journal)
      BY <1>1, <1>2, <1>4, <3>1, <3>4, OrderKeeps
    <3> QED
      BY <2>1, <3>1, <3>2, <3>4, <3>6, <3>7
  <2>5. CASE \E u \in Units, op \in Ops :
                MayBegin(file.journal, u, op) /\ next = Begun(file, <<u, op>>)
    <3>1. PICK u \in Units, op \in Ops :
             MayBegin(file.journal, u, op) /\ next = Begun(file, <<u, op>>)
      BY <2>5
    <3>2. /\ Tidy(next.journal) /\ Ordered(next.journal) /\ next.exists
          /\ \A x : x \in Rec(next.journal) <=> x \in Rec(file.journal) \/ x = <<u, op>>
          /\ Ver(next.journal) = Ver(file.journal)
          /\ <<u, op>> \notin Rec(file.journal)
          /\ driver[d].pc = "intent" /\ driver[d].step = <<u, op>>
      BY <2>3, <3>1
    <3> QED
      BY <1>2, <1>3, <1>4, <1>5, <2>1, <3>2
  <2>6. CASE Pending(file.journal) # {} /\ next = Confirmed(file)
    BY <1>2, <1>3, <1>4, <1>5, <2>1, <2>4, <2>6
  <2> QED
    BY <2>2, <2>5, <2>6
<1> QED
  BY <1>3, <1>6, <1>7

\* A process that begins holds the first entry of its step, and the lifetime lock.
LEMMA BeginDoes ==
    ASSUME IInv, NEW d \in Drivers, NEW u \in Units, NEW op \in Ops, Begin(d, u, op)
    PROVE  /\ driver' \in [Drivers -> Memory]
           /\ driver'[d].pc = "intent" /\ driver'[d].step = <<u, op>> /\ <<u, op>> \in Steps
           /\ driver'[d].next.generation > 0 /\ driver'[d].next.journal # <<>>
           /\ Last(driver'[d].next.journal) = Entry(<<u, op>>, FALSE)
           /\ \A e \in Drivers \ {d} : driver'[e] = driver[e]
<1> DEFINE m == [pc |-> "intent", next |-> Begun(file, <<u, op>>), step |-> <<u, op>>]
<1>1. driver \in [Drivers -> Memory] /\ file \in Checkpoints /\ Tidy(file.journal)
  BY DEF IInv, TypeOK, Journals
<1>2. MayBegin(file.journal, u, op) /\ driver' = [driver EXCEPT ![d] = m]
  BY DEF Begin
<1>3. /\ Begun(file, <<u, op>>) \in Checkpoints /\ Begun(file, <<u, op>>).generation > 0
      /\ Begun(file, <<u, op>>).journal # <<>> /\ <<u, op>> \in Steps
      /\ Last(Begun(file, <<u, op>>).journal) = Entry(<<u, op>>, FALSE)
  BY <1>1, <1>2, BegunIs
<1>4. m \in Memory
  BY <1>3 DEF Memory, Places
<1>5. /\ m.pc = "intent" /\ m.step = <<u, op>> /\ m.next = Begun(file, <<u, op>>)
  OBVIOUS
<1> HIDE DEF m
<1>6. driver' \in [Drivers -> Memory] /\ driver'[d] = m
      /\ \A e \in Drivers \ {d} : driver'[e] = driver[e]
  BY <1>1, <1>2, <1>4, SetDoes
<1> QED
  BY <1>3, <1>5, <1>6

\* A process that acknowledges holds the closed entry of a step that happened.
Acknowledges(d) ==
    /\ driver' \in [Drivers -> Memory]
    /\ driver'[d].pc = "acknowledge"
    /\ driver'[d].next.generation > 0 /\ driver'[d].next.journal # <<>>
    /\ Last(driver'[d].next.journal).verified
    /\ Last(driver'[d].next.journal).step \in happened
    /\ \A e \in Drivers \ {d} : driver'[e] = driver[e]

LEMMA ReconcileDoes ==
    ASSUME IInv, NEW d \in Drivers, Reconcile(d)
    PROVE  Acknowledges(d)
<1>1. /\ driver \in [Drivers -> Memory] /\ file \in Checkpoints /\ Tidy(file.journal)
      /\ file.journal \in Seq(Entries)
  BY DEF IInv, TypeOK, Journals, Checkpoints
<1>2. PICK step \in Pending(file.journal) :
         /\ step \in happened
         /\ driver' = [driver EXCEPT ![d] =
               [pc |-> "acknowledge", next |-> Confirmed(file), step |-> step]]
  BY DEF Reconcile
<1> DEFINE m == [pc |-> "acknowledge", next |-> Confirmed(file), step |-> step]
<1>3. Pending(file.journal) # {}
  BY <1>2
<1>4. /\ Confirmed(file) \in Checkpoints /\ Confirmed(file).generation > 0
      /\ Confirmed(file).journal # <<>> /\ Last(Confirmed(file).journal).verified
      /\ Last(Confirmed(file).journal).step = Last(file.journal).step
      /\ Pending(file.journal) = {Last(file.journal).step}
  BY <1>1, <1>3, ConfirmedIs
<1>5. Last(Confirmed(file).journal).step \in happened
  BY <1>2, <1>4
<1>6. step \in Steps
  <2>1. Pending(file.journal) = Rec(file.journal) \ Ver(file.journal)
    BY <1>1, OneEntry
  <2>2. Rec(file.journal) \subseteq Steps
    BY <1>1, SetsTell
  <2> QED
    BY <1>2, <2>1, <2>2
<1>7. m \in Memory
  BY <1>4, <1>6 DEF Memory, Places
<1>8. m.pc = "acknowledge" /\ m.next = Confirmed(file) /\ driver' = [driver EXCEPT ![d] = m]
  BY <1>2
<1> HIDE DEF m
<1>9. driver' \in [Drivers -> Memory] /\ driver'[d] = m
      /\ \A e \in Drivers \ {d} : driver'[e] = driver[e]
  BY <1>1, <1>7, <1>8, SetDoes
<1> QED
  BY <1>4, <1>5, <1>8, <1>9 DEF Acknowledges

LEMMA VerifyDoes ==
    ASSUME IInv, NEW d \in Drivers, Verify(d)
    PROVE  \/ Acknowledges(d) /\ UNCHANGED <<life, guard>>
           \/ Leave(d)
<1> SUFFICES ASSUME /\ driver[d].step \in happened
                    /\ file = driver[d].next
                    /\ driver' = [driver EXCEPT ![d].pc = "acknowledge",
                                                ![d].next = Confirmed(file)]
                    /\ UNCHANGED <<life, guard>>
             PROVE  Acknowledges(d)
  BY DEF Verify
<1>1. /\ driver \in [Drivers -> Memory] /\ file \in Checkpoints /\ Tidy(file.journal)
      /\ driver[d] \in Memory /\ Holds(d) /\ driver[d].pc = "applied"
      /\ file.journal \in Seq(Entries)
  BY DEF IInv, TypeOK, Journals, Held, Verify, At, Checkpoints
<1>2. /\ file.journal # <<>> /\ Last(file.journal) = Entry(driver[d].step, FALSE)
      /\ driver[d].step \in Steps
  BY <1>1 DEF Holds, Driving
<1>3. ~Last(file.journal).verified /\ Last(file.journal).step = driver[d].step
  BY <1>2, EntryShape
<1>4. Pending(file.journal) # {}
  <2>1. Len(file.journal) \in DOMAIN file.journal
    BY <1>1, <1>2, JournalShape
  <2> QED
    BY <1>3, <2>1 DEF Pending, Last
<1>5. /\ Confirmed(file) \in Checkpoints /\ Confirmed(file).generation > 0
      /\ Confirmed(file).journal # <<>> /\ Last(Confirmed(file).journal).verified
      /\ Last(Confirmed(file).journal).step = Last(file.journal).step
  BY <1>1, <1>4, ConfirmedIs
<1> DEFINE m == [driver[d] EXCEPT !.pc = "acknowledge", !.next = Confirmed(file)]
<1>6. "acknowledge" \in Places
  BY DEF Places
<1>7. m \in Memory /\ m.pc = "acknowledge" /\ m.next = Confirmed(file)
  BY <1>1, <1>5, <1>6 DEF Memory
<1>8. driver' \in [Drivers -> Memory] /\ driver'[d] = m
      /\ \A e \in Drivers \ {d} : driver'[e] = driver[e]
  <2>1. /\ driver'[d] = m
        /\ \A e \in Drivers \ {d} : driver'[e] = driver[e]
        /\ driver' = [e \in Drivers |-> driver'[e]]
    BY <1>1
  <2> HIDE DEF m
  <2>2. \A e \in Drivers : driver'[e] \in Memory
    BY <1>1, <1>7, <2>1
  <2> QED
    BY <2>1, <2>2
<1> HIDE DEF m
<1> QED
  BY <1>3, <1>5, <1>7, <1>8 DEF Acknowledges

\* A process that opens holds the first checkpoint.
LEMMA OpenDoes ==
    ASSUME IInv, NEW d \in Drivers, Open(d)
    PROVE  /\ driver' \in [Drivers -> Memory]
           /\ driver'[d].pc = "opening" /\ driver'[d].next = [NoFile EXCEPT !.exists = TRUE]
           /\ \A e \in Drivers \ {d} : driver'[e] = driver[e]
<1> DEFINE m == [pc |-> "opening", next |-> [NoFile EXCEPT !.exists = TRUE], step |-> NoStep]
<1>1. driver \in [Drivers -> Memory] /\ driver' = [driver EXCEPT ![d] = m]
  BY DEF IInv, TypeOK, Open
<1>2. m \in Memory
  BY NothingYet DEF Memory, Places
<1>3. m.pc = "opening" /\ m.next = [NoFile EXCEPT !.exists = TRUE]
  OBVIOUS
<1> HIDE DEF m
<1> QED
  BY <1>1, <1>2, <1>3, SetDoes

\* An effect is invoked once, by the process that its intent authorised.
LEMMA ApplyDoes ==
    ASSUME IInv, NEW d \in Drivers, Apply(d)
    PROVE  LET x == driver[d].step
           IN  /\ x \in Steps /\ life = d /\ x \in Rec(durable.journal) /\ x \notin happened
               /\ calls' \in [Steps -> 0..2] /\ calls[x] = 0 /\ calls'[x] = 1
               /\ \A y \in Steps \ {x} : calls'[y] = calls[y]
               /\ \/ service' = Effect(x[1], x[2]) /\ happened' = happened \cup {x}
                  \/ UNCHANGED <<service, happened>>
               /\ driver' \in [Drivers -> Memory]
               /\ \/ Leave(d)
                  \/ /\ driver'[d].pc = "applied" /\ driver'[d].next = driver[d].next
                     /\ driver'[d].step = x /\ UNCHANGED <<life, guard>>
                     /\ \A e \in Drivers \ {d} : driver'[e] = driver[e]
<1> DEFINE x == driver[d].step
<1>1. /\ driver \in [Drivers -> Memory] /\ {life, guard} \subseteq Drivers \cup {Nobody}
      /\ Holds(d) /\ driver[d].pc = "authorised" /\ calls \in [Steps -> 0..2]
  BY DEF IInv, TypeOK, Held, Apply, At
<1>2. x \in Steps /\ life = d /\ x \in Rec(durable.journal) /\ calls[x] = 0
  BY <1>1 DEF Holds, Driving
<1>3. x \notin happened
  BY <1>2 DEF IInv, Trailing
<1>4. /\ calls' = [calls EXCEPT ![x] = IF @ < 2 THEN @ + 1 ELSE @]
      /\ \/ service' = Effect(x[1], x[2]) /\ happened' = happened \cup {x}
         \/ UNCHANGED <<service, happened>>
      /\ \/ Go(d, "applied") /\ UNCHANGED <<life, guard>>
         \/ Leave(d)
  BY DEF Apply
<1>5. /\ calls' \in [Steps -> 0..2] /\ calls'[x] = 1
      /\ \A y \in Steps \ {x} : calls'[y] = calls[y]
  BY <1>1, <1>2, <1>4
<1>6. "applied" \in Places
  BY DEF Places
<1>7. CASE Leave(d)
  BY <1>1, <1>2, <1>3, <1>4, <1>5, <1>7, LeaveDoes
<1>8. CASE Go(d, "applied") /\ UNCHANGED <<life, guard>>
  <2>1. /\ driver' \in [Drivers -> Memory] /\ driver'[d].pc = "applied"
        /\ driver'[d].next = driver[d].next /\ driver'[d].step = driver[d].step
        /\ \A e \in Drivers \ {d} : driver'[e] = driver[e]
    BY <1>1, <1>6, <1>8, GoDoes
  <2> QED
    BY <1>2, <1>3, <1>4, <1>5, <1>8, <2>1
<1> QED
  BY <1>4, <1>7, <1>8

\* What an effect changes of its unit, and leaves of it and of the others.
LEMMA EffectIs ==
    ASSUME service \in [Units -> Services], NEW u \in Units, NEW op \in Ops
    PROVE  /\ Effect(u, op) \in [Units -> Services]
           /\ \A v \in Units :
                 LET then == Effect(u, op)[v]
                 IN  /\ v # u \/ op \notin {"WriteUnit", "RemoveUnit"} =>
                            then.file = service[v].file
                     /\ v # u \/ op \notin {"Disable", "Enable"} =>
                            then.enabled = service[v].enabled
                     /\ v # u \/ op \notin {"Stop", "Start"} =>
                            then.active = service[v].active
           /\ op = "Disable" => ~Effect(u, op)[u].enabled
           /\ op = "Stop" => ~Effect(u, op)[u].active
<1>1. service[u] \in Services
  OBVIOUS
<1>2. {"none", "new"} \subseteq UnitFiles
  BY DEF UnitFiles
<1>3. CASE op = "Stop"
  BY <1>3 DEF Effect, Services
<1>4. CASE op = "Disable"
  BY <1>4 DEF Effect, Services
<1>5. CASE op = "WriteUnit"
  BY <1>2, <1>5 DEF Effect, Services
<1>6. CASE op = "RemoveUnit"
  BY <1>2, <1>6 DEF Effect, Services
<1>7. CASE op = "Enable"
  BY <1>7 DEF Effect, Services
<1>8. CASE op = "Start"
  BY <1>8 DEF Effect, Services
<1>9. CASE op = "ManagerReload"
  BY <1>9 DEF Effect, Services
<1> QED
  BY <1>3, <1>4, <1>5, <1>6, <1>7, <1>8, <1>9 DEF Ops

-----------------------------------------------------------------------------
(* The invariant.                                                          *)

LEMMA TypeStep ==
    ASSUME IInv, [Next]_vars
    PROVE  TypeOK'
<1>1. /\ service \in [Units -> Services] /\ {life, guard} \subseteq Drivers \cup {Nobody}
      /\ calls \in [Steps -> 0..2] /\ happened \subseteq Steps /\ booted \in BOOLEAN
      /\ case \in Scenarios /\ file \in Checkpoints /\ durable \in Checkpoints
      /\ driver \in [Drivers -> Memory]
  BY DEF IInv, TypeOK
<1>2. ASSUME NEW d \in Drivers, Open(d) PROVE TypeOK'
  <2>1. driver' \in [Drivers -> Memory]
    BY <1>2, OpenDoes
  <2> QED
    BY <1>1, <1>2, <2>1 DEF Open, TypeOK
<1>3. ASSUME NEW d \in Drivers, Reconcile(d) PROVE TypeOK'
  <2>1. driver' \in [Drivers -> Memory]
    BY <1>3, ReconcileDoes DEF Acknowledges
  <2> QED
    BY <1>1, <1>3, <2>1 DEF Reconcile, TypeOK
<1>4. ASSUME NEW d \in Drivers, NEW u \in Units, NEW op \in Ops, Begin(d, u, op) PROVE TypeOK'
  <2>1. driver' \in [Drivers -> Memory]
    BY <1>4, BeginDoes
  <2> QED
    BY <1>1, <1>4, <2>1 DEF Begin, TypeOK
<1>5. ASSUME NEW d \in Drivers, Publish(d) PROVE TypeOK'
  <2>1. driver' \in [Drivers -> Memory] /\ file' \in Checkpoints
    BY <1>5, PublishDoes
  <2> QED
    BY <1>1, <1>5, <2>1 DEF Publish, TypeOK
<1>6. ASSUME NEW d \in Drivers, PublishRefused(d) PROVE TypeOK'
  <2>1. driver' \in [Drivers -> Memory] /\ {life', guard'} \subseteq Drivers \cup {Nobody}
    BY <1>1, <1>6, LeaveDoes DEF PublishRefused
  <2> QED
    BY <1>1, <1>6, <2>1 DEF PublishRefused, TypeOK
<1>7. ASSUME NEW d \in Drivers, Sync(d) PROVE TypeOK'
  <2>1. driver' \in [Drivers -> Memory] /\ {life', guard'} \subseteq Drivers \cup {Nobody}
    <3>1. CASE Leave(d)
      BY <1>1, <3>1, LeaveDoes
    <3>2. CASE Go(d, "authorised") /\ guard' = Nobody /\ life' = life
      <4>1. "authorised" \in Places
        BY DEF Places
      <4>2. driver' \in [Drivers -> Memory]
        BY <1>1, <3>2, <4>1, GoDoes
      <4> QED
        BY <1>1, <3>2, <4>2
    <3> QED
      BY <1>7, <3>1, <3>2 DEF Sync
  <2> QED
    BY <1>1, <1>7, <2>1 DEF Sync, TypeOK
<1>8. ASSUME NEW d \in Drivers, SyncFails(d) PROVE TypeOK'
  <2>1. driver' \in [Drivers -> Memory] /\ {life', guard'} \subseteq Drivers \cup {Nobody}
    BY <1>1, <1>8, LeaveDoes DEF SyncFails
  <2> QED
    BY <1>1, <1>8, <2>1 DEF SyncFails, TypeOK
<1>9. ASSUME NEW d \in Drivers, Apply(d) PROVE TypeOK'
  <2> DEFINE x == driver[d].step
  <2>1. /\ x \in Steps /\ calls' \in [Steps -> 0..2] /\ driver' \in [Drivers -> Memory]
        /\ \/ service' = Effect(x[1], x[2]) /\ happened' = happened \cup {x}
           \/ UNCHANGED <<service, happened>>
    BY <1>9, ApplyDoes
  <2>2. x[1] \in Units /\ x[2] \in Ops
    BY <2>1 DEF Steps
  <2> HIDE DEF x
  <2>3. Effect(x[1], x[2]) \in [Units -> Services]
    BY <1>1, <2>2, EffectIs
  <2>4. service' \in [Units -> Services] /\ happened' \subseteq Steps
    BY <1>1, <2>1, <2>3
  <2>5. {life', guard'} \subseteq Drivers \cup {Nobody}
    <3>1. Leave(d) \/ UNCHANGED <<life, guard>>
      BY <1>9 DEF Apply
    <3> QED
      BY <1>1, <3>1, LeaveDoes
  <2>6. UNCHANGED <<case, file, durable, booted>>
    BY <1>9 DEF Apply
  <2> QED
    BY <1>1, <2>1, <2>4, <2>5, <2>6 DEF TypeOK
<1>10. ASSUME NEW d \in Drivers, Verify(d) PROVE TypeOK'
  <2>1. driver' \in [Drivers -> Memory] /\ {life', guard'} \subseteq Drivers \cup {Nobody}
    BY <1>1, <1>10, VerifyDoes, LeaveDoes DEF Acknowledges
  <2> QED
    BY <1>1, <1>10, <2>1 DEF Verify, TypeOK
<1>11. ASSUME NEW d \in Drivers, Crash(d) PROVE TypeOK'
  <2>1. driver' \in [Drivers -> Memory] /\ {life', guard'} \subseteq Drivers \cup {Nobody}
    BY <1>1, <1>11, LeaveDoes DEF Crash
  <2> QED
    BY <1>1, <1>11, <2>1 DEF Crash, TypeOK
<1>12. CASE PowerLoss
  <2>1. Idle \in Memory
    BY NothingYet DEF Idle, Memory, Places
  <2>2. driver' \in [Drivers -> Memory]
    BY <1>12, <2>1 DEF PowerLoss
  <2>3. service' \in [Units -> Services]
    <3>1. \A u \in Units : [service[u] EXCEPT !.loaded = service[u].file,
              !.active = service[u].enabled /\ service[u].file # "none"] \in Services
      BY <1>1 DEF Services
    <3> QED
      BY <1>12, <3>1 DEF PowerLoss
  <2> QED
    BY <1>1, <1>12, <2>2, <2>3 DEF PowerLoss, TypeOK
<1>13. CASE UNCHANGED vars
  BY <1>1, <1>13 DEF vars, TypeOK
<1> QED
  BY <1>2, <1>3, <1>4, <1>5, <1>6, <1>7, <1>8, <1>9, <1>10, <1>11, <1>12, <1>13 DEF Next

\* How a step moves what the disk and the world tell of the journal: not at
\* all, by a store, by the directory's sync or its loss, or by an effect.
DiskRests ==
    /\ UNCHANGED <<calls, happened>>
    /\ \/ file' = file /\ durable' \in {durable, file}
       \/ file' = durable /\ durable' = durable

LEMMA DiskMoves ==
    ASSUME [Next]_vars
    PROVE  /\ case' = case
           /\ \/ DiskRests
              \/ UNCHANGED <<durable, calls, happened>> /\ \E d \in Drivers : Publish(d)
              \/ UNCHANGED <<file, durable>> /\ \E d \in Drivers : Apply(d)
<1>1. ASSUME NEW d \in Drivers, Open(d) PROVE case' = case /\ DiskRests
  BY <1>1 DEF Open, DiskRests
<1>2. ASSUME NEW d \in Drivers, Reconcile(d) PROVE case' = case /\ DiskRests
  BY <1>2 DEF Reconcile, DiskRests
<1>3. ASSUME NEW d \in Drivers, NEW u \in Units, NEW op \in Ops, Begin(d, u, op)
      PROVE  case' = case /\ DiskRests
  BY <1>3 DEF Begin, DiskRests
<1>4. ASSUME NEW d \in Drivers, Publish(d)
      PROVE  UNCHANGED <<case, durable, calls, happened>>
  BY <1>4 DEF Publish
<1>5. ASSUME NEW d \in Drivers, PublishRefused(d) PROVE case' = case /\ DiskRests
  BY <1>5 DEF PublishRefused, DiskRests
<1>6. ASSUME NEW d \in Drivers, Sync(d) PROVE case' = case /\ DiskRests
  BY <1>6 DEF Sync, DiskRests
<1>7. ASSUME NEW d \in Drivers, SyncFails(d) PROVE case' = case /\ DiskRests
  BY <1>7 DEF SyncFails, DiskRests
<1>8. ASSUME NEW d \in Drivers, Apply(d) PROVE UNCHANGED <<case, file, durable>>
  BY <1>8 DEF Apply
<1>9. ASSUME NEW d \in Drivers, Verify(d) PROVE case' = case /\ DiskRests
  BY <1>9 DEF Verify, DiskRests
<1>10. ASSUME NEW d \in Drivers, Crash(d) PROVE case' = case /\ DiskRests
  BY <1>10 DEF Crash, DiskRests
<1>11. ASSUME PowerLoss PROVE case' = case /\ DiskRests
  BY <1>11 DEF PowerLoss, DiskRests
<1>12. ASSUME UNCHANGED vars PROVE case' = case /\ DiskRests
  BY <1>12 DEF vars, DiskRests
<1> QED
  BY <1>1, <1>2, <1>3, <1>4, <1>5, <1>6, <1>7, <1>8, <1>9, <1>10, <1>11, <1>12 DEF Next

\* What readers see grows, but for a power loss; what one leaves always does.
LEMMA DiskGrows ==
    ASSUME IInv, [Next]_vars
    PROVE  /\ Rec(durable.journal) \subseteq Rec(durable'.journal)
           /\ Ver(durable.journal) \subseteq Ver(durable'.journal)
           /\ Rec(durable'.journal) \subseteq Rec(file'.journal)
           /\ Ver(durable'.journal) \subseteq Ver(file'.journal)
           /\ Ver(file'.journal) \subseteq happened'
           /\ happened \subseteq happened'
<1>1. /\ Rec(durable.journal) \subseteq Rec(file.journal)
      /\ Ver(durable.journal) \subseteq Ver(file.journal)
      /\ Ver(file.journal) \subseteq happened
  BY DEF IInv, Trailing
<1>2. CASE DiskRests
  BY <1>1, <1>2 DEF DiskRests
<1>3. CASE UNCHANGED <<durable, calls, happened>> /\ \E d \in Drivers : Publish(d)
  <2>1. PICK d \in Drivers : Publish(d)
    BY <1>3
  <2>2. /\ Rec(file.journal) \subseteq Rec(file'.journal)
        /\ Ver(file.journal) \subseteq Ver(file'.journal)
        /\ Ver(file'.journal) \subseteq happened
    BY <2>1, PublishDoes
  <2> QED
    BY <1>1, <1>3, <2>2
<1>4. CASE UNCHANGED <<file, durable>> /\ \E d \in Drivers : Apply(d)
  <2>1. PICK d \in Drivers : Apply(d)
    BY <1>4
  <2>2. happened' = happened \cup {driver[d].step} \/ happened' = happened
    BY <2>1, ApplyDoes
  <2> QED
    BY <1>1, <1>4, <2>2
<1> QED
  BY <1>2, <1>3, <1>4, DiskMoves

LEMMA JournalsStep ==
    ASSUME IInv, [Next]_vars
    PROVE  Journals'
<1>1. case' = case
  BY DiskMoves
<1>2. /\ \A u \in Units : Preservable(u)' <=> Preservable(u)
      /\ Ordered(file.journal)' <=> Ordered(file'.journal)
      /\ Ordered(durable.journal)' <=> Ordered(durable'.journal)
  BY <1>1, CaseStays
<1>3. /\ Tidy(file.journal) /\ Tidy(durable.journal)
      /\ Ordered(file.journal) /\ Ordered(durable.journal)
      /\ ~file.exists => file = NoFile
      /\ file.exists => \A u \in Units : Preservable(u)
      /\ ~durable.exists => durable = NoFile
      /\ durable.exists => file.exists
  BY DEF IInv, Journals
<1>4. SUFFICES /\ Tidy(file'.journal) /\ Tidy(durable'.journal)
               /\ Ordered(file'.journal) /\ Ordered(durable'.journal)
               /\ ~file'.exists => file' = NoFile
               /\ file'.exists => \A u \in Units : Preservable(u)
               /\ ~durable'.exists => durable' = NoFile
               /\ durable'.exists => file'.exists
  <2>1. Tidy(file.journal)' <=> Tidy(file'.journal)
    BY DEF Tidy
  <2>2. Tidy(durable.journal)' <=> Tidy(durable'.journal)
    BY DEF Tidy
  <2>3. NoFile' = NoFile
    BY DEF NoFile
  <2>4. (\A u \in Units : Preservable(u)') <=> (\A u \in Units : Preservable(u))
    BY <1>2
  <2> QED
    BY <1>2, <2>1, <2>2, <2>3, <2>4 DEF Journals
<1>5. CASE DiskRests
  BY <1>3, <1>5 DEF DiskRests
<1>6. CASE UNCHANGED <<durable, calls, happened>> /\ \E d \in Drivers : Publish(d)
  <2>1. PICK d \in Drivers : Publish(d)
    BY <1>6
  <2>2. /\ Tidy(file'.journal) /\ Ordered(file'.journal)
        /\ file'.exists /\ \A u \in Units : Preservable(u)
    BY <2>1, PublishDoes
  <2> QED
    BY <1>3, <1>6, <2>2
<1>7. CASE UNCHANGED <<file, durable>>
  BY <1>3, <1>7
<1> QED
  BY <1>5, <1>6, <1>7, DiskMoves

LEMMA TrailingStep ==
    ASSUME IInv, [Next]_vars
    PROVE  Trailing'
<1>1. /\ Rec(durable.journal)' = Rec(durable'.journal)
      /\ Ver(durable.journal)' = Ver(durable'.journal)
      /\ Rec(file.journal)' = Rec(file'.journal)
      /\ Ver(file.journal)' = Ver(file'.journal)
  BY DEF Rec, Ver, Contains, Entry
<1>2. \A x \in Steps : /\ calls[x] \in {0, 1}
                       /\ calls[x] = 1 => x \in Rec(durable.journal)
                       /\ x \in happened => calls[x] = 1
  BY DEF IInv, Trailing
<1>3. \A x \in Steps : /\ calls'[x] \in {0, 1}
                       /\ calls'[x] = 1 => x \in Rec(durable.journal)
                       /\ x \in happened' => calls'[x] = 1
  <2>1. CASE UNCHANGED <<calls, happened>>
    BY <1>2, <2>1
  <2>2. ASSUME NEW d \in Drivers, Apply(d)
        PROVE  \A x \in Steps : /\ calls'[x] \in {0, 1}
                                /\ calls'[x] = 1 => x \in Rec(durable.journal)
                                /\ x \in happened' => calls'[x] = 1
    <3> DEFINE y == driver[d].step
    <3>1. /\ y \in Steps /\ y \in Rec(durable.journal)
          /\ calls' \in [Steps -> 0..2] /\ calls'[y] = 1
          /\ \A x \in Steps \ {y} : calls'[x] = calls[x]
          /\ happened' = happened \cup {y} \/ happened' = happened
      BY <2>2, ApplyDoes
    <3> HIDE DEF y
    <3> SUFFICES ASSUME NEW x \in Steps
                 PROVE  /\ calls'[x] \in {0, 1}
                        /\ calls'[x] = 1 => x \in Rec(durable.journal)
                        /\ x \in happened' => calls'[x] = 1
      OBVIOUS
    <3>2. CASE x = y
      BY <3>1, <3>2
    <3>3. CASE x # y
      BY <1>2, <3>1, <3>3
    <3> QED
      BY <3>2, <3>3
  <2> QED
    BY <2>1, <2>2, DiskMoves DEF DiskRests
<1>4. /\ Rec(durable.journal) \subseteq Rec(durable'.journal)
      /\ Rec(durable'.journal) \subseteq Rec(file'.journal)
      /\ Ver(durable'.journal) \subseteq Ver(file'.journal)
      /\ Ver(file'.journal) \subseteq happened'
  BY DiskGrows
<1> QED
  BY <1>1, <1>3, <1>4 DEF Trailing

\* A step of one process takes nothing from what the others hold.
LEMMA OthersHold ==
    ASSUME IInv, [Next]_vars, NEW d \in Drivers, Holds(d)',
           \A e \in Drivers \ {d} : /\ driver'[e] = driver[e]
                                    /\ life = e => life' = e
                                    /\ guard = e => guard' = e,
           Rec(file.journal) \subseteq Rec(file'.journal),
           \/ calls' = calls
           \/ life = d /\ \A y \in Steps \ {driver[d].step} : calls'[y] = calls[y]
    PROVE  Held'
<1> SUFFICES ASSUME NEW e \in Drivers, e # d PROVE Holds(e)'
  BY DEF Held
<1>1. driver'[e] = driver[e] /\ (life = e => life' = e) /\ (guard = e => guard' = e)
  OBVIOUS
<1>2. Holds(e)
  BY DEF IInv, Held
<1>3. /\ Rec(file.journal)' = Rec(file'.journal)
      /\ Rec(durable.journal)' = Rec(durable'.journal)
      /\ NoFile' = NoFile
  BY DEF Rec, NoFile
<1>4. Rec(durable.journal) \subseteq Rec(durable'.journal) /\ happened \subseteq happened'
  BY DiskGrows
<1>5. \A u \in Units : Preservable(u)' <=> Preservable(u)
  BY DiskMoves, CaseStays
<1>6. driver[e].pc \in Driving => calls' = calls
  BY <1>2 DEF Holds
<1>7. Driving' = Driving /\ \A x, v : Entry(x, v)' = Entry(x, v)
  BY DEF Driving, Entry
<1> DEFINE mem == driver[e]
           next == mem.next.journal
<1>8. mem.pc \in Driving => /\ life' = e /\ mem.step \in Steps
                            /\ next # <<>> /\ Last(next) = Entry(mem.step, FALSE)
  BY <1>1, <1>2 DEF Holds
<1>9. mem.pc \in {"syncing", "syncing intent"} => guard' = e
  BY <1>1, <1>2 DEF Holds
<1>10. mem.pc = "opening" => /\ mem.next = [NoFile EXCEPT !.exists = TRUE]
                             /\ \A u \in Units : Preservable(u)'
  BY <1>2, <1>5 DEF Holds
<1>11. mem.pc \in {"intent", "acknowledge"} => mem.next.generation > 0
  BY <1>2 DEF Holds
<1>12. mem.pc = "acknowledge" => /\ next # <<>> /\ Last(next).verified
                                 /\ Last(next).step \in happened'
  BY <1>2, <1>4 DEF Holds
<1>13. mem.pc = "syncing intent" => mem.step \in Rec(file'.journal) /\ calls'[mem.step] = 0
  BY <1>2, <1>6 DEF Holds, Driving
<1>14. mem.pc = "authorised" => mem.step \in Rec(durable'.journal) /\ calls'[mem.step] = 0
  BY <1>2, <1>4, <1>6 DEF Holds, Driving
<1> HIDE DEF mem, next
<1>15. mem = driver'[e] /\ next = driver'[e].next.journal
  BY <1>1 DEF mem, next
<1> QED
  BY <1>3, <1>7, <1>8, <1>9, <1>10, <1>11, <1>12, <1>13, <1>14, <1>15
  DEF Holds, Last, NoFile, Driving, Entry

\* Who is idle holds nothing.
LEMMA IdleHolds ==
    ASSUME NEW d, driver'[d] = Idle
    PROVE  Holds(d)'
BY DEF Holds, Idle, Driving

\* A process that leaves keeps what the others hold.
LEMMA LeaveHolds ==
    ASSUME IInv, [Next]_vars, NEW d \in Drivers, Leave(d),
           Rec(file.journal) \subseteq Rec(file'.journal),
           \/ calls' = calls
           \/ life = d /\ \A y \in Steps \ {driver[d].step} : calls'[y] = calls[y]
    PROVE  Held'
<1>1. driver \in [Drivers -> Memory] /\ {life, guard} \subseteq Drivers \cup {Nobody}
  BY DEF IInv, TypeOK
<1>2. /\ driver'[d] = Idle
      /\ \A e \in Drivers \ {d} : /\ driver'[e] = driver[e]
                                  /\ life = e => life' = e
                                  /\ guard = e => guard' = e
  BY <1>1, LeaveDoes
<1> QED
  BY <1>2, IdleHolds, OthersHold

LEMMA HeldStep ==
    ASSUME IInv, [Next]_vars
    PROVE  Held'
<1> USE DEF Driving
<1>1. /\ \A d \in Drivers : Holds(d)
      /\ \A x \in Steps : /\ calls[x] \in {0, 1}
                          /\ calls[x] = 1 => x \in Rec(durable.journal)
      /\ Rec(durable.journal) \subseteq Rec(file.journal)
      /\ driver \in [Drivers -> Memory]
  BY DEF IInv, Held, Trailing, TypeOK
<1>2. /\ Rec(file.journal)' = Rec(file'.journal)
      /\ Rec(durable.journal)' = Rec(durable'.journal)
      /\ NoFile' = NoFile
  BY DEF Rec, NoFile
<1>3. \A u \in Units : Preservable(u)' <=> Preservable(u)
  BY DiskMoves, CaseStays
<1>4. ASSUME NEW d \in Drivers, Open(d) PROVE Held'
  <2>1. /\ UNCHANGED <<file, life, guard, calls>> /\ \A u \in Units : Preservable(u)
    BY <1>4 DEF Open
  <2>2. /\ driver'[d].pc = "opening" /\ driver'[d].next = [NoFile EXCEPT !.exists = TRUE]
        /\ \A e \in Drivers \ {d} : driver'[e] = driver[e]
    BY <1>4, OpenDoes
  <2>3. Holds(d)'
    BY <1>3, <2>1, <2>2 DEF Holds, NoFile
  <2> QED
    BY <2>1, <2>2, <2>3, OthersHold
<1>5. ASSUME NEW d \in Drivers, Reconcile(d) PROVE Held'
  <2>1. UNCHANGED <<file, life, guard, calls, happened>> /\ Acknowledges(d)
    BY <1>5, ReconcileDoes DEF Reconcile
  <2>2. Holds(d)'
    BY <2>1 DEF Holds, Acknowledges, Last
  <2> QED
    BY <2>1, <2>2, OthersHold DEF Acknowledges
<1>6. ASSUME NEW d \in Drivers, NEW u \in Units, NEW op \in Ops, Begin(d, u, op) PROVE Held'
  <2>1. UNCHANGED <<file, guard, calls>> /\ life = Nobody /\ life' = d
    BY <1>6 DEF Begin
  <2>2. /\ driver'[d].pc = "intent" /\ driver'[d].step = <<u, op>> /\ <<u, op>> \in Steps
        /\ driver'[d].next.generation > 0 /\ driver'[d].next.journal # <<>>
        /\ Last(driver'[d].next.journal) = Entry(<<u, op>>, FALSE)
        /\ \A e \in Drivers \ {d} : driver'[e] = driver[e]
    BY <1>6, BeginDoes
  <2>3. Holds(d)'
    BY <2>1, <2>2 DEF Holds, Last, Entry
  <2>4. \A e \in Drivers : life # e
    BY <2>1, NobodyAssumption
  <2> QED
    BY <2>1, <2>2, <2>3, <2>4, OthersHold
<1>7. ASSUME NEW d \in Drivers, Publish(d) PROVE Held'
  <2>1. /\ UNCHANGED <<life, calls, happened>> /\ guard = Nobody /\ guard' = d
        /\ driver[d].pc \in {"opening", "intent", "acknowledge"}
    BY <1>7 DEF Publish
  <2>2. /\ Rec(file.journal) \subseteq Rec(file'.journal)
        /\ driver[d].pc = "intent" => driver[d].step \in Rec(file'.journal) \ Rec(file.journal)
        /\ driver[d].pc # "intent" => driver'[d].pc = "syncing"
        /\ driver[d].pc = "intent" => driver'[d].pc = "syncing intent"
        /\ driver'[d].next = driver[d].next /\ driver'[d].step = driver[d].step
        /\ \A e \in Drivers \ {d} : driver'[e] = driver[e]
    BY <1>7, PublishDoes
  <2>3. \A e \in Drivers : guard # e
    BY <2>1, NobodyAssumption
  <2>4. Holds(d)'
    <3>1. CASE driver[d].pc = "intent"
      <4>1. /\ life = d /\ driver[d].step \in Steps /\ driver[d].next.journal # <<>>
            /\ Last(driver[d].next.journal) = Entry(driver[d].step, FALSE)
        BY <1>1, <3>1 DEF Holds
      <4>2. calls[driver[d].step] = 0
        BY <1>1, <2>2, <3>1, <4>1
      <4>3. driver'[d].pc = "syncing intent" /\ driver[d].step \in Rec(file'.journal)
        BY <2>2, <3>1
      <4> QED
        BY <1>2, <2>1, <2>2, <4>1, <4>2, <4>3 DEF Holds, Last, Entry
    <3>2. CASE driver[d].pc # "intent"
      <4>1. driver'[d].pc = "syncing"
        BY <2>2, <3>2
      <4> QED
        BY <2>1, <4>1 DEF Holds
    <3> QED
      BY <3>1, <3>2
  <2> QED
    BY <2>1, <2>2, <2>3, <2>4, OthersHold
<1>8. ASSUME NEW d \in Drivers, PublishRefused(d) PROVE Held'
  BY <1>8, LeaveHolds DEF PublishRefused
<1>9. ASSUME NEW d \in Drivers, Sync(d) PROVE Held'
  <2>1. UNCHANGED <<file, calls, happened>> /\ durable' = file
    BY <1>9 DEF Sync
  <2>2. CASE At(d, "syncing intent")
    <3>1. Go(d, "authorised") /\ guard' = Nobody /\ life' = life
      BY <1>9, <2>2 DEF Sync
    <3>2. /\ driver'[d].pc = "authorised"
          /\ driver'[d].next = driver[d].next /\ driver'[d].step = driver[d].step
          /\ \A e \in Drivers \ {d} : driver'[e] = driver[e]
      <4>1. "authorised" \in Places
        BY DEF Places
      <4> QED
        BY <1>1, <3>1, <4>1, GoDoes
    <3>3. /\ life = d /\ guard = d /\ driver[d].step \in Steps /\ driver[d].next.journal # <<>>
          /\ Last(driver[d].next.journal) = Entry(driver[d].step, FALSE)
          /\ driver[d].step \in Rec(file.journal) /\ calls[driver[d].step] = 0
      BY <1>1, <2>2 DEF Holds, At
    <3>4. Holds(d)'
      BY <1>2, <2>1, <3>1, <3>2, <3>3 DEF Holds, Last, Entry
    <3> QED
      BY <2>1, <3>1, <3>2, <3>3, <3>4, OthersHold
  <2>3. CASE ~At(d, "syncing intent")
    <3>1. Leave(d)
      BY <1>9, <2>3 DEF Sync
    <3> QED
      BY <2>1, <3>1, LeaveHolds
  <2> QED
    BY <2>2, <2>3
<1>10. ASSUME NEW d \in Drivers, SyncFails(d) PROVE Held'
  BY <1>10, LeaveHolds DEF SyncFails
<1>11. ASSUME NEW d \in Drivers, Apply(d) PROVE Held'
  <2>1. /\ life = d /\ \A y \in Steps \ {driver[d].step} : calls'[y] = calls[y]
        /\ driver[d].step \in Steps
        /\ \/ Leave(d)
           \/ /\ driver'[d].pc = "applied" /\ driver'[d].next = driver[d].next
              /\ driver'[d].step = driver[d].step /\ UNCHANGED <<life, guard>>
              /\ \A e \in Drivers \ {d} : driver'[e] = driver[e]
    BY <1>11, ApplyDoes
  <2>2. file' = file /\ driver[d].pc = "authorised"
    BY <1>11 DEF Apply, At
  <2>3. CASE Leave(d)
    BY <2>1, <2>2, <2>3, LeaveHolds
  <2>4. CASE /\ driver'[d].pc = "applied" /\ driver'[d].next = driver[d].next
             /\ driver'[d].step = driver[d].step /\ UNCHANGED <<life, guard>>
             /\ \A e \in Drivers \ {d} : driver'[e] = driver[e]
    <3>1. /\ driver[d].next.journal # <<>>
          /\ Last(driver[d].next.journal) = Entry(driver[d].step, FALSE)
      BY <1>1, <2>2 DEF Holds
    <3>2. Holds(d)'
      BY <2>1, <2>4, <3>1 DEF Holds, Last, Entry
    <3> QED
      BY <2>1, <2>2, <2>4, <3>2, OthersHold
  <2> QED
    BY <2>1, <2>3, <2>4
<1>12. ASSUME NEW d \in Drivers, Verify(d) PROVE Held'
  <2>1. UNCHANGED <<file, calls, happened>>
    BY <1>12 DEF Verify
  <2>2. CASE Leave(d)
    BY <2>1, <2>2, LeaveHolds
  <2>3. CASE Acknowledges(d) /\ UNCHANGED <<life, guard>>
    <3>1. Holds(d)'
      BY <2>1, <2>3 DEF Holds, Acknowledges, Last
    <3> QED
      BY <2>1, <2>3, <3>1, OthersHold DEF Acknowledges
  <2> QED
    BY <1>12, <2>2, <2>3, VerifyDoes
<1>13. ASSUME NEW d \in Drivers, Crash(d) PROVE Held'
  BY <1>13, LeaveHolds DEF Crash
<1>14. CASE PowerLoss
  <2>1. \A d \in Drivers : driver'[d] = Idle
    BY <1>14 DEF PowerLoss
  <2> QED
    BY <2>1, IdleHolds DEF Held
<1>15. CASE UNCHANGED vars
  BY <1>15 DEF vars, IInv, Held, Holds, Rec, Last, Entry, NoFile, Preservable, Transition
<1> QED
  BY <1>4, <1>5, <1>6, <1>7, <1>8, <1>9, <1>10, <1>11, <1>12, <1>13, <1>14, <1>15 DEF Next

LEMMA UnitsStep ==
    ASSUME IInv, [Next]_vars
    PROVE  UnitsFollow'
<1>1. case' = case
  BY DiskMoves
<1>2. \A v \in Units : UnitFollows(v)
  BY DEF IInv, UnitsFollow
<1>3. CASE UNCHANGED <<service, happened, booted>>
  BY <1>1, <1>2, <1>3 DEF UnitsFollow, UnitFollows
<1>4. ASSUME NEW d \in Drivers, Apply(d) PROVE UnitsFollow'
  <2> DEFINE x == driver[d].step
  <2>1. /\ x \in Steps
        /\ \/ service' = Effect(x[1], x[2]) /\ happened' = happened \cup {x}
           \/ UNCHANGED <<service, happened>>
    BY <1>4, ApplyDoes
  <2>2. booted' = booted
    BY <1>4 DEF Apply
  <2> HIDE DEF x
  <2>3. CASE service' = Effect(x[1], x[2]) /\ happened' = happened \cup {x}
    <3>1. PICK u \in Units, op \in Ops : x = <<u, op>>
      BY <2>1 DEF Steps
    <3>2. x[1] = u /\ x[2] = op
      BY <3>1
    <3>3. service \in [Units -> Services]
      BY DEF IInv, TypeOK
    <3>4. /\ \A v \in Units :
                /\ v # u \/ op \notin {"WriteUnit", "RemoveUnit"} =>
                       service'[v].file = service[v].file
                /\ v # u \/ op \notin {"Disable", "Enable"} =>
                       service'[v].enabled = service[v].enabled
                /\ v # u \/ op \notin {"Stop", "Start"} =>
                       service'[v].active = service[v].active
          /\ op = "Disable" => ~service'[u].enabled
          /\ op = "Stop" => ~service'[u].active
      BY <2>3, <3>2, <3>3, EffectIs
    <3>5. \A v, o : <<v, o>> \in happened' <=> <<v, o>> \in happened \/ (v = u /\ o = op)
      BY <2>3, <3>1
    <3> SUFFICES ASSUME NEW v \in Units PROVE UnitFollows(v)'
      BY DEF UnitsFollow
    <3>6. UnitFollows(v)
      BY <1>2
    <3>7. <<v, "WriteUnit">> \notin happened' /\ <<v, "RemoveUnit">> \notin happened' =>
              service'[v].file = case'[v].found.file
      BY <1>1, <3>4, <3>5, <3>6 DEF UnitFollows
    <3>8. <<v, "Enable">> \notin happened' =>
              IF <<v, "Disable">> \in happened' THEN ~service'[v].enabled
              ELSE service'[v].enabled = case'[v].found.enabled
      BY <1>1, <3>4, <3>5, <3>6 DEF UnitFollows
    <3>9. <<v, "Start">> \notin happened' /\ ~booted' =>
              IF <<v, "Stop">> \in happened' THEN ~service'[v].active
              ELSE service'[v].active = case'[v].found.active
      BY <1>1, <2>2, <3>4, <3>5, <3>6 DEF UnitFollows
    <3> QED
      BY <3>7, <3>8, <3>9 DEF UnitFollows
  <2>4. CASE UNCHANGED <<service, happened>>
    BY <1>3, <2>2, <2>4
  <2> QED
    BY <2>1, <2>3, <2>4
<1>5. CASE PowerLoss
  <2>1. /\ booted' = TRUE /\ happened' = happened
        /\ service' = [u \in Units |-> [service[u] EXCEPT
                          !.loaded = service[u].file,
                          !.active = service[u].enabled /\ service[u].file # "none"]]
    BY <1>5 DEF PowerLoss
  <2>2. service \in [Units -> Services]
    BY DEF IInv, TypeOK
  <2>3. \A v \in Units : /\ service'[v].file = service[v].file
                         /\ service'[v].enabled = service[v].enabled
    BY <2>1, <2>2 DEF Services
  <2> QED
    BY <1>1, <1>2, <2>1, <2>3 DEF UnitsFollow, UnitFollows
<1>6. ASSUME ~(\E d \in Drivers : Apply(d)), ~PowerLoss
      PROVE  UNCHANGED <<service, happened, booted>>
  BY <1>6 DEF Next, vars, Open, Reconcile, Begin, Publish, PublishRefused, Sync, SyncFails,
              Verify, Crash
<1> QED
  BY <1>3, <1>4, <1>5, <1>6

\* The invariant holds at first, and every step keeps it.
LEMMA Invariant == Spec => []IInv
<1>1. Init => IInv
  <2> SUFFICES ASSUME Init PROVE IInv
    OBVIOUS
  <2>1. Idle \in Memory /\ NoFile \in Checkpoints
    BY NothingYet DEF Idle, Memory, Places
  <2>2. \A u \in Units : case[u].found \in Services
    BY ScenariosAssumption DEF Init, Scenario
  <2>3. TypeOK
    <3>1. service \in [Units -> Services] /\ calls \in [Steps -> 0..2]
      BY <2>2 DEF Init
    <3>2. driver \in [Drivers -> Memory]
      BY <2>1 DEF Init
    <3>3. /\ {life, guard} \subseteq Drivers \cup {Nobody} /\ happened \subseteq Steps
          /\ booted \in BOOLEAN /\ case \in Scenarios
          /\ file \in Checkpoints /\ durable \in Checkpoints
      BY <2>1 DEF Init
    <3> QED
      BY <3>1, <3>2, <3>3 DEF TypeOK
  <2>4. Journals
    BY NothingYet DEF Init, Journals
  <2>5. Trailing
    BY NothingYet DEF Init, Trailing
  <2>6. Held
    BY DEF Init, Held, Holds, Idle, Driving
  <2>7. UnitsFollow
    BY DEF Init, UnitsFollow, UnitFollows
  <2> QED
    BY <2>3, <2>4, <2>5, <2>6, <2>7 DEF IInv
<1>2. IInv /\ [Next]_vars => IInv'
  BY TypeStep, JournalsStep, TrailingStep, HeldStep, UnitsStep DEF IInv
<1> QED
  BY <1>1, <1>2, PTL DEF Spec

\* Every variable keeps to its values: no unit, process or checkpoint is ever
\* left in a form the code does not know.
THEOREM TypeInvariant == Spec => []TypeOK
<1>1. IInv => TypeOK
  BY DEF IInv
<1> QED
  BY <1>1, Invariant, PTL

-----------------------------------------------------------------------------
(* What the journal promises.                                              *)

\* What happened to a unit is on the file that a reader opens.
LEMMA HappenedIsRecorded ==
    ASSUME IInv
    PROVE  happened \subseteq Rec(file.journal)
<1>1. /\ happened \subseteq Steps
      /\ Rec(durable.journal) \subseteq Rec(file.journal)
      /\ \A x \in Steps : /\ calls[x] = 1 => x \in Rec(durable.journal)
                          /\ x \in happened => calls[x] = 1
  BY DEF IInv, TypeOK, Trailing
<1> QED
  BY <1>1

\* An operation on record was allowed, and those before it are verified.
LEMMA RecordIsInOrder ==
    ASSUME IInv, NEW u \in Units, NEW op \in Ops, <<u, op>> \in Rec(file.journal)
    PROVE  /\ op \in Allowed(u)
           /\ op = "ManagerReload" => \/ <<u, "WriteUnit">> \in Ver(file.journal)
                                      \/ <<u, "RemoveUnit">> \in Ver(file.journal)
           /\ op \in {"Enable", "Start"} => <<u, "ManagerReload">> \in Ver(file.journal)
           /\ op \in {"WriteUnit", "RemoveUnit"} =>
                  /\ WasActive(u) => <<u, "Stop">> \in Ver(file.journal)
                  /\ WasEnabled(u) => <<u, "Disable">> \in Ver(file.journal)
<1>1. file.journal \in Seq(Entries) /\ Ordered(file.journal)
  BY DEF IInv, TypeOK, Journals, Checkpoints
<1>2. op \in Allowed(u) /\ InOrder(file.journal, u, op)
  BY <1>1 DEF Ordered
<1>3. \A o \in Ops : Verified(file.journal, u, o) <=> <<u, o>> \in Ver(file.journal)
  BY <1>1, SetsTell
<1>4. {"Stop", "Disable", "WriteUnit", "RemoveUnit", "ManagerReload"} \subseteq Ops
  BY DEF Ops
<1> QED
  BY <1>2, <1>3, <1>4 DEF InOrder

\* Whenever a rollback may be planned, its scope holds every unit that is not
\* as it was found, and a unit that had no file is in it only after its
\* creation was verified (compensation_scope and what it is asked for).
THEOREM ScopeCovers == Spec => []ScopeCoversChange
<1>1. IInv => ScopeCoversChange
  <2> SUFFICES ASSUME IInv, file.exists, Pending(file.journal) = {}
               PROVE  LET scope == CompensationScope(file.journal)
                      IN  /\ \A u \in Units \ scope :
                                /\ service[u].file = case[u].found.file
                                /\ service[u].enabled = case[u].found.enabled
                                /\ booted \/ service[u].active = case[u].found.active
                          /\ \A u \in scope : Target(u) # "OriginalUnit" =>
                                Verified(file.journal, u, "WriteUnit")
    BY DEF ScopeCoversChange
  <2> DEFINE scope == CompensationScope(file.journal)
  <2>1. file.journal \in Seq(Entries) /\ Tidy(file.journal)
    BY DEF IInv, TypeOK, Journals, Checkpoints
  <2>2. Rec(file.journal) \subseteq Ver(file.journal)
    <3>1. Pending(file.journal) = Rec(file.journal) \ Ver(file.journal)
      BY <2>1, OneEntry
    <3> QED
      BY <3>1
  <2>3. ASSUME NEW u \in Units, u \notin scope
        PROVE  /\ service[u].file = case[u].found.file
               /\ service[u].enabled = case[u].found.enabled
               /\ booted \/ service[u].active = case[u].found.active
    <3>1. \A op : <<u, op>> \notin Rec(file.journal)
      <4>1. \A i \in DOMAIN file.journal : file.journal[i].step[1] # u
        BY <2>3 DEF CompensationScope
      <4> QED
        BY <4>1 DEF Rec
    <3>2. \A op : <<u, op>> \notin happened
      BY <3>1, HappenedIsRecorded
    <3>3. UnitFollows(u)
      BY DEF IInv, UnitsFollow
    <3> QED
      BY <3>2, <3>3 DEF UnitFollows
  <2>4. ASSUME NEW u \in scope, Target(u) # "OriginalUnit"
        PROVE  Verified(file.journal, u, "WriteUnit")
    <3>1. PICK i \in DOMAIN file.journal : file.journal[i].step[1] = u
      BY <2>4 DEF CompensationScope
    <3>2. file.journal[i].step \in Rec(file.journal) /\ Rec(file.journal) \subseteq Steps
      BY <2>1, SetsTell DEF Rec
    <3>3. PICK op \in Ops : u \in Units /\ <<u, op>> \in Rec(file.journal)
      BY <3>1, <3>2 DEF Steps
    <3>4. \A o \in Ops : <<u, o>> \in Rec(file.journal) =>
             o \in {"WriteUnit", "ManagerReload", "Enable", "Start"}
      <4> SUFFICES ASSUME NEW o \in Ops, <<u, o>> \in Rec(file.journal)
                   PROVE  o \in {"WriteUnit", "ManagerReload", "Enable", "Start"}
        OBVIOUS
      <4>1. o \in Allowed(u)
        BY <3>3, RecordIsInOrder
      <4> QED
        BY <2>4, <4>1 DEF Allowed
    <3>5. Ver(file.journal) \subseteq Rec(file.journal)
      BY <2>1, SetsTell
    <3>6. {"WriteUnit", "RemoveUnit", "ManagerReload"} \subseteq Ops
      BY DEF Ops
    <3>7. ASSUME <<u, "ManagerReload">> \in Rec(file.journal)
          PROVE  <<u, "WriteUnit">> \in Ver(file.journal)
      <4>1. \/ <<u, "WriteUnit">> \in Ver(file.journal)
            \/ <<u, "RemoveUnit">> \in Ver(file.journal)
        BY <3>3, <3>6, <3>7, RecordIsInOrder
      <4>2. <<u, "RemoveUnit">> \notin Rec(file.journal)
        BY <3>4, <3>6
      <4> QED
        BY <3>5, <4>1, <4>2
    <3>8. op \in {"Enable", "Start"} => <<u, "ManagerReload">> \in Ver(file.journal)
      BY <3>3, RecordIsInOrder
    <3>9. <<u, "WriteUnit">> \in Ver(file.journal)
      BY <2>2, <3>3, <3>4, <3>5, <3>7, <3>8
    <3> QED
      BY <2>1, <3>3, <3>6, <3>9, SetsTell
  <2> QED
    BY <2>3, <2>4
<1> QED
  BY <1>1, Invariant, PTL

\* A unit's file is written, replaced or removed only while the unit is neither
\* running nor enabled, but for the first file of a unit that was found enabled
\* without one (the order that begin demands, through crashes, power losses and
\* several processes).
THEOREM FilesAreChangedAtRest == Spec => FilesChangeAtRest
<1>1. IInv /\ [Next]_vars =>
          [\A u \in Units :
              service'[u].file # service[u].file =>
                  /\ service[u].active => booted
                  /\ service[u].enabled => Dangling(u) /\ service[u].file = "none"]_vars
  <2> SUFFICES ASSUME IInv, Next, NEW u \in Units, service'[u].file # service[u].file
               PROVE  /\ service[u].active => booted
                      /\ service[u].enabled => Dangling(u) /\ service[u].file = "none"
    OBVIOUS
  <2>1. service \in [Units -> Services] /\ case \in Scenarios /\ UnitFollows(u)
    BY DEF IInv, TypeOK, UnitsFollow
  <2>2. PICK d \in Drivers : Apply(d)
    <3>1. ~PowerLoss
      BY <2>1 DEF PowerLoss, Services
    <3>2. service' # service
      OBVIOUS
    <3> QED
      BY <3>1, <3>2 DEF Next, Open, Reconcile, Begin, Publish, PublishRefused, Sync, SyncFails,
                        Verify, Crash
  <2> DEFINE x == driver[d].step
  <2>3. /\ x \in Steps /\ x \in Rec(durable.journal) /\ x \notin happened
        /\ service' = Effect(x[1], x[2]) \/ service' = service
    BY <2>2, ApplyDoes
  <2> HIDE DEF x
  <2>4. PICK v \in Units, op \in Ops : x = <<v, op>>
    BY <2>3 DEF Steps
  <2>5. v = u /\ op \in {"WriteUnit", "RemoveUnit"}
    <3>1. service' = Effect(v, op)
      BY <2>3, <2>4
    <3>2. u # v \/ op \notin {"WriteUnit", "RemoveUnit"} => service'[u].file = service[u].file
      BY <2>1, <3>1, EffectIs
    <3> QED
      BY <3>2
  <2>6. <<u, op>> \in Rec(file.journal) /\ <<u, op>> \notin happened
    BY <2>3, <2>4, <2>5 DEF IInv, Trailing
  <2>7. /\ op \in Allowed(u)
        /\ WasActive(u) => <<u, "Stop">> \in happened
        /\ WasEnabled(u) => <<u, "Disable">> \in happened
    <3>1. Ver(file.journal) \subseteq happened
      BY DEF IInv, Trailing
    <3> QED
      BY <2>5, <2>6, <3>1, RecordIsInOrder
  <2>8. <<u, "Enable">> \notin happened /\ <<u, "Start">> \notin happened
    <3> SUFFICES ASSUME NEW o \in {"Enable", "Start"}, <<u, o>> \in happened
                 PROVE  FALSE
      OBVIOUS
    <3>1. {"Enable", "Start", "WriteUnit", "RemoveUnit", "ManagerReload"} \subseteq Ops
      BY DEF Ops
    <3>2. <<u, o>> \in Rec(file.journal)
      BY HappenedIsRecorded
    <3>3. o \in Allowed(u) /\ <<u, "ManagerReload">> \in Ver(file.journal)
      BY <3>1, <3>2, RecordIsInOrder
    <3>4. Ver(file.journal) \subseteq Rec(file.journal) /\ Ver(file.journal) \subseteq happened
      <4>1. file.journal \in Seq(Entries)
        BY DEF IInv, TypeOK, Checkpoints
      <4> QED
        BY <4>1, SetsTell DEF IInv, Trailing
    <3>5. \/ <<u, "WriteUnit">> \in Ver(file.journal)
          \/ <<u, "RemoveUnit">> \in Ver(file.journal)
      BY <3>1, <3>3, <3>4, RecordIsInOrder
    <3>6. <<u, "RemoveUnit">> \in Rec(file.journal)
      BY <2>5, <2>6, <3>4, <3>5
    <3>7. "RemoveUnit" \in Allowed(u)
      BY <3>1, <3>6, RecordIsInOrder
    <3> QED
      BY <3>3, <3>7 DEF Allowed
  <2>9. /\ ~WasEnabled(u) => ~case[u].found.enabled \/ (Dangling(u) /\ Target(u) # "OriginalUnit")
        /\ ~WasActive(u) => ~case[u].found.active
    <3>1. CASE Target(u) = "OriginalUnit"
      BY <3>1 DEF WasEnabled, WasActive
    <3>2. CASE Target(u) # "OriginalUnit"
      <4>1. Preservable(u)
        <5>1. file.exists
          <6>1. ~file.exists => file.journal = <<>>
            BY NothingYet DEF IInv, Journals
          <6>2. file.journal # <<>>
            BY <2>6, NothingYet
          <6> QED
            BY <6>1, <6>2
        <5> QED
          BY <5>1 DEF IInv, Journals
      <4>2. case[u].found.file = "none"
        BY <3>2, <4>1 DEF Target, Preservable
      <4>3. ~case[u].found.active
        BY <4>1, <4>2 DEF Preservable
      <4>4. ~case[u].found.enabled \/ Dangling(u)
        BY <4>2 DEF Dangling
      <4> QED
        BY <3>2, <4>3, <4>4
    <3> QED
      BY <3>1, <3>2
  <2>13. Target(u) # "OriginalUnit" /\ Dangling(u) => service[u].file = "none"
    <3> SUFFICES ASSUME Target(u) # "OriginalUnit", Dangling(u) PROVE service[u].file = "none"
      OBVIOUS
    <3>1. "RemoveUnit" \notin Allowed(u)
      BY DEF Allowed, Ops
    <3>2. <<u, "RemoveUnit">> \notin happened
      <4>1. "RemoveUnit" \in Ops
        BY DEF Ops
      <4>2. <<u, "RemoveUnit">> \in happened => <<u, "RemoveUnit">> \in Rec(file.journal)
        BY <4>1, HappenedIsRecorded
      <4> QED
        BY <3>1, <4>1, <4>2, RecordIsInOrder
    <3>3. op = "WriteUnit"
      BY <2>5, <2>7, <3>1
    <3>4. service[u].file = case[u].found.file
      BY <2>1, <2>6, <3>2, <3>3 DEF UnitFollows
    <3> QED
      BY <3>4 DEF Dangling
  <2>10. service[u].enabled => Dangling(u) /\ service[u].file = "none"
    BY <2>1, <2>7, <2>8, <2>9, <2>13 DEF UnitFollows
  <2>11. ~booted => ~service[u].active
    BY <2>1, <2>7, <2>8, <2>9 DEF UnitFollows
  <2>12. booted \in BOOLEAN
    BY DEF IInv, TypeOK
  <2> QED
    BY <2>10, <2>11, <2>12
<1> QED
  BY <1>1, Invariant, PTL DEF Spec, FilesChangeAtRest

-----------------------------------------------------------------------------
(* The contract.                                                           *)

\* What the two sets and the count of its calls tell of a step.
Told(x) ==
    /\ x \in Ver(durable.journal) => StatusOf(x) = "confirmed" /\ calls[x] = 1
    /\ x \in Rec(durable.journal) \ Ver(durable.journal) =>
           StatusOf(x) = IF calls[x] = 0 THEN "intended" ELSE "ran"
    /\ x \notin Rec(durable.journal) => StatusOf(x) = "none" /\ calls[x] = 0
    /\ calls[x] \in {0, 1}

StepsTold == \A x \in Steps : Told(x)

LEMMA StatusIsTold ==
    ASSUME IInv
    PROVE  StepsTold
<1> SUFFICES ASSUME NEW x \in Steps PROVE Told(x)
  BY DEF StepsTold
<1>1. durable.journal \in Seq(Entries) /\ Tidy(durable.journal)
  BY DEF IInv, TypeOK, Journals, Checkpoints
<1>2. /\ Ver(durable.journal) \subseteq happened
      /\ calls[x] \in {0, 1} /\ (calls[x] = 1 => x \in Rec(durable.journal))
      /\ (x \in happened => calls[x] = 1)
  BY DEF IInv, Trailing
<1>3. /\ Contains(durable.journal, Entry(x, TRUE)) <=> x \in Ver(durable.journal)
      /\ Contains(durable.journal, Entry(x, FALSE)) <=>
             x \in Rec(durable.journal) \ Ver(durable.journal)
      /\ Ver(durable.journal) \subseteq Rec(durable.journal)
  BY <1>1, SetsTell, OneEntry
<1> QED
  BY <1>2, <1>3 DEF Told, StatusOf

\* A write of the record, or its loss, closes at most the step that ran and
\* opens at most one.
LEMMA DiskRecords ==
    ASSUME IInv, IInv', StepsTold, StepsTold', [Next]_vars,
           calls' = calls, durable' \in {durable, file}
    PROVE  Contract!Record
<1>1. /\ Rec(durable.journal) \subseteq Rec(durable'.journal)
      /\ Ver(durable.journal) \subseteq Ver(durable'.journal)
  BY DiskGrows
<1>2. Ver(durable'.journal) \subseteq happened
  BY DEF IInv, Trailing
<1>3. /\ Rec(durable.journal)' = Rec(durable'.journal)
      /\ Ver(durable.journal)' = Ver(durable'.journal)
  BY DEF Rec, Ver, Contains, Entry
<1>4. durable'.journal \in Seq(Entries) /\ Tidy(durable'.journal)
  BY DEF IInv, TypeOK, Journals, Checkpoints
<1>5. \A x \in Steps : Told(x) /\ Told(x)' /\ (x \in happened => calls[x] = 1)
  BY DEF StepsTold, IInv, Trailing
<1>6. \A x \in Steps :
         /\ StatusOf(x)' \in {"none", "intended", "ran", "confirmed"}
         /\ StatusOf(x)' \in {"intended", "ran"} =>
                x \in Rec(durable'.journal) \ Ver(durable'.journal)
         /\ \/ StatusOf(x)' = StatusOf(x)
            \/ StatusOf(x) = "none" /\ StatusOf(x)' = "intended"
            \/ StatusOf(x) = "ran"  /\ StatusOf(x)' = "confirmed"
  <2> SUFFICES ASSUME NEW x \in Steps
               PROVE  /\ StatusOf(x)' \in {"none", "intended", "ran", "confirmed"}
                      /\ StatusOf(x)' \in {"intended", "ran"} =>
                             x \in Rec(durable'.journal) \ Ver(durable'.journal)
                      /\ \/ StatusOf(x)' = StatusOf(x)
                         \/ StatusOf(x) = "none" /\ StatusOf(x)' = "intended"
                         \/ StatusOf(x) = "ran"  /\ StatusOf(x)' = "confirmed"
    OBVIOUS
  <2>1. /\ x \in Ver(durable.journal) => StatusOf(x) = "confirmed"
        /\ x \in Rec(durable.journal) \ Ver(durable.journal) =>
               StatusOf(x) = IF calls[x] = 0 THEN "intended" ELSE "ran"
        /\ x \notin Rec(durable.journal) => StatusOf(x) = "none" /\ calls[x] = 0
    BY <1>5 DEF Told
  <2>2. /\ x \in Ver(durable'.journal) => StatusOf(x)' = "confirmed" /\ calls[x] = 1
        /\ x \in Rec(durable'.journal) \ Ver(durable'.journal) =>
               StatusOf(x)' = IF calls[x] = 0 THEN "intended" ELSE "ran"
        /\ x \notin Rec(durable'.journal) => StatusOf(x)' = "none"
    BY <1>3, <1>5 DEF Told
  <2>3. Ver(durable'.journal) \subseteq Rec(durable'.journal)
    BY <1>4, SetsTell
  <2> QED
    BY <1>1, <2>1, <2>2, <2>3
<1>7. /\ \A x \in Steps : StepStatus[x] = StatusOf(x) /\ StepStatus'[x] = StatusOf(x)'
      /\ StepStatus' = [x \in Steps |-> StepStatus'[x]]
  BY DEF StepStatus
<1>8. StepStatus' \in [Steps -> Contract!Status]
  BY <1>6, <1>7 DEF Contract!Status
<1>9. Cardinality(Contract!Open(StepStatus')) <= 1
  <2>1. Contract!Open(StepStatus') \subseteq Rec(durable'.journal) \ Ver(durable'.journal)
    BY <1>6, <1>7 DEF Contract!Open
  <2>2. \/ Contract!Open(StepStatus') = {}
        \/ Contract!Open(StepStatus') = {Last(durable'.journal).step}
    <3> DEFINE open == Rec(durable'.journal) \ Ver(durable'.journal)
    <3>1. open # {} => open = {Last(durable'.journal).step}
      BY <1>4, OneEntry
    <3> HIDE DEF open
    <3>2. Contract!Open(StepStatus') \subseteq open
      BY <2>1 DEF open
    <3> QED
      BY <3>1, <3>2
  <2>3. Cardinality({}) = 0 /\ Cardinality({Last(durable'.journal).step}) = 1
    BY FS_EmptySet, FS_Singleton
  <2> QED
    BY <2>2, <2>3
<1>10. \A S : Contract!Cardinality(S) = Cardinality(S)
  BY DEF Contract!Cardinality, Cardinality
<1> QED
  BY <1>6, <1>7, <1>8, <1>9, <1>10 DEF Contract!Record

\* An effect runs the step that its intent on the disk authorised.
LEMMA EffectRuns ==
    ASSUME IInv, StepsTold, StepsTold', NEW d \in Drivers, Apply(d)
    PROVE  Contract!Run(driver[d].step) /\ driver[d].step \in Steps
<1>0. PICK x \in Steps : x = driver[d].step
  BY ApplyDoes
<1>1. /\ x \in Rec(durable.journal) /\ x \notin happened
      /\ calls[x] = 0 /\ calls'[x] = 1 /\ \A y \in Steps \ {x} : calls'[y] = calls[y]
  BY <1>0, ApplyDoes
<1>2. durable' = durable
  BY DEF Apply
<1>3. /\ Rec(durable.journal)' = Rec(durable.journal)
      /\ Ver(durable.journal)' = Ver(durable.journal)
  BY <1>2 DEF Rec, Ver, Contains, Entry
<1>4. \A y \in Steps : Told(y) /\ Told(y)'
  BY DEF StepsTold
<1>5. x \notin Ver(durable.journal)
  BY <1>1 DEF IInv, Trailing
<1>6. StatusOf(x) = "intended" /\ StatusOf(x)' = "ran"
  <2>1. Told(x) /\ Told(x)'
    BY <1>1, <1>4
  <2>2. x \in Rec(durable.journal) \ Ver(durable.journal)
    BY <1>1, <1>5
  <2>3. StatusOf(x) = IF calls[x] = 0 THEN "intended" ELSE "ran"
    BY <2>1, <2>2 DEF Told
  <2>4. StatusOf(x)' = IF calls'[x] = 0 THEN "intended" ELSE "ran"
    BY <1>3, <2>1, <2>2 DEF Told
  <2> QED
    BY <1>1, <2>3, <2>4
<1>7. \A y \in Steps \ {x} : StatusOf(y)' = StatusOf(y)
  <2> SUFFICES ASSUME NEW y \in Steps, y # x PROVE StatusOf(y)' = StatusOf(y)
    OBVIOUS
  <2>1. CASE y \in Ver(durable.journal)
    BY <1>3, <1>4, <2>1 DEF Told
  <2>2. CASE y \in Rec(durable.journal) \ Ver(durable.journal)
    BY <1>1, <1>3, <1>4, <2>2 DEF Told
  <2>3. CASE y \notin Rec(durable.journal)
    BY <1>3, <1>4, <2>3 DEF Told
  <2> QED
    BY <2>1, <2>2, <2>3
<1>8. StepStatus' = [StepStatus EXCEPT ![x] = "ran"] /\ StepStatus[x] = "intended"
  <2>1. /\ \A y \in Steps : StepStatus[y] = StatusOf(y) /\ StepStatus'[y] = StatusOf(y)'
        /\ StepStatus' = [y \in Steps |-> StepStatus'[y]]
        /\ StepStatus = [y \in Steps |-> StepStatus[y]]
    BY DEF StepStatus
  <2>2. StepStatus[x] = "intended" /\ StepStatus'[x] = "ran"
    BY <1>1, <1>6, <2>1
  <2>3. \A y \in Steps \ {x} : StepStatus'[y] = StepStatus[y]
    BY <1>7, <2>1
  <2> HIDE DEF StepStatus
  <2> QED
    BY <1>1, <2>1, <2>2, <2>3
<1> QED
  BY <1>0, <1>8 DEF Contract!Run

\* The driver and its checkpoint keep the write-ahead contract through crashes,
\* power losses, stale writers and reconciliation.
THEOREM Refinement == Spec => ImplementsContract
<1>1. Init => Contract!ContractInit
  <2> SUFFICES ASSUME Init PROVE Contract!ContractInit
    OBVIOUS
  <2>1. \A x \in Steps : StatusOf(x) = "none"
    <3>1. durable.journal = <<>>
      BY NothingYet DEF Init
    <3>2. \A e : ~Contains(<<>>, e)
      <4>1. 1..Len(<<>>) = {}
        BY EmptySeq
      <4> QED
        BY <4>1 DEF Contains
    <3>3. \A x \in Steps : calls[x] = 0
      BY DEF Init
    <3> QED
      BY <3>1, <3>2, <3>3 DEF StatusOf
  <2> QED
    BY <2>1 DEF Contract!ContractInit, StepStatus
<1>2. IInv => StepsTold
  BY StatusIsTold
<1>3. IInv /\ IInv' /\ StepsTold /\ StepsTold' /\ [Next]_vars => [Contract!ContractNext]_StepStatus
  <2> SUFFICES ASSUME IInv, IInv', StepsTold, StepsTold', [Next]_vars
               PROVE  [Contract!ContractNext]_StepStatus
    OBVIOUS
  <2>1. CASE DiskRests
    <3>1. calls' = calls /\ durable' \in {durable, file}
      BY <2>1 DEF DiskRests
    <3> QED
      BY <3>1, DiskRecords DEF Contract!ContractNext
  <2>2. CASE UNCHANGED <<durable, calls, happened>>
    BY <2>2, DiskRecords DEF Contract!ContractNext
  <2>3. ASSUME NEW d \in Drivers, Apply(d) PROVE Contract!ContractNext
    BY <2>3, EffectRuns DEF Contract!ContractNext
  <2> QED
    BY <2>1, <2>2, <2>3, DiskMoves
<1> QED
  BY <1>1, <1>2, <1>3, Invariant, PTL DEF Spec, ImplementsContract, Contract!ContractSpec

=============================================================================
