------------------------ MODULE EventConsumersProofs ------------------------
(***************************************************************************)
(* Proofs about EventConsumers, for any number of replicas, consumers and  *)
(* facts, any page size and any number of deliveries.                      *)
(*                                                                         *)
(* Several replicas walk one cursor, and set it back and forth.  That they *)
(* leave nothing behind is a fact about each walk: whatever lies at or     *)
(* below the cursor it read, or before the fact it is at, was answered for *)
(* by somebody.  It survives a commit because a timely fact commits past   *)
(* every fact its consumer could have reached; a late one is left out.     *)
(***************************************************************************)
EXTENDS EventConsumers, TLAPS

(***************************************************************************)
(* The parts of the inductive invariant.                                   *)
(***************************************************************************)

\* Numbers are drawn in order.
Numbered == \A e \in Facts : log[e] # "unused" => e <= next

\* A place in the log that a cursor or a walk of the consumer has reached.
Reached(c, n) == n = 0 \/ n \in Wanted(c)

\* Whatever timely fact the consumer asks for up to n was answered for.
BehindIsAnswered(c, n) == \A e \in Timely(c) : e <= n => e \in Answered(c)

CursorSound == \A c \in Names : Reached(c, cursor[c]) /\ BehindIsAnswered(c, cursor[c])

\* A walk about to list starts from such a place.
ListSound ==
    \A r \in Replicas :
       walk[r].pc = "list" => Reached(walk[r].on, walk[r].from) /\ BehindIsAnswered(walk[r].on, walk[r].from)

\* A page under way holds facts of its consumer, and skips only late ones and what was
\* answered for; its first fact is answered for before the cursor is set.
PageSound ==
    \A r \in Replicas :
       /\ walk[r].pc \in {"deliver", "park", "save"} =>
             /\ walk[r].page \subseteq Wanted(walk[r].on)
             /\ \A d \in walk[r].page, e \in Timely(walk[r].on) :
                   e <= d => e \in walk[r].page \cup Answered(walk[r].on)
       /\ walk[r].pc = "save" => \A e \in Facts : Turn(r, e) => e \in Answered(walk[r].on)

\* A fact in delivery has an attempt left.
TriesLeft == \A r \in Replicas : walk[r].pc = "deliver" => walk[r].tries < MaxAttempts

IInv == TypeOK /\ Numbered /\ CursorSound /\ ListSound /\ PageSound /\ TriesLeft

-----------------------------------------------------------------------------
LEMMA RestingTyped ==
    /\ Resting \in Walk
    /\ \A pc \in {"down", "idle", "cursor"} : [Resting EXCEPT !.pc = pc] \in Walk
    /\ \A n \in Names : [Resting EXCEPT !.pc = "cursor", !.on = n] \in Walk
<1> USE ConsumersAssumption
<1>1. Resting \in Walk
    BY DEF Resting, Walk, Names
<1>2. ASSUME NEW pc \in {"down", "idle", "cursor"} PROVE [Resting EXCEPT !.pc = pc] \in Walk
    BY <1>1, <1>2 DEF Walk
<1>3. ASSUME NEW n \in Names PROVE [Resting EXCEPT !.pc = "cursor", !.on = n] \in Walk
    BY <1>1, <1>3 DEF Walk
<1> QED
    BY <1>1, <1>2, <1>3

\* The next consumer, or the end of the drain: no cursor read and no page.
LEMMA OnwardTyped ==
    ASSUME NEW w \in Walk
    PROVE  Onward(w) \in Walk /\ Onward(w).pc \in {"cursor", "idle"}
<1>1. w.on < Consumers => w.on + 1 \in Names
    BY ConsumersAssumption DEF Walk, Names
<1> QED
    BY <1>1, RestingTyped DEF Onward, Resting

LEMMA AfterSaveTyped ==
    ASSUME NEW w \in Walk, w.pc = "save", NEW e
    PROVE  /\ AfterSave(w, e) \in Walk
           /\ AfterSave(w, e).pc \in {"deliver", "cursor", "idle"}
           /\ AfterSave(w, e).pc = "deliver" => /\ AfterSave(w, e).page = w.page \ {e}
                                                /\ AfterSave(w, e).on = w.on
                                                /\ AfterSave(w, e).tries = 0
<1>1. CASE w.page # {e}
  <2>1. AfterSave(w, e) = [w EXCEPT !.pc = "deliver", !.page = w.page \ {e}, !.tries = 0]
      BY <1>1 DEF AfterSave
  <2>2. 0 \in 0 .. MaxAttempts /\ w.page \ {e} \in SUBSET Facts
      BY ConsumersAssumption DEF Walk
  <2> QED
      BY <2>1, <2>2 DEF Walk
<1>2. CASE w.page = {e} /\ w.full
    BY <1>2, RestingTyped DEF AfterSave, Walk, Resting
<1>3. CASE w.page = {e} /\ ~w.full
    BY <1>3, OnwardTyped DEF AfterSave
<1> QED
    BY <1>1, <1>2, <1>3

\* What a step does to the walks: its own only, and only to a walk.
LEMMA StepTyped ==
    ASSUME TypeOK, NEW r \in Replicas, NEW w \in Walk, Moves(r, w)
    PROVE  /\ walk' \in [Replicas -> Walk]
           /\ walk'[r] = w
           /\ \A q \in Replicas : q # r => walk'[q] = walk[q]
BY DEF TypeOK, Moves

\* Steps that move one walk, and leave the log, the cursors and the answers alone.
LEMMA QuietStep ==
    ASSUME IInv, NEW r \in Replicas, NEW w \in Walk, Moves(r, w),
           UNCHANGED <<log, late, next, cursor, handled, letters, unwritten, store>>,
           w.pc = "list" => Reached(w.on, w.from) /\ BehindIsAnswered(w.on, w.from),
           w.pc \in {"deliver", "park"} =>
             /\ w.page \subseteq Wanted(w.on)
             /\ \A d \in w.page, e \in Timely(w.on) : e <= d => e \in w.page \cup Answered(w.on),
           w.pc = "deliver" => w.tries < MaxAttempts,
           w.pc # "save"
    PROVE  IInv'
<1>1. TypeOK' /\ walk'[r] = w /\ \A q \in Replicas : q # r => walk'[q] = walk[q]
    BY StepTyped DEF IInv, TypeOK
<1>2. Numbered'
    BY DEF IInv, Numbered
<1>3. /\ \A c \in Names : \A n : Reached(c, n)' <=> Reached(c, n)
      /\ \A c \in Names : Wanted(c)' = Wanted(c) /\ Timely(c)' = Timely(c) /\ Answered(c)' = Answered(c)
      /\ \A c \in Names : \A n : BehindIsAnswered(c, n)' <=> BehindIsAnswered(c, n)
    BY DEF Reached, Wanted, Timely, Answered, BehindIsAnswered
<1>4. \A q \in Replicas : walk[q].on \in Names /\ walk'[q].on \in Names
    BY <1>1 DEF IInv, TypeOK, Walk
<1>5. CursorSound'
    BY <1>3 DEF IInv, CursorSound
<1>6. ListSound'
    BY <1>1, <1>3, <1>4 DEF IInv, ListSound
<1>7. PageSound'
    BY <1>1, <1>3, <1>4 DEF IInv, PageSound, Turn
<1>8. TriesLeft'
    BY <1>1 DEF IInv, TriesLeft
<1> QED
    BY <1>1, <1>2, <1>5, <1>6, <1>7, <1>8 DEF IInv

\* Steps that answer for a fact: nothing that was answered for is so no longer.
LEMMA AnswerStep ==
    ASSUME IInv, NEW r \in Replicas, NEW e \in Facts, Turn(r, e), walk[r].pc \in {"deliver", "park"},
           Moves(r, [walk[r] EXCEPT !.pc = "save"]),
           UNCHANGED <<log, late, next, cursor, store>>,
           handled' \in [Names -> SUBSET Facts],
           letters' \in [Names -> SUBSET Facts],
           unwritten' \in [Names -> SUBSET Facts],
           \A c \in Names : Answered(c) \subseteq Answered(c)',
           NEW k \in Names, k = walk[r].on, e \in Answered(k)'
    PROVE  IInv'
<1> DEFINE w == [walk[r] EXCEPT !.pc = "save"]
<1>1. w \in Walk /\ w.pc = "save" /\ w.on = walk[r].on /\ w.page = walk[r].page
    BY DEF IInv, TypeOK, Walk
<1> HIDE DEF w
<1>2. TypeOK' /\ walk'[r] = w /\ \A q \in Replicas : q # r => walk'[q] = walk[q]
    BY <1>1, StepTyped DEF IInv, TypeOK, w
<1>3. /\ \A c \in Names : \A n : Reached(c, n)' <=> Reached(c, n)
      /\ \A c \in Names : Wanted(c)' = Wanted(c) /\ Timely(c)' = Timely(c)
      /\ \A c \in Names : \A n : BehindIsAnswered(c, n) => BehindIsAnswered(c, n)'
    BY DEF Reached, Wanted, Timely, BehindIsAnswered
<1>4. \A q \in Replicas : walk[q].on \in Names
    BY DEF IInv, TypeOK, Walk
<1>5. Numbered' /\ CursorSound'
    BY <1>3 DEF IInv, Numbered, CursorSound
<1>6. ListSound'
    BY <1>1, <1>2, <1>3, <1>4 DEF IInv, ListSound
<1>7. \A d \in Facts : Turn(r, d)' => d = e
    BY <1>1, <1>2 DEF Turn, Facts
<1>8. PageSound'
    BY <1>1, <1>2, <1>3, <1>4, <1>7 DEF IInv, PageSound, Turn
<1>9. TriesLeft'
    BY <1>1, <1>2 DEF IInv, TriesLeft
<1> QED
    BY <1>2, <1>5, <1>6, <1>8, <1>9 DEF IInv

\* Steps of the log: a fact that becomes visible is late, or past every place reached.
LEMMA LogStep ==
    ASSUME IInv, Numbered', TypeOK', UNCHANGED <<cursor, handled, letters, unwritten, walk>>,
           \A e \in Facts : log[e] = "committed" => log'[e] = "committed",
           \A c \in Names, e \in Facts :
              log[e] = "committed" => (e \in late'[c] <=> e \in late[c]),
           \A c \in Names : \A e \in Wants[c] :
              log'[e] = "committed" /\ log[e] # "committed" =>
                 e \in late'[c] \/ ~\E d \in Wanted(c) : d > e
    PROVE  IInv'
<1>1. \A c \in Names : Wants[c] \subseteq Facts
    BY ConsumersAssumption
<1>2. \A c \in Names :
         /\ Wanted(c) \subseteq Wanted(c)' /\ Timely(c) \subseteq Timely(c)'
         /\ Answered(c)' = Answered(c)
         /\ \A n : Reached(c, n) => Reached(c, n)'
    BY <1>1 DEF Wanted, Timely, Answered, Reached
<1>3. ASSUME NEW c \in Names, NEW n, Reached(c, n), NEW e \in Timely(c)', e <= n PROVE e \in Timely(c)
  <2>1. e \in Facts /\ e \in Wants[c] /\ log'[e] = "committed" /\ e \notin late'[c]
      BY <1>1, <1>3 DEF Wanted, Timely
  <2>2. n \in Facts /\ n \in Wanted(c)
      BY <1>1, <1>3, <2>1 DEF Reached, Wanted, Facts
  <2>3. CASE log[e] # "committed"
    <3>1. ~(n > e)
        BY <2>1, <2>2, <2>3
    <3>2. e = n
        BY <1>3, <2>1, <2>2, <3>1 DEF Facts
    <3> QED
        BY <2>2, <2>3, <3>2 DEF Wanted
  <2>4. CASE log[e] = "committed"
      BY <2>1, <2>4 DEF Wanted, Timely
  <2> QED
      BY <2>3, <2>4
<1>4. \A c \in Names : \A n : Reached(c, n) /\ BehindIsAnswered(c, n) => BehindIsAnswered(c, n)'
    BY <1>2, <1>3 DEF BehindIsAnswered
<1>5. \A q \in Replicas : walk[q].on \in Names
    BY DEF IInv, TypeOK, Walk
<1>6. CursorSound' /\ ListSound'
    BY <1>2, <1>4, <1>5 DEF IInv, CursorSound, ListSound
<1>8. PageSound'
  <2> SUFFICES ASSUME NEW q \in Replicas, walk[q].pc \in {"deliver", "park", "save"}
               PROVE  /\ walk[q].page \subseteq Wanted(walk[q].on)'
                      /\ \A d \in walk[q].page, e \in Timely(walk[q].on)' :
                            e <= d => e \in walk[q].page \cup Answered(walk[q].on)
                      /\ walk[q].pc = "save" => \A e \in Facts : Turn(q, e) => e \in Answered(walk[q].on)
      BY <1>2, <1>5 DEF PageSound, Turn
  <2>1. /\ walk[q].page \subseteq Wanted(walk[q].on)
        /\ \A d \in walk[q].page, e \in Timely(walk[q].on) :
              e <= d => e \in walk[q].page \cup Answered(walk[q].on)
        /\ walk[q].pc = "save" => \A e \in Facts : Turn(q, e) => e \in Answered(walk[q].on)
      BY DEF IInv, PageSound
  <2>2. \A d \in walk[q].page : Reached(walk[q].on, d)
      BY <2>1 DEF Reached
  <2>3. \A d \in walk[q].page, e \in Timely(walk[q].on)' : e <= d => e \in Timely(walk[q].on)
      BY <1>3, <1>5, <2>2
  <2> QED
      BY <1>2, <1>5, <2>1, <2>3
<1>9. TriesLeft'
    BY DEF IInv, TriesLeft
<1> QED
    BY <1>6, <1>8, <1>9 DEF IInv

-----------------------------------------------------------------------------
LEMMA InvInit == Init => IInv
<1> SUFFICES ASSUME Init PROVE IInv
    OBVIOUS
<1> USE ConsumersAssumption
<1>1. TypeOK
  <2>1. 0 \in 0 .. Last
      OBVIOUS
  <2> QED
      BY <2>1, RestingTyped DEF Init, TypeOK
<1>2. \A r \in Replicas : walk[r].pc = "idle"
    BY DEF Init, Resting
<1>3. \A c \in Names : cursor[c] = 0 /\ Timely(c) = {}
    BY DEF Init, Wanted, Timely
<1>4. Numbered /\ CursorSound
    BY <1>3 DEF Init, Numbered, CursorSound, Reached, BehindIsAnswered
<1> QED
    BY <1>1, <1>2, <1>4 DEF IInv, ListSound, PageSound, TriesLeft

\* Every step keeps the invariant, in whichever order transactions commit.
LEMMA InvStep == IInv /\ [Next]_vars => IInv'
<1> SUFFICES ASSUME IInv, [Next]_vars PROVE IInv'
    OBVIOUS
<1> USE ConsumersAssumption
<1>0. TypeOK
    BY DEF IInv
<1>1. CASE Append
  <2>1. TypeOK' /\ Numbered'
      BY <1>0, <1>1 DEF Append, IInv, TypeOK, Numbered, Facts
  <2>2. /\ \A e \in Facts : log[e] = "committed" => log'[e] = "committed"
        /\ \A e \in Facts : log'[e] = "committed" => log[e] = "committed"
      BY <1>0, <1>1 DEF Append, IInv, TypeOK, Numbered, Facts
  <2> QED
      BY <1>1, <2>1, <2>2, LogStep DEF Append
<1>2. ASSUME NEW e \in Facts, Commit(e) PROVE IInv'
  <2>1. TypeOK' /\ Numbered'
      BY <1>0, <1>2 DEF Commit, IInv, TypeOK, Numbered
  <2>2. \A c \in Names, d \in Facts : d \in late'[c] <=> d \in late[c] \/ (d = e /\ \E f \in Wanted(c) : f > e)
      BY <1>0, <1>2 DEF Commit, TypeOK
  <2>3. log[e] = "open" /\ \A d \in Facts : log'[d] = IF d = e THEN "committed" ELSE log[d]
      BY <1>0, <1>2 DEF Commit, TypeOK
  <2> QED
      BY <1>2, <2>1, <2>2, <2>3, LogStep DEF Commit
<1>12. ASSUME NEW e \in Facts, Abort(e) PROVE IInv'
  <2>1. TypeOK' /\ Numbered'
      BY <1>0, <1>12 DEF Abort, IInv, TypeOK, Numbered
  <2>2. /\ \A d \in Facts : log[d] = "committed" => log'[d] = "committed"
        /\ \A d \in Facts : log'[d] = "committed" => log[d] = "committed"
      BY <1>0, <1>12 DEF Abort, TypeOK
  <2> QED
      BY <1>12, <2>1, <2>2, LogStep DEF Abort
<1>3. CASE Outage \/ Repair
  <2>1. TypeOK' /\ Numbered'
      BY <1>3 DEF Outage, Repair, IInv, TypeOK, Numbered
  <2> QED
      BY <1>3, <2>1, LogStep DEF Outage, Repair
<1>4. ASSUME NEW r \in Replicas, Drain(r) \/ Crash(r) \/ Restart(r) PROVE IInv'
  <2>1. PICK pc \in {"down", "idle", "cursor"} : Moves(r, [Resting EXCEPT !.pc = pc])
    <3>1. Resting = [Resting EXCEPT !.pc = "idle"]
        BY DEF Resting
    <3> QED
        BY <1>4, <3>1 DEF Drain, Crash, Restart
  <2>2. UNCHANGED <<log, late, next, cursor, handled, letters, unwritten, store>>
      BY <1>4 DEF Drain, Crash, Restart
  <2>3. [Resting EXCEPT !.pc = pc] \in Walk /\ [Resting EXCEPT !.pc = pc].pc = pc
      BY RestingTyped DEF Resting
  <2> QED
      BY <2>1, <2>2, <2>3, QuietStep
<1>5. ASSUME NEW r \in Replicas, GetCursor(r) PROVE IInv'
  <2> DEFINE w == [walk[r] EXCEPT !.pc = "list", !.from = cursor[At(r)]]
  <2>1. w \in Walk /\ w.pc = "list" /\ w.on = walk[r].on /\ w.from = cursor[walk[r].on] /\ w.on \in Names
      BY <1>0 DEF TypeOK, Walk, At
  <2>2. Moves(r, w) /\ UNCHANGED <<log, late, next, cursor, handled, letters, unwritten, store>>
      BY <1>5 DEF GetCursor
  <2>3. Reached(w.on, w.from) /\ BehindIsAnswered(w.on, w.from)
      BY <2>1 DEF IInv, CursorSound
  <2> HIDE DEF w
  <2> QED
      BY <2>1, <2>2, <2>3, QuietStep
<1>6. ASSUME NEW r \in Replicas, List(r) PROVE IInv'
  <2> DEFINE all == {e \in Wanted(At(r)) : e > walk[r].from}
  <2>1. PICK page \in SUBSET all :
           /\ IsPage(page, all)
           /\ Moves(r, IF page = {} THEN Onward(walk[r])
                       ELSE [walk[r] EXCEPT !.pc = "deliver", !.page = page, !.tries = 0,
                                            !.full = Cardinality(page) = Batch])
      BY <1>6 DEF List
  <2>2. walk[r] \in Walk /\ walk[r].pc = "list" /\ walk[r].on \in Names /\ walk[r].from \in 0 .. Last
      BY <1>0, <1>6 DEF TypeOK, List, Walk
  <2>3. UNCHANGED <<log, late, next, cursor, handled, letters, unwritten, store>>
      BY <1>6 DEF List
  <2>4. CASE page = {}
      BY <2>1, <2>2, <2>3, <2>4, OnwardTyped, QuietStep
  <2>5. CASE page # {}
    <3> DEFINE w == [walk[r] EXCEPT !.pc = "deliver", !.page = page, !.tries = 0,
                                    !.full = Cardinality(page) = Batch]
    <3>1. page \in SUBSET Facts /\ page \subseteq Wanted(walk[r].on)
        BY <2>2 DEF Wanted, At
    <3>2. w \in Walk /\ w.pc = "deliver" /\ w.on = walk[r].on /\ w.page = page /\ w.tries = 0
      <4>1. 0 \in 0 .. MaxAttempts /\ (Cardinality(page) = Batch) \in BOOLEAN
          OBVIOUS
      <4> QED
          BY <2>2, <3>1, <4>1 DEF Walk
    <3>3. ASSUME NEW d \in page, NEW e \in Timely(walk[r].on), e <= d
          PROVE  e \in page \cup Answered(walk[r].on)
      <4>1. e \in Facts /\ d \in Facts /\ e \in Wanted(walk[r].on)
          BY <2>2, <3>1 DEF Timely, Wanted
      <4>2. CASE e <= walk[r].from
          BY <2>2, <4>2 DEF IInv, ListSound, BehindIsAnswered
      <4>3. CASE ~(e <= walk[r].from)
        <5>1. e \in all
            BY <2>2, <4>1, <4>3 DEF At, Facts
        <5>2. e = d \/ e < d
            BY <3>3, <4>1 DEF Facts
        <5> QED
            BY <2>1, <5>1, <5>2 DEF IsPage
      <4> QED
          BY <4>2, <4>3
    <3>4. Moves(r, w)
        BY <2>1, <2>5
    <3> HIDE DEF w
    <3> QED
        BY <2>3, <3>1, <3>2, <3>3, <3>4, QuietStep
  <2> QED
      BY <2>4, <2>5
<1>7. ASSUME NEW r \in Replicas, Throw(r) PROVE IInv'
  <2> DEFINE n == walk[r].tries + 1
  <2> DEFINE w == [walk[r] EXCEPT !.tries = n, !.pc = IF n < MaxAttempts THEN "deliver" ELSE "park"]
  <2>1. /\ walk[r] \in Walk /\ walk[r].pc = "deliver"
        /\ Moves(r, w) /\ UNCHANGED <<log, late, next, cursor, handled, letters, unwritten, store>>
      BY <1>0, <1>7 DEF Throw, TypeOK
  <2>2. walk[r].tries < MaxAttempts /\ walk[r].tries \in 0 .. MaxAttempts
      BY <2>1 DEF IInv, TriesLeft, Walk
  <2>3. n \in 0 .. MaxAttempts
      BY <2>2
  <2>4. /\ w \in Walk /\ w.pc \in {"deliver", "park"} /\ w.on = walk[r].on /\ w.page = walk[r].page
        /\ w.pc = "deliver" => w.tries < MaxAttempts
    <3> HIDE DEF n
    <3> QED
      BY <2>1, <2>3 DEF Walk
  <2> HIDE DEF w
  <2> QED
      BY <2>1, <2>4, QuietStep DEF IInv, PageSound
<1>8. ASSUME NEW r \in Replicas, StoreThrows(r) PROVE IInv'
  <2>1. walk[r] \in Walk /\ Moves(r, Onward(walk[r]))
        /\ UNCHANGED <<log, late, next, cursor, handled, letters, unwritten, store>>
      BY <1>0, <1>8 DEF StoreThrows, TypeOK
  <2> QED
      BY <2>1, OnwardTyped, QuietStep
<1>9. ASSUME NEW r \in Replicas, NEW e \in Facts, Handle(r, e) \/ Park(r, e) PROVE IInv'
  <2>1. PICK k \in Names : k = walk[r].on
      BY <1>0 DEF TypeOK, Walk
  <2>2. /\ handled' \in [Names -> SUBSET Facts] /\ letters' \in [Names -> SUBSET Facts]
        /\ unwritten' \in [Names -> SUBSET Facts]
      BY <1>0, <1>9, <2>1 DEF Handle, Park, TypeOK, At
  <2>3. (\A c \in Names : Answered(c) \subseteq Answered(c)') /\ e \in Answered(k)'
      BY <1>0, <1>9, <2>1 DEF Handle, Park, TypeOK, At, Answered
  <2>4. /\ Turn(r, e) /\ walk[r].pc \in {"deliver", "park"} /\ Moves(r, [walk[r] EXCEPT !.pc = "save"])
        /\ UNCHANGED <<log, late, next, cursor, store>>
      BY <1>9 DEF Handle, Park
  <2> QED
      BY <2>1, <2>2, <2>3, <2>4, AnswerStep
<1>10. ASSUME NEW r \in Replicas, NEW e \in Facts, SetCursor(r, e) PROVE IInv'
  <2>1. /\ walk[r] \in Walk /\ walk[r].pc = "save" /\ walk[r].on \in Names
        /\ Turn(r, e) /\ e \in walk[r].page
      BY <1>0, <1>10 DEF SetCursor, TypeOK, Walk, Turn
  <2>c. PICK c \in Names : c = walk[r].on
      BY <2>1
  <2>2. PICK w \in Walk :
           /\ w = AfterSave(walk[r], e) /\ w.pc \in {"deliver", "cursor", "idle"}
           /\ w.pc = "deliver" => w.page = walk[r].page \ {e} /\ w.on = c /\ w.tries = 0
      BY <2>1, <2>c, AfterSaveTyped
  <2>3. /\ cursor' = [cursor EXCEPT ![c] = e] /\ Moves(r, w)
        /\ UNCHANGED <<log, late, next, handled, letters, unwritten, store>>
      BY <1>10, <2>2, <2>c DEF SetCursor, At
  <2>4. /\ walk[r].page \subseteq Wanted(c) /\ e \in Answered(c)
        /\ \A d \in walk[r].page, x \in Timely(c) : x <= d => x \in walk[r].page \cup Answered(c)
      BY <2>1, <2>c DEF IInv, PageSound
  <2>5. Reached(c, e)
      BY <2>1, <2>4 DEF Reached, Wanted
  <2>6. BehindIsAnswered(c, e)
    <3> SUFFICES ASSUME NEW x \in Timely(c), x <= e PROVE x \in Answered(c)
        BY DEF BehindIsAnswered
    <3>1. x \in Facts
        BY <2>1 DEF Timely, Wanted
    <3>2. x \in walk[r].page \cup Answered(c)
        BY <2>1, <2>4
    <3>3. x \in walk[r].page => x = e
        BY <2>1, <3>1 DEF Turn, Facts
    <3> QED
        BY <2>4, <3>2, <3>3
  <2>7. TypeOK' /\ walk'[r] = w /\ \A q \in Replicas : q # r => walk'[q] = walk[q]
    <3>1. e \in 0 .. Last
        BY DEF Facts
    <3> QED
        BY <1>0, <2>1, <2>2, <2>3, <3>1, StepTyped DEF TypeOK
  <2>8. /\ \A k \in Names : \A n : Reached(k, n)' <=> Reached(k, n)
        /\ \A k \in Names : Wanted(k)' = Wanted(k) /\ Timely(k)' = Timely(k) /\ Answered(k)' = Answered(k)
        /\ \A k \in Names : \A n : BehindIsAnswered(k, n)' <=> BehindIsAnswered(k, n)
      BY <2>3 DEF Reached, Wanted, Timely, Answered, BehindIsAnswered
  <2>9. \A q \in Replicas : walk[q].on \in Names /\ walk'[q].on \in Names
      BY <1>0, <2>7 DEF TypeOK, Walk
  <2>10. Numbered'
      BY <2>3 DEF IInv, Numbered
  <2>11. CursorSound'
      BY <1>0, <2>1, <2>3, <2>5, <2>6, <2>8 DEF IInv, CursorSound, TypeOK
  <2>12. ListSound'
      BY <2>2, <2>7, <2>8, <2>9 DEF IInv, ListSound
  <2>13. PageSound'
    <3>1. ASSUME NEW q \in Replicas, q # r, NEW k \in Names, k = walk[q].on
          PROVE  /\ walk[q].pc \in {"deliver", "park", "save"} =>
                       /\ walk[q].page \subseteq Wanted(k)'
                       /\ \A d \in walk[q].page, x \in Timely(k)' : x <= d => x \in walk[q].page \cup Answered(k)'
                 /\ walk[q].pc = "save" => \A x \in Facts : Turn(q, x) => x \in Answered(k)'
        BY <2>8, <3>1 DEF IInv, PageSound
    <3>2. w.pc = "deliver" =>
             /\ w.page \subseteq Wanted(c)'
             /\ \A d \in w.page, x \in Timely(c)' : x <= d => x \in w.page \cup Answered(c)'
        BY <2>2, <2>4, <2>8
    <3>3. ASSUME NEW q \in Replicas
          PROVE  /\ walk'[q].pc \in {"deliver", "park", "save"} =>
                       /\ walk'[q].page \subseteq Wanted(walk[q].on)'
                       /\ \A d \in walk'[q].page, x \in Timely(walk[q].on)' :
                             x <= d => x \in walk'[q].page \cup Answered(walk[q].on)'
                 /\ walk'[q].pc = "save" => \A x \in Facts : Turn(q, x)' => x \in Answered(walk[q].on)'
      <4>1. CASE q = r
          BY <2>2, <2>7, <3>2, <4>1
      <4>2. CASE q # r
          BY <2>7, <2>9, <3>1, <4>2 DEF Turn
      <4> QED
          BY <4>1, <4>2
    <3> QED
        BY <3>3 DEF PageSound
  <2>14. TriesLeft'
      BY <2>2, <2>7 DEF IInv, TriesLeft
  <2> QED
      BY <2>7, <2>10, <2>11, <2>12, <2>13, <2>14 DEF IInv
<1>11. CASE UNCHANGED vars
  <2>1. TypeOK' /\ Numbered'
      BY <1>11 DEF vars, IInv, TypeOK, Numbered
  <2> QED
      BY <1>11, <2>1, LogStep DEF vars
<1> QED
    BY <1>1, <1>2, <1>3, <1>4, <1>5, <1>6, <1>7, <1>8, <1>9, <1>10, <1>11, <1>12 DEF Next, Step

-----------------------------------------------------------------------------
\* The inductive invariant.
THEOREM WalksAreSound == Spec => []IInv
<1>1. IInv /\ [Next]_vars => IInv'
    BY InvStep
<1> QED
    BY <1>1, InvInit, PTL DEF Spec

\* The log, the cursors and the walks keep their types.
THEOREM ConsumersTypeCorrect == Spec => []TypeOK
<1>1. IInv => TypeOK
    BY DEF IInv
<1> QED
    BY <1>1, WalksAreSound, PTL

\* No committed fact at or below a consumer's cursor went unanswered, but for those that
\* committed behind a later one, whichever replicas crash, rewind the cursor or walk a
\* stale page.
THEOREM NothingIsLeftBehind == Spec => []NothingLeftBehind
<1>1. IInv => NothingLeftBehind
    BY DEF IInv, CursorSound, BehindIsAnswered, NothingLeftBehind
<1> QED
    BY <1>1, WalksAreSound, PTL
=============================================================================
