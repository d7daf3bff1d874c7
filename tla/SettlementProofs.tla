-------------------------- MODULE SettlementProofs --------------------------
(***************************************************************************)
(* Proofs about Settlement, for any cases and any number of takeovers.     *)
(*                                                                         *)
(* The ledger's invariant holds whatever throws.  A second one follows a   *)
(* takeover: what a paused driver may still commit is on the list of the   *)
(* recovery until it is resolved.  It needs inserts of children and        *)
(* adoptions that do not fail, and gives that no driver pays twice or      *)
(* strands a batch.                                                        *)
(***************************************************************************)
EXTENDS Settlement, TLAPS

(***************************************************************************)
(* The ledger.                                                             *)
(***************************************************************************)

\* A transaction under way holds the case's claim, and the child it settles is open.
TxSound ==
    \A e \in Epochs, c \in Cases :
       InTx(e, c) => receipt[c] = None /\ child[c][tx[e][c].kid] = "open"
OneTx == \A e, f \in Epochs, c \in Cases : InTx(e, c) /\ InTx(f, c) => e = f

\* A driver that has not dispatched a case has no child of it.
Before == {"none", "claimed", "seeding", "owed", "burying"}
Undone(e, c) == drv[e].pc \in Before \/ (drv[e].pc = "driving" /\ job[e][c] = "todo")
Undispatched == \A e \in Epochs, c \in Cases : Undone(e, c) => child[c][e] = "none"

\* A driver about to settle the batch has seen a receipt for every case.
Counted == \A e \in Epochs : drv[e].pc = "settling" => \A c \in Cases : receipt[c] # None

LedgerInv == TypeOK /\ OneAnswer /\ TxSound /\ OneTx /\ Undispatched /\ Counted /\ SummaryStands

(***************************************************************************)
(* The takeover.                                                           *)
(***************************************************************************)
After == {"driving", "joining", "settling", "failing", "reclaiming", "attaching", "closing"}

\* A driver that is not at work on its cases knows of none.
KnowledgeAt(e) ==
    \A c \in Cases :
       /\ drv[e].pc \notin After => job[e][c] \notin {"running", "ran", "threw", "lost"}
       /\ drv[e].pc \in After \ {"driving"} => job[e][c] # "running"
       /\ tx[e][c].st = "unknown" => drv[e].pc = "seeding"

\* What may still be committed, or was, is on the recovery's list until it is resolved.
ListedAt(e) ==
    card.epoch = e /\ drv[e].pc = "seeding" =>
       \A c \in Cases :
          /\ \A f \in Epochs : InTx(f, c) => <<c, tx[f][c].kid>> \in owed[e]
          /\ receipt[c] # None => job[e][c] = "seeded" \/ <<c, receipt[c]>> \in owed[e]

\* While a recovery asks what became of its commit, nobody else has one under way.
AloneAt(e) ==
    card.epoch = e => \A c \in Cases, f \in Epochs : tx[e][c].st = "unknown" /\ InTx(f, c) => f = e

\* A case the driver has still to answer is its own, and its child is open.
Its(e, c) == job[e][c] \in {"todo", "running", "ran", "threw"}
OwnedAt(e) ==
    card.epoch = e /\ drv[e].pc \in After =>
       \A c \in Cases : Its(e, c) => receipt[c] = None /\ \A f \in Epochs : InTx(f, c) => f = e
OpenAt(e) ==
    Holds(e) => \A c \in Cases : job[e][c] \in {"running", "ran", "threw"} => child[c][e] = "open"

\* The answer lost, an abort during the join, a burial and the driver's end come from a
\* batch that is no longer the driver's.
GivenAt(e) ==
    /\ \A c \in Cases : job[e][c] = "lost" /\ ~drv[e].aborted => ~Holds(e)
    /\ drv[e].pc = "joining" /\ drv[e].aborted => ~Holds(e)
    /\ drv[e].pc = "burying" => card.status # "open"
    /\ drv[e].pc = "ended" => ~Holds(e)

TakeoverAt(e) == KnowledgeAt(e) /\ ListedAt(e) /\ AloneAt(e) /\ OwnedAt(e) /\ OpenAt(e) /\ GivenAt(e)
TakeoverInv == \A e \in Epochs : TakeoverAt(e)

\* The faults that the takeover's invariant does without.
NoLoss == "create" \notin Faults /\ "adopt" \notin Faults /\ "replan" \notin Faults

-----------------------------------------------------------------------------
(* Types.                                                                  *)

Driver == [pc : {"none", "claimed", "seeding", "owed", "burying", "driving", "joining",
                 "settling", "failing", "reclaiming", "attaching", "closing", "ended", "crashed"},
           owes : BOOLEAN, aborted : BOOLEAN, saw : {"open"} \cup Aborts]
Knowing == {"todo", "running", "ran", "threw", "committed", "seeded", "lost", "unwritten"}
Tx == [st : {"none", "settled", "failing", "adopted", "unknown"}, kid : Epochs]
Card == [status : {"open", "succeeded", "failed"} \cup Aborts, epoch : Epochs,
         summary : [Cases -> Epochs \cup {None}]]
Child == {"none", "open", "interrupted", "stopped"} \cup Answers
Attempt == {"none", "live", "committed", "failed", "dead"}

LEMMA Bounds == None \notin Epochs /\ 0 \in Epochs /\ Epochs \subseteq Nat /\ MaxEpoch \in Epochs
BY SettlementAssumption DEF None, Epochs

LEMMA TypeParts ==
    TypeOK <=> /\ card \in Card
               /\ child \in [Cases -> [Epochs -> Child]]
               /\ attempt \in [Cases -> [Epochs -> Attempt]]
               /\ receipt \in [Cases -> Epochs \cup {None}]
               /\ drv \in [Epochs -> Driver]
               /\ job \in [Epochs -> [Cases -> Knowing]]
               /\ owed \in [Epochs -> SUBSET Pairs]
               /\ tx \in [Epochs -> [Cases -> Tx]]
BY DEF TypeOK, Card, Child, Attempt, Driver, Knowing, Tx
LEMMA TypePartsNext ==
    ASSUME card' \in Card, child' \in [Cases -> [Epochs -> Child]], attempt' \in [Cases -> [Epochs -> Attempt]],
           receipt' \in [Cases -> Epochs \cup {None}], drv' \in [Epochs -> Driver],
           job' \in [Epochs -> [Cases -> Knowing]], owed' \in [Epochs -> SUBSET Pairs],
           tx' \in [Epochs -> [Cases -> Tx]]
    PROVE  TypeOK'
BY DEF TypeOK, Card, Child, Attempt, Driver, Knowing, Tx

\* A driver that ends keeps the types, and knows nothing any more.
LEMMA EndsTyped ==
    ASSUME TypeOK, NEW e \in Epochs, NEW pc \in {"ended", "crashed"}, Ends(e, pc)
    PROVE  /\ drv' \in [Epochs -> Driver] /\ job' \in [Epochs -> [Cases -> Knowing]]
           /\ owed' \in [Epochs -> SUBSET Pairs]
           /\ drv'[e].pc = pc /\ ~drv'[e].aborted /\ \A c \in Cases : job'[e][c] = "todo"
           /\ \A f \in Epochs \ {e} : drv'[f] = drv[f] /\ job'[f] = job[f] /\ owed'[f] = owed[f]
<1>1. Gone(pc) \in Driver /\ Gone(pc).pc = pc /\ ~Gone(pc).aborted
    BY DEF Gone, Driver
<1>2. Fresh \in [Cases -> Knowing] /\ \A c \in Cases : Fresh[c] = "todo"
    BY DEF Fresh, Knowing
<1> QED
    BY <1>1, <1>2, TypeParts DEF Ends

\* One driver moves to another place in its program.
Moves(e, pc) ==
    /\ drv' \in [Epochs -> Driver]
    /\ drv'[e].pc = pc /\ drv'[e].aborted = drv[e].aborted
    /\ \A f \in Epochs \ {e} : drv'[f] = drv[f]

LEMMA GoesTyped ==
    ASSUME TypeOK, NEW e \in Epochs,
           NEW pc \in {"none", "claimed", "seeding", "owed", "burying", "driving", "joining",
                       "settling", "failing", "reclaiming", "attaching", "closing", "ended", "crashed"},
           \/ Goes(e, pc)
           \/ \E owes \in BOOLEAN : drv' = [drv EXCEPT ![e].pc = pc, ![e].owes = owes]
           \/ \E saw \in {"open"} \cup Aborts : drv' = [drv EXCEPT ![e].pc = pc, ![e].saw = saw]
    PROVE  Moves(e, pc)
<1>1. drv \in [Epochs -> Driver]
    BY TypeParts
<1>2. CASE Goes(e, pc)
  <2>1. [drv[e] EXCEPT !.pc = pc] \in Driver
      BY <1>1 DEF Driver
  <2> QED
      BY <1>1, <1>2, <2>1 DEF Goes, Driver, Moves
<1>3. ASSUME NEW owes \in BOOLEAN, drv' = [drv EXCEPT ![e].pc = pc, ![e].owes = owes]
      PROVE  Moves(e, pc)
  <2>1. [[drv[e] EXCEPT !.pc = pc] EXCEPT !.owes = owes] \in Driver
      BY <1>1 DEF Driver
  <2> QED
      BY <1>1, <1>3, <2>1 DEF Driver, Moves
<1>4. ASSUME NEW saw \in {"open"} \cup Aborts, drv' = [drv EXCEPT ![e].pc = pc, ![e].saw = saw]
      PROVE  Moves(e, pc)
  <2>1. [[drv[e] EXCEPT !.pc = pc] EXCEPT !.saw = saw] \in Driver
      BY <1>1 DEF Driver
  <2> QED
      BY <1>1, <1>4, <2>1 DEF Driver, Moves
<1> QED
    BY <1>2, <1>3, <1>4

\* An abort marks one driver.
LEMMA AbortTyped ==
    ASSUME TypeOK, NEW e \in Epochs, drv' = [drv EXCEPT ![e].aborted = TRUE]
    PROVE  /\ drv' \in [Epochs -> Driver]
           /\ drv'[e].pc = drv[e].pc /\ drv'[e].aborted
           /\ \A f \in Epochs \ {e} : drv'[f] = drv[f]
<1>1. drv \in [Epochs -> Driver]
    BY TypeParts
<1>2. [drv[e] EXCEPT !.aborted = TRUE] \in Driver
    BY <1>1 DEF Driver
<1> QED
    BY <1>1, <1>2 DEF Driver

\* Knows() changes one thing a driver knows.
LEMMA KnowsTyped ==
    ASSUME TypeOK, NEW e \in Epochs, NEW c \in Cases, NEW what \in Knowing, Knows(e, c, what)
    PROVE  /\ job' \in [Epochs -> [Cases -> Knowing]]
           /\ job'[e][c] = what
           /\ \A f \in Epochs, d \in Cases : <<f, d>> # <<e, c>> => job'[f][d] = job[f][d]
BY TypeParts DEF Knows

LEMMA DoneTyped ==
    ASSUME TypeOK, NEW e \in Epochs, NEW c \in Cases, NEW k \in Epochs, Done(e, c, k)
    PROVE  /\ owed' \in [Epochs -> SUBSET Pairs]
           /\ owed'[e] = owed[e] \ {<<c, k>>}
           /\ \A f \in Epochs \ {e} : owed'[f] = owed[f]
BY TypeParts DEF Done

\* A transaction adopts the attempt, and stays that of its child.
LEMMA TxAdoptedTyped ==
    ASSUME TypeOK, NEW e \in Epochs, NEW c \in Cases, tx' = [tx EXCEPT ![e][c].st = "adopted"]
    PROVE  /\ tx' \in [Epochs -> [Cases -> Tx]]
           /\ tx'[e][c].st = "adopted" /\ tx'[e][c].kid = tx[e][c].kid
           /\ \A f \in Epochs, d \in Cases : <<f, d>> # <<e, c>> => tx'[f][d] = tx[f][d]
<1>1. tx \in [Epochs -> [Cases -> Tx]]
    BY TypeParts
<1>2. tx[e][c] \in Tx
    BY <1>1
<1>3. [tx[e][c] EXCEPT !.st = "adopted"] \in Tx
    BY <1>2 DEF Tx
<1> QED
    BY <1>1, <1>2, <1>3 DEF Tx

LEMMA NoTxTyped == NoTx \in Tx /\ NoTx.st = "none"
BY Bounds DEF NoTx, Tx

\* A transaction of a driver is dropped, or all of them.
LEMMA TxDropTyped ==
    ASSUME TypeOK, NEW e \in Epochs, NEW c \in Cases, tx' = [tx EXCEPT ![e][c] = NoTx]
    PROVE  /\ tx' \in [Epochs -> [Cases -> Tx]]
           /\ tx'[e][c].st = "none"
           /\ \A f \in Epochs, d \in Cases : <<f, d>> # <<e, c>> => tx'[f][d] = tx[f][d]
<1>1. tx \in [Epochs -> [Cases -> Tx]]
    BY TypeParts
<1>2. tx'[e][c] = NoTx
    BY <1>1
<1> QED
    BY <1>1, <1>2, NoTxTyped
LEMMA TxClearTyped ==
    ASSUME TypeOK, NEW e \in Epochs, tx' = [tx EXCEPT ![e] = [c \in Cases |-> NoTx]]
    PROVE  /\ tx' \in [Epochs -> [Cases -> Tx]]
           /\ \A c \in Cases : tx'[e][c].st = "none"
           /\ \A f \in Epochs \ {e} : tx'[f] = tx[f]
BY TypeParts, NoTxTyped

-----------------------------------------------------------------------------
(* Steps of one driver that leave the rows alone.                          *)

\* Only driver e moves.
Others(e) ==
    \A f \in Epochs \ {e} : drv'[f] = drv[f] /\ job'[f] = job[f] /\ owed'[f] = owed[f] /\ tx'[f] = tx[f]

\* What a step may do to the batch: it is open no longer, or as before, and a verdict of
\* success counts every receipt.
CardStep ==
    /\ card'.epoch = card.epoch
    /\ card'.status = "open" => card.status = "open"
    /\ card'.status = "succeeded" =>
          \/ card.status = "succeeded" /\ card'.summary = card.summary
          \/ \A c \in Cases : receipt[c] # None /\ card'.summary[c] = receipt[c]

\* The ledger's invariant over such a step.
LEMMA LedgerQuiet ==
    ASSUME LedgerInv, TypeOK', UNCHANGED <<child, attempt, receipt>>,
           \A f \in Epochs, d \in Cases : InTx(f, d)' => InTx(f, d) /\ tx'[f][d].kid = tx[f][d].kid,
           \A f \in Epochs, d \in Cases : Undone(f, d)' => Undone(f, d),
           \A f \in Epochs : drv'[f].pc = "settling" => drv[f].pc = "settling" \/ \A c \in Cases : receipt[c] # None,
           CardStep
    PROVE  LedgerInv'
<1>1. OneAnswer'
    BY DEF LedgerInv, OneAnswer
<1>2. TxSound' /\ OneTx'
    BY DEF LedgerInv, TxSound, OneTx
<1>3. Undispatched' /\ Counted'
    BY DEF LedgerInv, Undispatched, Counted
<1>4. SummaryStands'
    BY DEF LedgerInv, SummaryStands, CardStep
<1> QED
    BY <1>1, <1>2, <1>3, <1>4 DEF LedgerInv

\* What a step of one driver leaves true of the others: it begins a commit only under its
\* own epoch, adds the receipt of a commit that was under way, and closes the child of
\* another only if it has the batch, or the batch was stopped, or the child was in its commit.
LEMMA OthersKeep ==
    ASSUME LedgerInv, TakeoverInv, NEW e \in Epochs, Others(e), CardStep,
           \A d \in Cases : InTx(e, d)' => (InTx(e, d) /\ tx'[e][d].kid = tx[e][d].kid) \/ card.epoch = e,
           \A d \in Cases : receipt'[d] = receipt[d] \/ (InTx(e, d) /\ receipt'[d] = tx[e][d].kid),
           \A d \in Cases, f \in Epochs \ {e} : child[d][f] = "open" /\ child'[d][f] # "open" =>
              card.status # "open" \/ card.epoch # f \/ InTx(e, d)
    PROVE  \A f \in Epochs \ {e} : TakeoverAt(f)'
<1> SUFFICES ASSUME NEW f \in Epochs \ {e} PROVE TakeoverAt(f)'
    OBVIOUS
<1>1. TakeoverAt(f) /\ drv'[f] = drv[f] /\ job'[f] = job[f] /\ owed'[f] = owed[f] /\ tx'[f] = tx[f]
    BY DEF TakeoverInv, Others
<1>2. \A g \in Epochs, d \in Cases : InTx(g, d)' =>
         (InTx(g, d) /\ tx'[g][d].kid = tx[g][d].kid) \/ (g = e /\ card.epoch = e)
    BY DEF Others, InTx
<1>3. KnowledgeAt(f)'
    BY <1>1 DEF TakeoverAt, KnowledgeAt
<1>4. ListedAt(f)'
    BY <1>1, <1>2 DEF TakeoverAt, ListedAt, CardStep
<1>5. AloneAt(f)'
    BY <1>1, <1>2 DEF TakeoverAt, AloneAt, CardStep
<1>6. OwnedAt(f)'
    BY <1>1, <1>2 DEF TakeoverAt, OwnedAt, Its, CardStep
<1>7. Holds(f)' => Holds(f)
    BY DEF Holds, CardStep
<1>8. OpenAt(f)'
  <2> SUFFICES ASSUME Holds(f), NEW d \in Cases, job[f][d] \in {"running", "ran", "threw"}
               PROVE  child'[d][f] = "open"
      BY <1>1, <1>7 DEF OpenAt
  <2>1. drv[f].pc \in After
      BY <1>1 DEF TakeoverAt, KnowledgeAt
  <2>2. ~InTx(e, d)
      BY <1>1, <2>1 DEF TakeoverAt, OwnedAt, Its, Holds
  <2>3. child[d][f] = "open"
      BY <1>1 DEF TakeoverAt, OpenAt
  <2> QED
      BY <2>2, <2>3 DEF Holds
<1>9. GivenAt(f)'
    BY <1>1, <1>7 DEF TakeoverAt, GivenAt, CardStep
<1> QED
    BY <1>3, <1>4, <1>5, <1>6, <1>8, <1>9 DEF TakeoverAt

\* Both, for a step of driver e that leaves the rows alone.
LEMMA DriverStep ==
    ASSUME LedgerInv, NEW e \in Epochs, TypeOK', UNCHANGED <<child, attempt, receipt>>, Others(e), CardStep,
           \A d \in Cases : InTx(e, d)' => InTx(e, d) /\ tx'[e][d].kid = tx[e][d].kid,
           \A d \in Cases : Undone(e, d)' => Undone(e, d),
           drv'[e].pc = "settling" => drv[e].pc = "settling" \/ \A c \in Cases : receipt[c] # None,
           NoLoss /\ TakeoverInv => TakeoverAt(e)'
    PROVE  LedgerInv' /\ (NoLoss /\ TakeoverInv => TakeoverInv')
<1>1. \A f \in Epochs, d \in Cases : InTx(f, d)' => InTx(f, d) /\ tx'[f][d].kid = tx[f][d].kid
    BY DEF Others, InTx
<1>2. \A f \in Epochs, d \in Cases : Undone(f, d)' => Undone(f, d)
    BY DEF Others, Undone
<1>3. LedgerInv'
    BY <1>1, <1>2, LedgerQuiet DEF Others
<1>4. NoLoss /\ TakeoverInv => TakeoverInv'
    BY OthersKeep DEF TakeoverInv
<1> QED
    BY <1>3, <1>4

LEMMA CardStill == card' = card => CardStep
BY DEF CardStep

\* The batch is stopped or failed, or stays as it is.
LEMMA StatusTyped ==
    ASSUME TypeOK, NEW st \in {"failed", "cancelled", "superseded"}, card' = [card EXCEPT !.status = st]
    PROVE  card' \in Card /\ CardStep /\ card'.status = st /\ card'.epoch = card.epoch
<1>1. card \in Card
    BY TypeParts
<1> QED
    BY <1>1 DEF Card, CardStep, Aborts

\* A driver that ends has no claim left to keep.
LEMMA EndStep ==
    ASSUME LedgerInv, NEW e \in Epochs, card' \in Card, CardStep, Ends(e, "ended"),
           UNCHANGED <<child, attempt, receipt, tx>>,
           drv[e].pc # "seeding" \/ \A c \in Cases : tx[e][c].st = "none",
           NoLoss /\ TakeoverInv => ~Holds(e)'
    PROVE  LedgerInv' /\ (NoLoss /\ TakeoverInv => TakeoverInv')
<1>1. TypeOK
    BY DEF LedgerInv
<1>2. /\ drv' \in [Epochs -> Driver] /\ job' \in [Epochs -> [Cases -> Knowing]] /\ owed' \in [Epochs -> SUBSET Pairs]
      /\ drv'[e].pc = "ended" /\ \A c \in Cases : job'[e][c] = "todo"
      /\ \A f \in Epochs \ {e} : drv'[f] = drv[f] /\ job'[f] = job[f] /\ owed'[f] = owed[f]
    BY <1>1, EndsTyped
<1>3. TypeOK'
    BY <1>1, <1>2, TypeParts, TypePartsNext
<1>4. Others(e)
    BY <1>2 DEF Others
<1>5. ASSUME NoLoss, TakeoverInv PROVE TakeoverAt(e)'
  <2>1. TakeoverAt(e)
      BY <1>5 DEF TakeoverInv
  <2>2. \A c \in Cases : tx[e][c].st # "unknown"
      BY <1>5, <2>1 DEF TakeoverAt, KnowledgeAt
  <2> QED
      BY <1>2, <1>5, <2>2
      DEF TakeoverAt, KnowledgeAt, ListedAt, AloneAt, OwnedAt, OpenAt, GivenAt, After
<1>6. \A d \in Cases : (InTx(e, d)' => InTx(e, d) /\ tx'[e][d].kid = tx[e][d].kid) /\ ~Undone(e, d)'
    BY <1>2 DEF InTx, Undone, Before
<1> QED
    BY <1>2, <1>3, <1>4, <1>5, <1>6, DriverStep

\* A driver that goes on to another place, where it claims nothing it did not have.
LEMMA GoStep ==
    ASSUME LedgerInv, NEW e \in Epochs,
           NEW pc, Moves(e, pc), card' \in Card, CardStep,
           UNCHANGED <<child, attempt, receipt, job, tx>>, owed' \in [Epochs -> SUBSET Pairs],
           \A f \in Epochs \ {e} : owed'[f] = owed[f],
           \A d \in Cases : Undone(e, d)' => Undone(e, d),
           pc = "settling" => \A c \in Cases : receipt[c] # None,
           NoLoss /\ TakeoverInv => TakeoverAt(e)'
    PROVE  LedgerInv' /\ (NoLoss /\ TakeoverInv => TakeoverInv')
<1>1. TypeOK
    BY DEF LedgerInv
<1>2. drv' \in [Epochs -> Driver] /\ drv'[e].pc = pc /\ \A f \in Epochs \ {e} : drv'[f] = drv[f]
    BY DEF Moves
<1>3. TypeOK'
    BY <1>1, <1>2, TypeParts, TypePartsNext
<1>4. Others(e)
    BY <1>2 DEF Others
<1>5. \A d \in Cases : InTx(e, d)' => InTx(e, d) /\ tx'[e][d].kid = tx[e][d].kid
    BY DEF InTx
<1> QED
    BY <1>2, <1>3, <1>4, <1>5, DriverStep

-----------------------------------------------------------------------------
(* Recovery, action by action.                                             *)

LEMMA ListStep ==
    ASSUME LedgerInv, NEW e \in Epochs, List(e)
    PROVE  LedgerInv' /\ (NoLoss /\ TakeoverInv => TakeoverInv')
<1>1. TypeOK /\ drv[e].pc \in {"claimed", "owed"}
    BY DEF LedgerInv, List
<1>2. drv' \in [Epochs -> Driver] /\ drv'[e].pc = "seeding" /\ drv'[e].aborted = drv[e].aborted
      /\ \A f \in Epochs \ {e} : drv'[f] = drv[f]
    BY <1>1, GoesTyped DEF Moves, List
<1>3. /\ owed' \in [Epochs -> SUBSET Pairs] /\ owed'[e] = OpenChildren
      /\ \A f \in Epochs \ {e} : owed'[f] = owed[f]
    BY <1>1, TypeParts DEF List, OpenChildren
<1>4. /\ job' \in [Epochs -> [Cases -> Knowing]]
      /\ \A c \in Cases : job'[e][c] = IF receipt[c] # None THEN "seeded" ELSE job[e][c]
      /\ \A f \in Epochs \ {e} : job'[f] = job[f]
    BY <1>1, TypeParts DEF List, Knowing
<1>5. UNCHANGED <<card, child, attempt, receipt, tx>>
    BY DEF List, Rows
<1>6. TypeOK' /\ Others(e) /\ CardStep
    BY <1>1, <1>2, <1>3, <1>4, <1>5, TypeParts, TypePartsNext, CardStill DEF Others
<1>7. \A d \in Cases : (InTx(e, d)' => InTx(e, d) /\ tx'[e][d].kid = tx[e][d].kid) /\ Undone(e, d)
    BY <1>1, <1>5 DEF InTx, Undone, Before
<1>8. ASSUME NoLoss, TakeoverInv PROVE TakeoverAt(e)'
  <2>1. TakeoverAt(e)
      BY <1>8 DEF TakeoverInv
  <2>2. \A c \in Cases : job'[e][c] \notin {"running", "ran", "threw", "lost"} /\ tx[e][c].st # "unknown"
      BY <1>1, <1>4, <2>1 DEF TakeoverAt, KnowledgeAt, After
  <2>3. \A c \in Cases, f \in Epochs : InTx(f, c) => <<c, tx[f][c].kid>> \in OpenChildren
      BY <1>1, TypeParts DEF LedgerInv, TxSound, OpenChildren, Pairs, Tx
  <2>4. ListedAt(e)'
      BY <1>3, <1>4, <1>5, <2>3 DEF ListedAt, InTx
  <2>5. KnowledgeAt(e)' /\ AloneAt(e)' /\ OwnedAt(e)' /\ OpenAt(e)' /\ GivenAt(e)'
      BY <1>2, <1>5, <2>2 DEF KnowledgeAt, AloneAt, OwnedAt, OpenAt, GivenAt, After
  <2> QED
      BY <2>4, <2>5 DEF TakeoverAt
<1> QED
    BY <1>2, <1>5, <1>6, <1>7, <1>8, DriverStep

LEMMA PassOverStep ==
    ASSUME LedgerInv, NEW e \in Epochs, NEW c \in Cases, NEW k \in Epochs, PassOver(e, c, k)
    PROVE  LedgerInv' /\ (NoLoss /\ TakeoverInv => TakeoverInv')
<1>1. TypeOK /\ ~NoLoss
    BY DEF LedgerInv, PassOver, NoLoss
<1>2. owed' \in [Epochs -> SUBSET Pairs] /\ \A f \in Epochs \ {e} : owed'[f] = owed[f]
    BY <1>1, DoneTyped DEF PassOver
<1>3. UNCHANGED <<card, child, attempt, receipt, drv, job, tx>>
    BY DEF PassOver, Rows
<1>4. TypeOK' /\ Others(e) /\ CardStep
    BY <1>1, <1>2, <1>3, TypeParts, TypePartsNext, CardStill DEF Others
<1>5. \A d \in Cases : (InTx(e, d)' => InTx(e, d) /\ tx'[e][d].kid = tx[e][d].kid) /\ (Undone(e, d)' => Undone(e, d))
    BY <1>3 DEF InTx, Undone
<1> QED
    BY <1>1, <1>3, <1>4, <1>5, DriverStep

LEMMA ReadbackStep ==
    ASSUME LedgerInv, NEW e \in Epochs, NEW c \in Cases, Readback(e, c)
    PROVE  LedgerInv' /\ (NoLoss /\ TakeoverInv => TakeoverInv')
<1> DEFINE k == tx[e][c].kid
<1>1. TypeOK /\ tx[e][c].st = "unknown" /\ k \in Epochs
    BY TypeParts DEF LedgerInv, Readback, Tx
<1>2. /\ owed' \in [Epochs -> SUBSET Pairs] /\ owed'[e] = owed[e] \ {<<c, k>>}
      /\ \A f \in Epochs \ {e} : owed'[f] = owed[f]
    BY <1>1, DoneTyped DEF Readback
<1>3. /\ tx' \in [Epochs -> [Cases -> Tx]] /\ tx'[e][c].st = "none"
      /\ \A f \in Epochs, d \in Cases : <<f, d>> # <<e, c>> => tx'[f][d] = tx[f][d]
  <2>1. tx' = [tx EXCEPT ![e][c] = NoTx]
      BY DEF Readback
  <2> QED
      BY <1>1, <2>1, TxDropTyped
<1>4. /\ job' \in [Epochs -> [Cases -> Knowing]]
      /\ job'[e][c] = "seeded" \/ (job'[e][c] = job[e][c] /\ receipt[c] # k)
      /\ \A f \in Epochs, d \in Cases : <<f, d>> # <<e, c>> => job'[f][d] = job[f][d]
  <2>1. CASE receipt[c] = k
      BY <1>1, <2>1, KnowsTyped DEF Readback, Knowing
  <2>2. CASE receipt[c] # k
      BY <1>1, <2>2, TypeParts DEF Readback
  <2> QED
      BY <2>1, <2>2
<1>5. UNCHANGED <<card, child, attempt, receipt, drv>>
    BY DEF Readback, Rows
<1> HIDE DEF k
<1>6. TypeOK'
    BY <1>1, <1>2, <1>3, <1>4, <1>5, TypeParts, TypePartsNext
<1>7. Others(e) /\ CardStep
  <2>1. \A f \in Epochs \ {e} : tx'[f] = tx[f] /\ job'[f] = job[f]
      BY <1>1, <1>3, <1>4, TypeParts
  <2> QED
      BY <1>2, <1>5, <2>1, CardStill DEF Others
<1>8. \A d \in Cases : (InTx(e, d)' => InTx(e, d) /\ tx'[e][d].kid = tx[e][d].kid) /\ (Undone(e, d)' => Undone(e, d))
    BY <1>3, <1>4, <1>5 DEF InTx, Undone
<1>9. ASSUME NoLoss, TakeoverInv PROVE TakeoverAt(e)'
  <2>1. TakeoverAt(e) /\ drv[e].pc = "seeding"
      BY <1>1, <1>9 DEF TakeoverInv, TakeoverAt, KnowledgeAt
  <2>2. \A f \in Epochs, d \in Cases : InTx(f, d)' => InTx(f, d) /\ tx'[f][d].kid = tx[f][d].kid /\ <<f, d>> # <<e, c>>
      BY <1>3 DEF InTx
  <2>3. card.epoch = e => \A f \in Epochs : ~InTx(f, c)
      BY <1>1, <2>1 DEF TakeoverAt, AloneAt, InTx
  <2>4. ListedAt(e)'
    <3> SUFFICES ASSUME card.epoch = e, NEW d \in Cases
                 PROVE  /\ \A f \in Epochs : InTx(f, d)' => <<d, tx'[f][d].kid>> \in owed'[e]
                        /\ receipt[d] # None => job'[e][d] = "seeded" \/ <<d, receipt[d]>> \in owed'[e]
        BY <1>5 DEF ListedAt
    <3>1. CASE d = c
        BY <1>2, <1>4, <2>1, <2>2, <2>3, <3>1 DEF TakeoverAt, ListedAt
    <3>2. CASE d # c
        BY <1>2, <1>4, <2>1, <2>2, <3>2 DEF TakeoverAt, ListedAt
    <3> QED
        BY <3>1, <3>2
  <2>5. KnowledgeAt(e)' /\ OwnedAt(e)'
      BY <1>3, <1>4, <1>5, <2>1, <2>2 DEF TakeoverAt, KnowledgeAt, OwnedAt, After
  <2>7. AloneAt(e)'
    <3>1. \A d \in Cases : tx'[e][d].st = "unknown" => d # c /\ tx[e][d].st = "unknown"
        BY <1>3
    <3> QED
        BY <1>5, <2>1, <2>2, <3>1 DEF TakeoverAt, AloneAt
  <2>6. OpenAt(e)' /\ GivenAt(e)'
      BY <1>4, <1>5, <2>1 DEF TakeoverAt, KnowledgeAt, OpenAt, GivenAt, Holds, After
  <2> QED
      BY <2>4, <2>5, <2>6, <2>7 DEF TakeoverAt
<1> QED
    BY <1>5, <1>6, <1>7, <1>8, <1>9, DriverStep

LEMMA DeferStep ==
    ASSUME LedgerInv, NEW e \in Epochs, Defer(e)
    PROVE  LedgerInv' /\ (NoLoss /\ TakeoverInv => TakeoverInv')
<1>1. TypeOK /\ drv[e].pc \in {"claimed", "seeding"} /\ UNCHANGED <<card, child, attempt, receipt, job, owed>>
    BY DEF LedgerInv, Defer, Rows
<1>2. /\ drv' \in [Epochs -> Driver] /\ drv'[e].pc = "owed" /\ drv'[e].aborted = drv[e].aborted
      /\ \A f \in Epochs \ {e} : drv'[f] = drv[f]
    BY <1>1, GoesTyped DEF Moves, Defer
<1>3. /\ tx' \in [Epochs -> [Cases -> Tx]]
      /\ \A c \in Cases : tx'[e][c].st = "none"
      /\ \A f \in Epochs \ {e} : tx'[f] = tx[f]
    BY <1>1, TxClearTyped DEF Defer, Drop
<1>4. TypeOK' /\ Others(e) /\ CardStep
    BY <1>1, <1>2, <1>3, TypeParts, TypePartsNext, CardStill DEF Others
<1>5. \A d \in Cases : ~InTx(e, d)' /\ Undone(e, d)
    BY <1>1, <1>3 DEF InTx, Undone, Before
<1>6. ASSUME NoLoss, TakeoverInv PROVE TakeoverAt(e)'
  <2>1. \A c \in Cases : job[e][c] \notin {"running", "ran", "threw", "lost"}
      BY <1>1, <1>6 DEF TakeoverInv, TakeoverAt, KnowledgeAt, After
  <2> QED
      BY <1>1, <1>2, <1>3, <2>1
      DEF TakeoverAt, KnowledgeAt, ListedAt, AloneAt, OwnedAt, OpenAt, GivenAt, After
<1> QED
    BY <1>1, <1>2, <1>4, <1>5, <1>6, DriverStep

\* A driver that leaves the batch, dropping what it had not begun to commit.
LEMMA LeaveStep ==
    ASSUME LedgerInv, NEW e \in Epochs, Ends(e, "ended"), Drop(e), UNCHANGED <<card, child, attempt, receipt>>,
           NoLoss /\ TakeoverInv => ~Holds(e)
    PROVE  LedgerInv' /\ (NoLoss /\ TakeoverInv => TakeoverInv')
<1>1. TypeOK
    BY DEF LedgerInv
<1>2. /\ drv' \in [Epochs -> Driver] /\ job' \in [Epochs -> [Cases -> Knowing]] /\ owed' \in [Epochs -> SUBSET Pairs]
      /\ drv'[e].pc = "ended" /\ \A c \in Cases : job'[e][c] = "todo"
      /\ \A f \in Epochs \ {e} : drv'[f] = drv[f] /\ job'[f] = job[f] /\ owed'[f] = owed[f]
    BY <1>1, EndsTyped
<1>3. /\ tx' \in [Epochs -> [Cases -> Tx]]
      /\ \A c \in Cases : tx'[e][c].st = "none"
      /\ \A f \in Epochs \ {e} : tx'[f] = tx[f]
    BY <1>1, TxClearTyped DEF Drop
<1>4. TypeOK' /\ Others(e) /\ CardStep
    BY <1>1, <1>2, <1>3, TypeParts, TypePartsNext, CardStill DEF Others
<1>5. \A d \in Cases : ~InTx(e, d)' /\ ~Undone(e, d)'
    BY <1>2, <1>3 DEF InTx, Undone, Before
<1>6. ASSUME NoLoss, TakeoverInv PROVE TakeoverAt(e)'
    BY <1>2, <1>3, <1>6
    DEF TakeoverAt, KnowledgeAt, ListedAt, AloneAt, OwnedAt, OpenAt, GivenAt, After, Holds
<1> QED
    BY <1>2, <1>4, <1>5, <1>6, DriverStep

LEMMA TombstoneStep ==
    ASSUME LedgerInv, NEW e \in Epochs, Tombstone(e)
    PROVE  LedgerInv' /\ (NoLoss /\ TakeoverInv => TakeoverInv')
<1>1. TypeOK /\ drv[e].pc \in {"claimed", "seeding"} /\ UNCHANGED <<child, attempt, receipt>> /\ Drop(e)
    BY DEF LedgerInv, Tombstone, Rows
<1>2. CASE Holds(e)
  <2>1. /\ card' = [card EXCEPT !.status = "failed"]
        /\ owed' = [owed EXCEPT ![e] = OpenChildren]
        /\ Goes(e, "burying") /\ UNCHANGED job
      BY <1>2 DEF Tombstone
  <2>2. card' \in Card /\ CardStep /\ card'.status = "failed"
      BY <1>1, <2>1, StatusTyped
  <2>3. owed' \in [Epochs -> SUBSET Pairs] /\ \A f \in Epochs \ {e} : owed'[f] = owed[f]
      BY <1>1, <2>1, TypeParts DEF OpenChildren
  <2>4. /\ drv' \in [Epochs -> Driver] /\ drv'[e].pc = "burying" /\ drv'[e].aborted = drv[e].aborted
        /\ \A f \in Epochs \ {e} : drv'[f] = drv[f]
      BY <1>1, <2>1, GoesTyped DEF Moves
  <2>5. /\ tx' \in [Epochs -> [Cases -> Tx]]
        /\ \A c \in Cases : tx'[e][c].st = "none"
        /\ \A f \in Epochs \ {e} : tx'[f] = tx[f]
      BY <1>1, TxClearTyped DEF Drop
  <2>6. TypeOK' /\ Others(e)
      BY <1>1, <2>1, <2>2, <2>3, <2>4, <2>5, TypeParts, TypePartsNext DEF Others
  <2>7. \A d \in Cases : ~InTx(e, d)' /\ Undone(e, d)
      BY <1>1, <2>5 DEF InTx, Undone, Before
  <2>8. ASSUME NoLoss, TakeoverInv PROVE TakeoverAt(e)'
    <3>1. \A c \in Cases : job[e][c] \notin {"running", "ran", "threw", "lost"}
        BY <1>1, <2>8 DEF TakeoverInv, TakeoverAt, KnowledgeAt, After
    <3> QED
        BY <1>1, <2>1, <2>2, <2>4, <2>5, <3>1
        DEF TakeoverAt, KnowledgeAt, ListedAt, AloneAt, OwnedAt, OpenAt, GivenAt, After
  <2> QED
      BY <1>1, <2>2, <2>4, <2>6, <2>7, <2>8, DriverStep
<1>3. CASE ~Holds(e)
    BY <1>1, <1>3, LeaveStep DEF Tombstone
<1> QED
    BY <1>2, <1>3

LEMMA DischargeStep ==
    ASSUME LedgerInv, NEW e \in Epochs, Discharge(e)
    PROVE  LedgerInv' /\ (NoLoss /\ TakeoverInv => TakeoverInv')
<1>1. NoLoss => ~Holds(e)
    BY DEF Discharge, NoLoss
<1> QED
    BY <1>1, LeaveStep DEF Discharge, Rows

LEMMA BuriedStep ==
    ASSUME LedgerInv, NEW e \in Epochs, Buried(e)
    PROVE  LedgerInv' /\ (NoLoss /\ TakeoverInv => TakeoverInv')
<1>1. TypeOK /\ drv[e].pc = "burying" /\ Ends(e, "ended") /\ UNCHANGED <<card, child, attempt, receipt, tx>>
    BY DEF LedgerInv, Buried, Rows
<1>2. card' \in Card /\ CardStep
    BY <1>1, TypeParts, CardStill
<1>3. TakeoverInv => ~Holds(e)'
    BY <1>1 DEF TakeoverInv, TakeoverAt, GivenAt, Holds
<1> QED
    BY <1>1, <1>2, <1>3, EndStep

-----------------------------------------------------------------------------
(* The driver's own steps.                                                 *)

LEMMA StartStep ==
    ASSUME LedgerInv, NEW e \in Epochs, Start(e)
    PROVE  LedgerInv' /\ (NoLoss /\ TakeoverInv => TakeoverInv')
<1>1. /\ TypeOK /\ drv[e].pc = "seeding" /\ owed[e] = {}
      /\ \A c \in Cases : tx[e][c].st = "none"
      /\ UNCHANGED <<card, child, attempt, receipt, tx>>
    BY DEF LedgerInv, Start, Rows
<1>2. card' \in Card /\ CardStep
    BY <1>1, TypeParts, CardStill
<1>3. CASE Holds(e)
  <2>1. drv' = [drv EXCEPT ![e].pc = "driving", ![e].owes = FALSE] /\ UNCHANGED <<job, owed>>
      BY <1>3 DEF Start
  <2>2. Moves(e, "driving") /\ drv'[e].pc = "driving" /\ drv'[e].aborted = drv[e].aborted
      BY <1>1, <2>1, GoesTyped DEF Moves
  <2>3. owed' \in [Epochs -> SUBSET Pairs] /\ \A d \in Cases : Undone(e, d)
      BY <1>1, <2>1, TypeParts DEF Undone, Before
  <2>4. ASSUME NoLoss, TakeoverInv PROVE TakeoverAt(e)'
    <3>1. TakeoverAt(e) /\ \A c \in Cases : job[e][c] \notin {"running", "ran", "threw", "lost"}
        BY <1>1, <2>4 DEF TakeoverInv, TakeoverAt, KnowledgeAt, After
    <3>2. OwnedAt(e)'
        BY <1>1, <2>1, <3>1 DEF TakeoverAt, ListedAt, OwnedAt, Its, InTx
    <3>3. KnowledgeAt(e)' /\ ListedAt(e)' /\ AloneAt(e)'
        BY <1>1, <2>1, <2>2, <3>1 DEF KnowledgeAt, ListedAt, AloneAt, After
    <3>4. OpenAt(e)' /\ GivenAt(e)'
        BY <2>1, <2>2, <3>1 DEF OpenAt, GivenAt
    <3> QED
        BY <3>2, <3>3, <3>4 DEF TakeoverAt
  <2> QED
      BY <1>1, <1>2, <2>1, <2>2, <2>3, <2>4, GoStep
<1>4. CASE ~Holds(e)
  <2>1. Ends(e, "ended") /\ ~Holds(e)'
      BY <1>1, <1>4 DEF Start, Holds
  <2> QED
      BY <1>1, <1>2, <2>1, EndStep
<1> QED
    BY <1>3, <1>4

LEMMA SuiteReturnsStep ==
    ASSUME LedgerInv, NEW e \in Epochs, SuiteReturns(e)
    PROVE  LedgerInv' /\ (NoLoss /\ TakeoverInv => TakeoverInv')
<1> DEFINE pc == IF drv[e].aborted THEN "reclaiming" ELSE "joining"
<1>1. /\ TypeOK /\ drv[e].pc = "driving" /\ Goes(e, pc)
      /\ \A c \in Cases : job[e][c] # "running"
      /\ UNCHANGED <<card, child, attempt, receipt, job, owed, tx>>
    BY DEF LedgerInv, SuiteReturns, Rows
<1>2. card' \in Card /\ CardStep /\ owed' \in [Epochs -> SUBSET Pairs]
    BY <1>1, TypeParts, CardStill
<1>3. pc \in {"reclaiming", "joining"} /\ (pc = "joining" => ~drv[e].aborted)
    OBVIOUS
<1> HIDE DEF pc
<1>7. Moves(e, pc)
    BY <1>1, <1>3, GoesTyped
<1>4. Moves(e, pc) /\ drv'[e].pc = pc /\ drv'[e].aborted = drv[e].aborted
    BY <1>7 DEF Moves
<1>5. \A d \in Cases : ~Undone(e, d)'
    BY <1>3, <1>4 DEF Undone, Before
<1>6. ASSUME NoLoss, TakeoverInv PROVE TakeoverAt(e)'
  <2>1. TakeoverAt(e)
      BY <1>6 DEF TakeoverInv
  <2>2. KnowledgeAt(e)' /\ ListedAt(e)' /\ AloneAt(e)'
      BY <1>1, <1>3, <1>4, <2>1 DEF TakeoverAt, KnowledgeAt, ListedAt, AloneAt, After
  <2>3. OwnedAt(e)'
      BY <1>1, <1>3, <1>4, <2>1 DEF TakeoverAt, OwnedAt, After, Its, InTx
  <2>4. OpenAt(e)' /\ GivenAt(e)'
      BY <1>1, <1>3, <1>4, <2>1 DEF TakeoverAt, OpenAt, GivenAt, Holds
  <2> QED
      BY <2>2, <2>3, <2>4 DEF TakeoverAt
<1> QED
    BY <1>1, <1>2, <1>3, <1>4, <1>5, <1>6, GoStep

LEMMA JoinStep ==
    ASSUME LedgerInv, NEW e \in Epochs, Join(e)
    PROVE  LedgerInv' /\ (NoLoss /\ TakeoverInv => TakeoverInv')
<1>1. TypeOK /\ drv[e].pc = "joining" /\ UNCHANGED <<card, child, attempt, receipt, tx>>
    BY DEF LedgerInv, Join, Rows
<1>2. card' \in Card /\ CardStep
    BY <1>1, TypeParts, CardStill
<1>3. CASE \E c \in Cases : job[e][c] = "lost"
  <2>1. Ends(e, "ended")
      BY <1>3 DEF Join
  <2>2. TakeoverInv => ~Holds(e)'
      BY <1>1, <1>3 DEF TakeoverInv, TakeoverAt, GivenAt, Holds
  <2> QED
      BY <1>1, <1>2, <2>1, <2>2, EndStep
<1>4. CASE ~ \E c \in Cases : job[e][c] = "lost"
  <2> DEFINE pc == IF Whole(e) THEN "settling" ELSE "failing"
  <2>1. Goes(e, pc) /\ UNCHANGED <<job, owed>>
      BY <1>4 DEF Join
  <2>2. /\ pc \in {"settling", "failing"}
        /\ pc = "settling" => \A c \in Cases : receipt[c] # None
      BY DEF Whole
  <2> HIDE DEF pc
  <2>6. Moves(e, pc)
      BY <1>1, <2>1, <2>2, GoesTyped
  <2>3. Moves(e, pc) /\ drv'[e].pc = pc /\ drv'[e].aborted = drv[e].aborted
      BY <2>6 DEF Moves
  <2>4. owed' \in [Epochs -> SUBSET Pairs] /\ \A d \in Cases : ~Undone(e, d)'
      BY <1>1, <2>1, <2>2, <2>3, TypeParts DEF Undone, Before
  <2>5. ASSUME NoLoss, TakeoverInv PROVE TakeoverAt(e)'
    <3>1. TakeoverAt(e)
        BY <2>5 DEF TakeoverInv
    <3>2. KnowledgeAt(e)' /\ ListedAt(e)' /\ AloneAt(e)'
        BY <1>1, <2>1, <2>2, <2>3, <3>1 DEF TakeoverAt, KnowledgeAt, ListedAt, AloneAt, After
    <3>3. OwnedAt(e)'
        BY <1>1, <2>1, <2>2, <2>3, <3>1 DEF TakeoverAt, OwnedAt, After, Its, InTx
    <3>4. OpenAt(e)' /\ GivenAt(e)'
        BY <1>1, <2>1, <2>2, <2>3, <3>1 DEF TakeoverAt, OpenAt, GivenAt, Holds
    <3> QED
        BY <3>2, <3>3, <3>4 DEF TakeoverAt
  <2> QED
      BY <1>1, <1>2, <2>1, <2>2, <2>3, <2>4, <2>5, GoStep
<1> QED
    BY <1>3, <1>4

\* A driver that has joined its cases goes on towards the end of the batch.
LEMMA LaterStep ==
    ASSUME NEW e \in Epochs, TakeoverAt(e), CardStep, UNCHANGED <<child, attempt, receipt, job, owed, tx>>,
           drv[e].pc \in After \ {"driving"}, drv'[e].pc \in After \ {"driving", "joining"},
           drv'[e].aborted = drv[e].aborted
    PROVE  TakeoverAt(e)'
<1>1. KnowledgeAt(e)' /\ ListedAt(e)' /\ AloneAt(e)'
    BY DEF TakeoverAt, KnowledgeAt, ListedAt, AloneAt, After, CardStep
<1>2. OwnedAt(e)'
    BY DEF TakeoverAt, OwnedAt, Its, InTx, CardStep
<1>3. OpenAt(e)' /\ GivenAt(e)'
    BY DEF TakeoverAt, OpenAt, GivenAt, Holds, CardStep, After
<1> QED
    BY <1>1, <1>2, <1>3 DEF TakeoverAt

\* A driver that attaches what it has to a stopped batch, having read its status.
LEMMA AttachingStep ==
    ASSUME LedgerInv, NEW e \in Epochs, NEW saw \in {"open"} \cup Aborts, NEW pc \in {"attaching", "closing"},
           drv' = [drv EXCEPT ![e].pc = pc, ![e].saw = saw],
           drv[e].pc \in {"settling", "failing", "reclaiming"},
           UNCHANGED <<card, child, attempt, receipt, job, owed, tx>>
    PROVE  LedgerInv' /\ (NoLoss /\ TakeoverInv => TakeoverInv')
<1>1. TypeOK
    BY DEF LedgerInv
<1>2. /\ Moves(e, pc) /\ card' \in Card /\ CardStep /\ owed' \in [Epochs -> SUBSET Pairs]
    BY <1>1, GoesTyped, TypeParts, CardStill
<1>3. drv'[e].pc = pc /\ drv'[e].aborted = drv[e].aborted
    BY <1>2 DEF Moves
<1>4. \A d \in Cases : ~Undone(e, d)'
    BY <1>3 DEF Undone, Before
<1>5. ASSUME NoLoss, TakeoverInv PROVE TakeoverAt(e)'
  <2>1. TakeoverAt(e)
      BY <1>5 DEF TakeoverInv
  <2> QED
      BY <1>2, <1>3, <2>1, LaterStep DEF After
<1> QED
    BY <1>2, <1>4, <1>5, GoStep

\* The terminal write of a driver, and that of one that was aborted.
LEMMA VerdictTyped ==
    ASSUME LedgerInv, NEW e \in Epochs, drv[e].pc \in {"settling", "failing"}, card' = Verdict(e)
    PROVE  card' \in Card /\ CardStep /\ ~Holds(e)'
<1>1. card \in Card /\ receipt \in [Cases -> Epochs \cup {None}] /\ TypeOK
    BY TypeParts DEF LedgerInv
<1>2. CASE ~Holds(e)
    BY <1>1, <1>2, CardStill DEF Verdict, Holds
<1>3. CASE Holds(e) /\ drv[e].pc = "failing"
  <2>1. card' = [card EXCEPT !.status = "failed"]
      BY <1>3 DEF Verdict
  <2> QED
      BY <1>1, <2>1, StatusTyped DEF Holds
<1>4. CASE Holds(e) /\ drv[e].pc = "settling"
  <2>1. card' = [card EXCEPT !.status = "succeeded", !.summary = receipt]
      BY <1>4 DEF Verdict
  <2>2. \A c \in Cases : receipt[c] # None
      BY <1>4 DEF LedgerInv, Counted
  <2>3. card' \in Card /\ card'.status = "succeeded" /\ card'.epoch = card.epoch /\ card'.summary = receipt
      BY <1>1, <2>1 DEF Card
  <2> QED
      BY <2>2, <2>3 DEF CardStep, Holds
<1> QED
    BY <1>2, <1>3, <1>4

LEMMA StoppedTyped ==
    ASSUME LedgerInv, NEW e \in Epochs, card' = Stopped(e)
    PROVE  card' \in Card /\ CardStep /\ ~Holds(e)'
<1>1. TypeOK
    BY DEF LedgerInv
<1>2. CASE Attachable(e)
  <2> DEFINE st == IF drv[e].saw = "cancelled" THEN "cancelled" ELSE "superseded"
  <2>1. card' = [card EXCEPT !.status = st]
      BY <1>2 DEF Stopped
  <2>2. st \in {"failed", "cancelled", "superseded"} /\ st # "open"
      OBVIOUS
  <2> HIDE DEF st
  <2> QED
      BY <1>1, <2>1, <2>2, StatusTyped DEF Holds
<1>3. CASE ~Attachable(e)
  <2>1. card' = card
      BY <1>3 DEF Stopped
  <2> QED
      BY <1>1, <1>3, <2>1, TypeParts, CardStill DEF Attachable, Holds
<1> QED
    BY <1>2, <1>3

LEMMA SettleBatchStep ==
    ASSUME LedgerInv, NEW e \in Epochs, SettleBatch(e)
    PROVE  LedgerInv' /\ (NoLoss /\ TakeoverInv => TakeoverInv')
<1>1. TypeOK /\ drv[e].pc \in {"settling", "failing"} /\ UNCHANGED <<child, attempt, receipt, tx>>
    BY DEF LedgerInv, SettleBatch, Rows
<1>2. CASE drv[e].aborted
  <2>1. UNCHANGED <<card, job, owed>>
      BY <1>2 DEF SettleBatch
  <2> DEFINE pc == IF drv[e].pc = "settling" THEN "attaching" ELSE "closing"
  <2>2. PICK saw \in {"open"} \cup Aborts : drv' = [drv EXCEPT ![e].pc = pc, ![e].saw = saw]
      BY <1>2 DEF SettleBatch
  <2>3. pc \in {"attaching", "closing"}
      OBVIOUS
  <2> HIDE DEF pc
  <2> QED
      BY <1>1, <2>1, <2>2, <2>3, AttachingStep
<1>3. CASE ~drv[e].aborted
  <2>1. Ends(e, "ended") /\ card' = Verdict(e)
      BY <1>3 DEF SettleBatch
  <2>2. card' \in Card /\ CardStep /\ ~Holds(e)'
      BY <1>1, <2>1, VerdictTyped
  <2> QED
      BY <1>1, <2>1, <2>2, EndStep
<1> QED
    BY <1>2, <1>3

LEMMA SettleThrowsStep ==
    ASSUME LedgerInv, NEW e \in Epochs, SettleThrows(e)
    PROVE  LedgerInv' /\ (NoLoss /\ TakeoverInv => TakeoverInv')
<1>1. /\ TypeOK /\ UNCHANGED <<child, attempt, receipt, job, owed, tx>> /\ Goes(e, "failing")
      /\ drv[e].pc \in {"joining", "reclaiming", "settling", "attaching"}
      /\ drv[e].pc = "joining" => \A c \in Cases : job[e][c] # "lost"
    BY DEF LedgerInv, SettleThrows, Rows
<1>2. Moves(e, "failing") /\ owed' \in [Epochs -> SUBSET Pairs]
    BY <1>1, GoesTyped, TypeParts
<1>3. drv'[e].pc = "failing" /\ drv'[e].aborted = drv[e].aborted
    BY <1>2 DEF Moves
<1>4. card' \in Card /\ CardStep /\ (card' = card \/ ~Holds(e)')
  <2>1. CASE card' = card
      BY <1>1, <2>1, TypeParts, CardStill
  <2>2. CASE drv[e].pc = "settling" /\ card' = Verdict(e)
      BY <2>2, VerdictTyped
  <2>3. CASE drv[e].pc = "attaching" /\ card' = Stopped(e)
      BY <2>3, StoppedTyped
  <2> QED
      BY <2>1, <2>2, <2>3 DEF SettleThrows
<1>5. \A d \in Cases : ~Undone(e, d)'
    BY <1>3 DEF Undone, Before
<1>6. ASSUME NoLoss, TakeoverInv PROVE TakeoverAt(e)'
  <2>1. TakeoverAt(e)
      BY <1>6 DEF TakeoverInv
  <2> QED
      BY <1>1, <1>3, <1>4, <2>1, LaterStep DEF After
<1> QED
    BY <1>1, <1>2, <1>4, <1>5, <1>6, GoStep

LEMMA ReclaimStep ==
    ASSUME LedgerInv, NEW e \in Epochs, Reclaim(e)
    PROVE  LedgerInv' /\ (NoLoss /\ TakeoverInv => TakeoverInv')
<1>1. TypeOK /\ drv[e].pc = "reclaiming" /\ UNCHANGED <<card, child, attempt, receipt, tx>>
    BY DEF LedgerInv, Reclaim, Rows
<1>2. CASE card.status \in Answers
  <2>1. Ends(e, "ended") /\ ~Holds(e)'
      BY <1>1, <1>2 DEF Reclaim, Holds, Answers
  <2>2. card' \in Card /\ CardStep
      BY <1>1, TypeParts, CardStill
  <2> QED
      BY <1>1, <2>1, <2>2, EndStep
<1>3. CASE card.status \notin Answers
  <2>1. card.status \in {"open"} \cup Aborts
      BY <1>1, <1>3, TypeParts DEF Card, Answers
  <2>2. drv' = [drv EXCEPT ![e].pc = "attaching", ![e].saw = card.status] /\ UNCHANGED <<job, owed>>
      BY <1>3 DEF Reclaim
  <2> QED
      BY <1>1, <2>1, <2>2, AttachingStep
<1> QED
    BY <1>2, <1>3

LEMMA AttachStep ==
    ASSUME LedgerInv, NEW e \in Epochs, Attach(e)
    PROVE  LedgerInv' /\ (NoLoss /\ TakeoverInv => TakeoverInv')
<1>1. /\ drv[e].pc \in {"attaching", "closing"} /\ Ends(e, "ended") /\ card' = Stopped(e)
      /\ UNCHANGED <<child, attempt, receipt, tx>>
    BY DEF Attach, Rows
<1>2. card' \in Card /\ CardStep /\ ~Holds(e)'
    BY <1>1, StoppedTyped
<1> QED
    BY <1>1, <1>2, EndStep

LEMMA SignalStep ==
    ASSUME LedgerInv, NEW e \in Epochs, Signal(e)
    PROVE  LedgerInv' /\ (NoLoss /\ TakeoverInv => TakeoverInv')
<1>1. /\ TypeOK /\ ~Holds(e) /\ UNCHANGED <<card, child, attempt, receipt, job, owed, tx>>
      /\ drv' = [drv EXCEPT ![e].aborted = TRUE]
    BY DEF LedgerInv, Signal, Rows, Holds, Aborts
<1>2. /\ drv' \in [Epochs -> Driver]
      /\ drv'[e].pc = drv[e].pc /\ drv'[e].aborted
      /\ \A f \in Epochs \ {e} : drv'[f] = drv[f]
    BY <1>1, AbortTyped
<1>3. TypeOK' /\ Others(e) /\ CardStep
    BY <1>1, <1>2, TypeParts, TypePartsNext, CardStill DEF Others
<1>4. \A d \in Cases : (Undone(e, d)' => Undone(e, d)) /\ (InTx(e, d)' => InTx(e, d) /\ tx'[e][d].kid = tx[e][d].kid)
    BY <1>1, <1>2 DEF Undone, InTx
<1>5. ASSUME NoLoss, TakeoverInv PROVE TakeoverAt(e)'
  <2>1. TakeoverAt(e)
      BY <1>5 DEF TakeoverInv
  <2>2. KnowledgeAt(e)' /\ ListedAt(e)' /\ AloneAt(e)'
      BY <1>1, <1>2, <2>1 DEF TakeoverAt, KnowledgeAt, ListedAt, AloneAt, InTx
  <2>3. OwnedAt(e)'
      BY <1>1, <1>2, <2>1 DEF TakeoverAt, OwnedAt, Its, InTx
  <2>4. OpenAt(e)' /\ GivenAt(e)'
      BY <1>1, <1>2, <2>1 DEF TakeoverAt, OpenAt, GivenAt, Holds
  <2> QED
      BY <2>2, <2>3, <2>4 DEF TakeoverAt
<1> QED
    BY <1>1, <1>2, <1>3, <1>4, <1>5, DriverStep

LEMMA CrashStep ==
    ASSUME LedgerInv, NEW e \in Epochs, Crash(e)
    PROVE  LedgerInv' /\ (NoLoss /\ TakeoverInv => TakeoverInv')
<1>1. TypeOK /\ UNCHANGED <<card, child, attempt, receipt>> /\ Ends(e, "crashed")
    BY DEF LedgerInv, Crash, Rows
<1>2. /\ drv' \in [Epochs -> Driver] /\ job' \in [Epochs -> [Cases -> Knowing]] /\ owed' \in [Epochs -> SUBSET Pairs]
      /\ drv'[e].pc = "crashed" /\ \A c \in Cases : job'[e][c] = "todo"
      /\ \A f \in Epochs \ {e} : drv'[f] = drv[f] /\ job'[f] = job[f] /\ owed'[f] = owed[f]
    BY <1>1, EndsTyped
<1>3. /\ tx' \in [Epochs -> [Cases -> Tx]]
      /\ \A c \in Cases : tx'[e][c].st = "none"
      /\ \A f \in Epochs \ {e} : tx'[f] = tx[f]
    BY <1>1, TxClearTyped DEF Crash
<1>4. TypeOK' /\ Others(e) /\ CardStep
    BY <1>1, <1>2, <1>3, TypeParts, TypePartsNext, CardStill DEF Others
<1>5. \A d \in Cases : ~InTx(e, d)' /\ ~Undone(e, d)'
    BY <1>2, <1>3 DEF InTx, Undone, Before
<1>6. TakeoverAt(e)'
    BY <1>2, <1>3 DEF TakeoverAt, KnowledgeAt, ListedAt, AloneAt, OwnedAt, OpenAt, GivenAt, After
<1> QED
    BY <1>1, <1>2, <1>4, <1>5, <1>6, DriverStep

-----------------------------------------------------------------------------
(* A case, from its dispatch to its commit.                                *)

\* A step at one case of one driver.
LEMMA OnlyAt ==
    ASSUME TypeOK, TypeOK', NEW e \in Epochs, NEW c \in Cases,
           \A f \in Epochs \ {e} : drv'[f] = drv[f] /\ owed'[f] = owed[f],
           \A f \in Epochs, d \in Cases : <<f, d>> # <<e, c>> => job'[f][d] = job[f][d] /\ tx'[f][d] = tx[f][d]
    PROVE  Others(e)
<1>1. \A f \in Epochs \ {e} : tx'[f] = tx[f] /\ job'[f] = job[f]
  <2> SUFFICES ASSUME NEW f \in Epochs \ {e} PROVE tx'[f] = tx[f] /\ job'[f] = job[f]
      OBVIOUS
  <2>1. /\ tx[f] \in [Cases -> Tx] /\ job[f] \in [Cases -> Knowing]
        /\ tx'[f] \in [Cases -> Tx] /\ job'[f] \in [Cases -> Knowing]
      BY DEF TypeOK, Tx, Knowing
  <2>2. \A d \in Cases : tx'[f][d] = tx[f][d] /\ job'[f][d] = job[f][d]
      OBVIOUS
  <2> QED
      BY <2>1, <2>2
<1> QED
    BY <1>1 DEF Others

\* The work of a case ends, one way or the other.
LEMMA WorkEnds ==
    ASSUME LedgerInv, NEW e \in Epochs, NEW c \in Cases, NEW what \in {"ran", "threw"},
           job[e][c] = "running", Knows(e, c, what),
           UNCHANGED <<card, child, attempt, receipt, owed, tx>>,
           drv' = drv \/ drv' = [drv EXCEPT ![e].aborted = TRUE]
    PROVE  LedgerInv' /\ (NoLoss /\ TakeoverInv => TakeoverInv')
<1>1. TypeOK
    BY DEF LedgerInv
<1>2. /\ job' \in [Epochs -> [Cases -> Knowing]] /\ job'[e][c] = what
      /\ \A f \in Epochs, d \in Cases : <<f, d>> # <<e, c>> => job'[f][d] = job[f][d]
    BY <1>1, KnowsTyped DEF Knowing
<1>3. /\ drv' \in [Epochs -> Driver]
      /\ drv'[e].pc = drv[e].pc /\ (drv[e].aborted => drv'[e].aborted)
      /\ \A f \in Epochs \ {e} : drv'[f] = drv[f]
  <2>1. CASE drv' = drv
      BY <1>1, <2>1, TypeParts
  <2>2. CASE drv' = [drv EXCEPT ![e].aborted = TRUE]
      BY <1>1, <2>2, AbortTyped
  <2> QED
      BY <2>1, <2>2
<1>4. TypeOK'
    BY <1>1, <1>2, <1>3, TypeParts, TypePartsNext
<1>5. Others(e) /\ CardStep
    BY <1>1, <1>2, <1>3, <1>4, OnlyAt, CardStill
<1>6. \A d \in Cases : (Undone(e, d)' => Undone(e, d)) /\ (InTx(e, d)' => InTx(e, d) /\ tx'[e][d].kid = tx[e][d].kid)
    BY <1>2, <1>3 DEF Undone, InTx
<1>7. ASSUME NoLoss, TakeoverInv PROVE TakeoverAt(e)'
  <2>1. TakeoverAt(e) /\ drv[e].pc = "driving"
      BY <1>7 DEF TakeoverInv, TakeoverAt, KnowledgeAt
  <2>2. KnowledgeAt(e)' /\ ListedAt(e)' /\ AloneAt(e)'
      BY <1>2, <1>3, <2>1 DEF TakeoverAt, KnowledgeAt, ListedAt, AloneAt, After
  <2>3. OwnedAt(e)'
    <3>1. \A d \in Cases : Its(e, d)' => Its(e, d)
        BY <1>2 DEF Its
    <3> QED
        BY <1>3, <2>1, <3>1 DEF TakeoverAt, OwnedAt, InTx
  <2>4. OpenAt(e)' /\ GivenAt(e)'
      BY <1>2, <1>3, <2>1 DEF TakeoverAt, OpenAt, GivenAt, Holds
  <2> QED
      BY <2>2, <2>3, <2>4 DEF TakeoverAt
<1> QED
    BY <1>3, <1>4, <1>5, <1>6, <1>7, DriverStep

LEMMA ReturnStep ==
    ASSUME LedgerInv, NEW e \in Epochs, NEW c \in Cases, Return(e, c)
    PROVE  LedgerInv' /\ (NoLoss /\ TakeoverInv => TakeoverInv')
<1>1. job[e][c] = "running" /\ UNCHANGED <<card, child, attempt, receipt, owed, tx>>
    BY DEF Return, Rows
<1>2. CASE Knows(e, c, "ran") /\ UNCHANGED drv
    BY <1>1, <1>2, WorkEnds
<1>3. CASE Knows(e, c, "threw") /\ drv' = [drv EXCEPT ![e].aborted = TRUE]
    BY <1>1, <1>3, WorkEnds
<1> QED
    BY <1>2, <1>3 DEF Return

LEMMA FailStep ==
    ASSUME LedgerInv, NEW e \in Epochs, NEW c \in Cases, Fail(e, c)
    PROVE  LedgerInv' /\ (NoLoss /\ TakeoverInv => TakeoverInv')
BY WorkEnds DEF Fail, Rows

\* What a rollback leaves of the commit and of the case.
LEMMA RollbackTyped ==
    ASSUME TypeOK, NEW e \in Epochs, NEW c \in Cases, Rollback(e, c)
    PROVE  /\ job' \in [Epochs -> [Cases -> Knowing]] /\ tx' \in [Epochs -> [Cases -> Tx]]
           /\ drv[e].pc = "seeding" => tx'[e][c].st = "unknown" /\ job'[e][c] = job[e][c]
           /\ drv[e].pc # "seeding" => tx'[e][c].st = "none" /\ job'[e][c] = "unwritten"
           /\ \A f \in Epochs, d \in Cases : <<f, d>> # <<e, c>> => job'[f][d] = job[f][d] /\ tx'[f][d] = tx[f][d]
<1>1. CASE drv[e].pc = "seeding"
  <2>1. tx' = [tx EXCEPT ![e][c].st = "unknown"] /\ job' = job
      BY <1>1 DEF Rollback
  <2>2. /\ tx' \in [Epochs -> [Cases -> Tx]]
        /\ tx'[e][c].st = "unknown" /\ tx'[e][c].kid = tx[e][c].kid
        /\ \A f \in Epochs, d \in Cases : <<f, d>> # <<e, c>> => tx'[f][d] = tx[f][d]
    <3>1. tx \in [Epochs -> [Cases -> Tx]] /\ tx[e][c] \in Tx
        BY TypeParts
    <3>2. [tx[e][c] EXCEPT !.st = "unknown"] \in Tx
        BY <3>1 DEF Tx
    <3>3. tx'[e][c].st = "unknown" /\ tx'[e][c].kid = tx[e][c].kid
        BY <2>1, <3>1 DEF Tx
    <3>4. tx' \in [Epochs -> [Cases -> Tx]]
        BY <2>1, <3>1, <3>2
    <3>5. \A f \in Epochs, d \in Cases : <<f, d>> # <<e, c>> => tx'[f][d] = tx[f][d]
        BY <2>1, <3>1
    <3> QED
        BY <3>3, <3>4, <3>5
  <2>3. job' \in [Epochs -> [Cases -> Knowing]] /\ \A f \in Epochs, d \in Cases : job'[f][d] = job[f][d]
      BY <2>1, TypeParts
  <2> QED
      BY <1>1, <2>2, <2>3
<1>2. CASE drv[e].pc # "seeding"
  <2>1. tx' = [tx EXCEPT ![e][c] = NoTx] /\ Knows(e, c, "unwritten") /\ "unwritten" \in Knowing
      BY <1>2 DEF Rollback, Knowing
  <2>2. /\ tx' \in [Epochs -> [Cases -> Tx]] /\ tx'[e][c].st = "none"
        /\ \A f \in Epochs, d \in Cases : <<f, d>> # <<e, c>> => tx'[f][d] = tx[f][d]
      BY <2>1, TxDropTyped
  <2>3. /\ job' \in [Epochs -> [Cases -> Knowing]] /\ job'[e][c] = "unwritten"
        /\ \A f \in Epochs, d \in Cases : <<f, d>> # <<e, c>> => job'[f][d] = job[f][d]
      BY <2>1, KnowsTyped
  <2> QED
      BY <1>2, <2>2, <2>3
<1> QED
    BY <1>1, <1>2

\* A commit that wrote nothing is rolled back.
LEMMA RollbackStep ==
    ASSUME LedgerInv, NEW e \in Epochs, NEW c \in Cases, Rollback(e, c),
           InTx(e, c) \/ job[e][c] \in {"ran", "threw"},
           UNCHANGED <<card, child, attempt, receipt, drv, owed>>
    PROVE  LedgerInv' /\ (NoLoss /\ TakeoverInv => TakeoverInv')
<1>1. TypeOK
    BY DEF LedgerInv
<1>2. /\ job' \in [Epochs -> [Cases -> Knowing]] /\ tx' \in [Epochs -> [Cases -> Tx]]
      /\ drv[e].pc = "seeding" => tx'[e][c].st = "unknown" /\ job'[e][c] = job[e][c]
      /\ drv[e].pc # "seeding" => tx'[e][c].st = "none" /\ job'[e][c] = "unwritten"
      /\ \A f \in Epochs, d \in Cases : <<f, d>> # <<e, c>> => job'[f][d] = job[f][d] /\ tx'[f][d] = tx[f][d]
    BY <1>1, RollbackTyped
<1>3. TypeOK'
    BY <1>1, <1>2, TypeParts, TypePartsNext
<1>4. Others(e) /\ CardStep
    BY <1>1, <1>2, <1>3, OnlyAt, CardStill
<1>5. \A f \in Epochs, d \in Cases : InTx(f, d)' => InTx(f, d) /\ tx'[f][d].kid = tx[f][d].kid /\ <<f, d>> # <<e, c>>
    BY <1>2 DEF InTx
<1>6. \A d \in Cases : Undone(e, d)' => Undone(e, d)
    BY <1>2 DEF Undone
<1>7. ASSUME NoLoss, TakeoverInv PROVE TakeoverAt(e)'
  <2>1. TakeoverAt(e)
      BY <1>7 DEF TakeoverInv
  <2>2. CASE drv[e].pc = "seeding"
    <3>1. InTx(e, c) /\ \A d \in Cases : job'[e][d] = job[e][d] /\ job[e][d] \notin {"running", "ran", "threw", "lost"}
        BY <1>2, <2>1, <2>2 DEF TakeoverAt, KnowledgeAt, After
    <3>2. KnowledgeAt(e)' /\ OwnedAt(e)' /\ OpenAt(e)' /\ GivenAt(e)'
        BY <2>2, <3>1 DEF KnowledgeAt, OwnedAt, OpenAt, GivenAt, After
    <3>3. ListedAt(e)'
        BY <1>5, <2>1, <3>1 DEF TakeoverAt, ListedAt
    <3>4. AloneAt(e)'
      <4> SUFFICES ASSUME card.epoch = e, NEW d \in Cases, NEW f \in Epochs, tx'[e][d].st = "unknown", InTx(f, d)'
                   PROVE  f = e
          BY DEF AloneAt
      <4>1. CASE d = c
          BY <1>5, <3>1, <4>1 DEF LedgerInv, OneTx
      <4>2. CASE d # c
          BY <1>2, <1>5, <2>1, <4>2 DEF TakeoverAt, AloneAt
      <4> QED
          BY <4>1, <4>2
    <3> QED
        BY <3>2, <3>3, <3>4 DEF TakeoverAt
  <2>3. CASE drv[e].pc # "seeding"
    <3>1. \A d \in Cases : tx'[e][d].st # "unknown" /\ (job'[e][d] = job[e][d] \/ job'[e][d] = "unwritten")
        BY <1>2, <2>1, <2>3 DEF TakeoverAt, KnowledgeAt
    <3>2. KnowledgeAt(e)' /\ ListedAt(e)' /\ AloneAt(e)'
        BY <2>1, <2>3, <3>1 DEF TakeoverAt, KnowledgeAt, ListedAt, AloneAt
    <3>3. OwnedAt(e)'
      <4>1. \A d \in Cases : Its(e, d)' => Its(e, d)
          BY <3>1 DEF Its
      <4> QED
          BY <1>5, <2>1, <4>1 DEF TakeoverAt, OwnedAt
    <3>4. OpenAt(e)' /\ GivenAt(e)'
        BY <2>1, <3>1 DEF TakeoverAt, OpenAt, GivenAt, Holds
    <3> QED
        BY <3>2, <3>3, <3>4 DEF TakeoverAt
  <2> QED
      BY <2>2, <2>3
<1> QED
    BY <1>3, <1>4, <1>5, <1>6, <1>7, DriverStep

LEMMA AdoptAttemptStep ==
    ASSUME LedgerInv, NEW e \in Epochs, NEW c \in Cases, AdoptAttempt(e, c)
    PROVE  LedgerInv' /\ (NoLoss /\ TakeoverInv => TakeoverInv')
<1>1. TypeOK /\ tx[e][c].st = "settled" /\ InTx(e, c) /\ UNCHANGED <<card, child, attempt, receipt, drv, owed>>
    BY DEF LedgerInv, AdoptAttempt, Rows, InTx
<1>2. CASE Adopts(e, c)
  <2>1. tx' = [tx EXCEPT ![e][c].st = "adopted"] /\ UNCHANGED job
      BY <1>2 DEF AdoptAttempt
  <2>2. /\ tx' \in [Epochs -> [Cases -> Tx]] /\ tx'[e][c].st = "adopted" /\ tx'[e][c].kid = tx[e][c].kid
        /\ \A f \in Epochs, d \in Cases : <<f, d>> # <<e, c>> => tx'[f][d] = tx[f][d]
      BY <1>1, <2>1, TxAdoptedTyped
  <2>3. TypeOK'
      BY <1>1, <2>1, <2>2, TypeParts, TypePartsNext
  <2>4. Others(e) /\ CardStep
      BY <1>1, <2>1, <2>2, <2>3, OnlyAt, CardStill
  <2>5. \A f \in Epochs, d \in Cases : /\ InTx(f, d)' => InTx(f, d)
                                       /\ tx'[f][d].kid = tx[f][d].kid
                                       /\ tx'[f][d].st = "unknown" => tx[f][d].st = "unknown"
      BY <1>1, <2>2 DEF InTx
  <2>6. \A d \in Cases : Undone(e, d)' => Undone(e, d)
      BY <1>1, <2>1 DEF Undone
  <2>7. ASSUME NoLoss, TakeoverInv PROVE TakeoverAt(e)'
    <3>1. TakeoverAt(e)
        BY <2>7 DEF TakeoverInv
    <3>2. KnowledgeAt(e)' /\ ListedAt(e)' /\ AloneAt(e)'
        BY <1>1, <2>1, <2>5, <3>1 DEF TakeoverAt, KnowledgeAt, ListedAt, AloneAt
    <3>3. OwnedAt(e)'
        BY <1>1, <2>1, <2>5, <3>1 DEF TakeoverAt, OwnedAt, Its
    <3>4. OpenAt(e)' /\ GivenAt(e)'
        BY <1>1, <2>1, <3>1 DEF TakeoverAt, OpenAt, GivenAt, Holds
    <3> QED
        BY <3>2, <3>3, <3>4 DEF TakeoverAt
  <2> QED
      BY <1>1, <2>3, <2>4, <2>5, <2>6, <2>7, DriverStep
<1>3. CASE ~Adopts(e, c)
    BY <1>1, <1>3, RollbackStep DEF AdoptAttempt
<1> QED
    BY <1>2, <1>3

\* A transaction begins: the case is unclaimed and the child open, under the driver's epoch.
LEMMA BeginStep ==
    ASSUME LedgerInv, NEW e \in Epochs, NEW c \in Cases, NEW k \in Epochs, NEW st \in {"settled", "failing"},
           tx' = [tx EXCEPT ![e][c] = [st |-> st, kid |-> k]],
           ~Claimed(c), receipt[c] = None, child[c][k] = "open", card.epoch = e,
           UNCHANGED <<card, child, attempt, receipt, drv, job, owed>>,
           drv[e].pc = "seeding" => <<c, k>> \in owed[e],
           tx[e][c].st = "none"
    PROVE  LedgerInv' /\ (NoLoss /\ TakeoverInv => TakeoverInv')
<1>1. TypeOK
    BY DEF LedgerInv
<1>3. /\ tx' \in [Epochs -> [Cases -> Tx]] /\ tx'[e][c].st = st /\ tx'[e][c].kid = k
      /\ \A f \in Epochs, d \in Cases : <<f, d>> # <<e, c>> => tx'[f][d] = tx[f][d]
  <2>1. tx \in [Epochs -> [Cases -> Tx]] /\ [st |-> st, kid |-> k] \in Tx
      BY <1>1, TypeParts DEF Tx
  <2>2. tx' \in [Epochs -> [Cases -> Tx]] /\ tx'[e][c] = [st |-> st, kid |-> k]
      BY <2>1
  <2>3. \A f \in Epochs, d \in Cases : <<f, d>> # <<e, c>> => tx'[f][d] = tx[f][d]
      BY <2>1
  <2> QED
      BY <2>2, <2>3
<1>4. TypeOK'
    BY <1>1, <1>3, TypeParts, TypePartsNext
<1>5. Others(e) /\ CardStep
    BY <1>1, <1>3, <1>4, OnlyAt, CardStill
<1>6. \A f \in Epochs, d \in Cases :
         InTx(f, d)' => (InTx(f, d) /\ d # c /\ tx'[f][d] = tx[f][d]) \/ (f = e /\ d = c)
    BY <1>3 DEF InTx, Claimed
<1>7. tx'[e][c].st = st /\ tx'[e][c].kid = k
    BY <1>3
<1>8. LedgerInv'
  <2>1. OneAnswer' /\ Undispatched' /\ Counted' /\ SummaryStands'
      BY DEF LedgerInv, OneAnswer, Undispatched, Undone, Counted, SummaryStands
  <2>2. TxSound'
      BY <1>6, <1>7 DEF LedgerInv, TxSound
  <2>3. OneTx'
      BY <1>6 DEF LedgerInv, OneTx
  <2> QED
      BY <1>4, <2>1, <2>2, <2>3 DEF LedgerInv
<1>9. ASSUME NoLoss, TakeoverInv PROVE TakeoverInv'
  <2>1. TakeoverAt(e)
      BY <1>9 DEF TakeoverInv
  <2>2. KnowledgeAt(e)'
      BY <1>3, <1>7, <2>1 DEF TakeoverAt, KnowledgeAt
  <2>3. ListedAt(e)'
      BY <1>6, <1>7, <2>1 DEF TakeoverAt, ListedAt
  <2>4. AloneAt(e)'
    <3>1. \A d \in Cases : tx'[e][d].st = "unknown" => d # c /\ tx[e][d].st = "unknown"
        BY <1>3, <1>7
    <3> QED
        BY <1>6, <2>1, <3>1 DEF TakeoverAt, AloneAt
  <2>5. OwnedAt(e)'
      BY <1>6, <2>1 DEF TakeoverAt, OwnedAt, Its
  <2>6. OpenAt(e)' /\ GivenAt(e)'
      BY <2>1 DEF TakeoverAt, OpenAt, GivenAt, Holds
  <2>7. TakeoverAt(e)'
      BY <2>2, <2>3, <2>4, <2>5, <2>6 DEF TakeoverAt
  <2> QED
      BY <1>5, <1>9, <2>7, OthersKeep DEF TakeoverInv
<1> QED
    BY <1>8, <1>9

\* The driver learns of a case and moves an attempt to its grave, at most; the other rows stay.
LEMMA LearnStep ==
    ASSUME LedgerInv, NEW e \in Epochs, NEW c \in Cases, NEW what \in {"committed", "lost"},
           Knows(e, c, what), UNCHANGED <<card, child, receipt, owed, tx>>,
           attempt' = attempt \/ (attempt' = [attempt EXCEPT ![c][e] = "dead"] /\ attempt[c][e] # "committed"),
           drv' = drv \/ drv' = [drv EXCEPT ![e].aborted = TRUE],
           drv' = drv \/ drv[e].pc = "driving",
           job[e][c] \in {"ran", "threw"} \/ drv[e].pc = "driving",
           NoLoss /\ TakeoverInv /\ what = "lost" => drv'[e].aborted \/ ~Holds(e)
    PROVE  LedgerInv' /\ (NoLoss /\ TakeoverInv => TakeoverInv')
<1>1. TypeOK
    BY DEF LedgerInv
<1>2. /\ job' \in [Epochs -> [Cases -> Knowing]] /\ job'[e][c] = what
      /\ \A f \in Epochs, d \in Cases : <<f, d>> # <<e, c>> => job'[f][d] = job[f][d]
    BY <1>1, KnowsTyped DEF Knowing
<1>3. /\ drv' \in [Epochs -> Driver]
      /\ drv'[e].pc = drv[e].pc /\ (drv[e].aborted => drv'[e].aborted)
      /\ \A f \in Epochs \ {e} : drv'[f] = drv[f]
  <2>1. CASE drv' = drv
      BY <1>1, <2>1, TypeParts
  <2>2. CASE drv' = [drv EXCEPT ![e].aborted = TRUE]
      BY <1>1, <2>2, AbortTyped
  <2> QED
      BY <2>1, <2>2
<1>4. /\ attempt' \in [Cases -> [Epochs -> Attempt]]
      /\ \A d \in Cases, k \in Epochs : attempt'[d][k] = "committed" <=> attempt[d][k] = "committed"
  <2>1. CASE attempt' = attempt
      BY <1>1, <2>1, TypeParts
  <2>2. CASE attempt' = [attempt EXCEPT ![c][e] = "dead"] /\ attempt[c][e] # "committed"
      BY <1>1, <2>2, TypeParts DEF Attempt
  <2> QED
      BY <2>1, <2>2
<1>5. TypeOK'
    BY <1>1, <1>2, <1>3, <1>4, TypeParts, TypePartsNext
<1>6. Others(e) /\ CardStep
    BY <1>1, <1>2, <1>3, <1>5, OnlyAt, CardStill
<1>7. \A f \in Epochs, d \in Cases : Undone(f, d)' => Undone(f, d)
    BY <1>2, <1>3 DEF Undone
<1>8. LedgerInv'
  <2>1. OneAnswer' /\ TxSound' /\ OneTx'
      BY <1>4 DEF LedgerInv, OneAnswer, TxSound, OneTx, InTx
  <2>2. Undispatched' /\ Counted' /\ SummaryStands'
      BY <1>3, <1>7 DEF LedgerInv, Undispatched, Counted, SummaryStands
  <2> QED
      BY <1>5, <2>1, <2>2 DEF LedgerInv
<1>9. ASSUME NoLoss, TakeoverInv PROVE TakeoverInv'
  <2>1. TakeoverAt(e) /\ drv[e].pc \in After
      BY <1>9 DEF TakeoverInv, TakeoverAt, KnowledgeAt, After
  <2>2. KnowledgeAt(e)' /\ ListedAt(e)' /\ AloneAt(e)'
      BY <1>2, <1>3, <2>1 DEF TakeoverAt, KnowledgeAt, ListedAt, AloneAt, After
  <2>3. OwnedAt(e)'
    <3>1. \A d \in Cases : Its(e, d)' => Its(e, d)
        BY <1>2 DEF Its
    <3> QED
        BY <1>3, <2>1, <3>1 DEF TakeoverAt, OwnedAt, InTx
  <2>4. OpenAt(e)'
      BY <1>2, <2>1 DEF TakeoverAt, OpenAt, Holds
  <2>5. GivenAt(e)'
      BY <1>2, <1>3, <1>9, <2>1 DEF TakeoverAt, GivenAt, Holds
  <2>6. TakeoverAt(e)'
      BY <2>2, <2>3, <2>4, <2>5 DEF TakeoverAt
  <2>7. \A d \in Cases : InTx(e, d)' => InTx(e, d) /\ tx'[e][d].kid = tx[e][d].kid
      BY DEF InTx
  <2> QED
      BY <1>6, <1>9, <2>6, <2>7, OthersKeep DEF TakeoverInv
<1> QED
    BY <1>8, <1>9

LEMMA CommitCaseStep ==
    ASSUME LedgerInv, NEW e \in Epochs, NEW c \in Cases, CommitCase(e, c)
    PROVE  LedgerInv' /\ (NoLoss /\ TakeoverInv => TakeoverInv')
<1>1. /\ TypeOK /\ job[e][c] \in {"ran", "threw"} /\ tx[e][c].st = "none" /\ ~Claimed(c)
      /\ UNCHANGED <<card, child, receipt, drv, owed>>
    BY DEF LedgerInv, CommitCase
<1>2. CASE Unclaimed(c) /\ Fenced(e, c)
  <2> DEFINE st == IF job[e][c] = "ran" THEN "settled" ELSE "failing"
  <2>1. tx' = [tx EXCEPT ![e][c] = [st |-> st, kid |-> e]] /\ UNCHANGED <<attempt, job>>
      BY <1>2 DEF CommitCase
  <2>2. st \in {"settled", "failing"}
      OBVIOUS
  <2>3. receipt[c] = None /\ child[c][e] = "open" /\ card.epoch = e
      BY <1>2 DEF Unclaimed, Fenced
  <2> HIDE DEF st
  <2>4. CASE drv[e].pc # "seeding"
      BY <1>1, <2>1, <2>2, <2>3, <2>4, BeginStep
  <2>5. CASE drv[e].pc = "seeding"
      BY <2>3, <2>5 DEF LedgerInv, Undispatched, Undone, Before
  <2> QED
      BY <2>4, <2>5
<1>3. CASE ~(Unclaimed(c) /\ Fenced(e, c))
  <2>1. UNCHANGED tx
      BY <1>3 DEF CommitCase
  <2>2. CASE receipt[c] = e
    <3>1. Knows(e, c, "committed") /\ UNCHANGED attempt
        BY <1>3, <2>2 DEF CommitCase
    <3> QED
        BY <1>1, <2>1, <3>1, LearnStep
  <2>3. CASE receipt[c] # e
    <3>1. Knows(e, c, "lost") /\ Loses(c, e)
        BY <1>3, <2>3 DEF CommitCase
    <3>2. attempt' = attempt \/ (attempt' = [attempt EXCEPT ![c][e] = "dead"] /\ attempt[c][e] # "committed")
      <4>1. CASE attempt[c][e] = "live"
          BY <1>1, <3>1, <4>1, TypeParts DEF Loses
      <4>2. CASE attempt[c][e] # "live"
          BY <1>1, <3>1, <4>2, TypeParts DEF Loses
      <4> QED
          BY <4>1, <4>2
    <3>3. TakeoverInv => ~Holds(e)
      <4> SUFFICES ASSUME TakeoverInv, Holds(e) PROVE FALSE
          OBVIOUS
      <4>1. child[c][e] = "open" /\ drv[e].pc \in After
          BY <1>1 DEF TakeoverInv, TakeoverAt, OpenAt, KnowledgeAt
      <4>2. receipt[c] = None
          BY <1>1, <4>1 DEF TakeoverInv, TakeoverAt, OwnedAt, Its, Holds
      <4> QED
          BY <1>3, <4>1, <4>2 DEF Unclaimed, Fenced, Holds
    <3> QED
        BY <1>1, <2>1, <3>1, <3>2, <3>3, LearnStep
  <2> QED
      BY <2>2, <2>3
<1> QED
    BY <1>2, <1>3

\* A child is opened, for a case its driver has not dispatched yet.
LEMMA OpensStep ==
    ASSUME LedgerInv, NEW e \in Epochs, NEW c \in Cases,
           drv[e].pc = "driving", job[e][c] = "todo",
           attempt' = [attempt EXCEPT ![c][e] = "live"], child' = [child EXCEPT ![c][e] = "open"],
           Knows(e, c, "running"), UNCHANGED <<card, receipt, drv, owed, tx>>
    PROVE  LedgerInv' /\ (NoLoss /\ TakeoverInv => TakeoverInv')
<1>1. TypeOK /\ child[c][e] = "none"
    BY DEF LedgerInv, Undispatched, Undone
<1>2. /\ job' \in [Epochs -> [Cases -> Knowing]] /\ job'[e][c] = "running"
      /\ \A f \in Epochs, d \in Cases : <<f, d>> # <<e, c>> => job'[f][d] = job[f][d]
    BY <1>1, KnowsTyped DEF Knowing
<1>3. /\ attempt' \in [Cases -> [Epochs -> Attempt]] /\ attempt'[c][e] = "live"
      /\ \A d \in Cases, k \in Epochs : <<k, d>> # <<e, c>> => attempt'[d][k] = attempt[d][k]
    BY <1>1, TypeParts DEF Attempt
<1>4. /\ child' \in [Cases -> [Epochs -> Child]] /\ child'[c][e] = "open"
      /\ \A d \in Cases, k \in Epochs : <<k, d>> # <<e, c>> => child'[d][k] = child[d][k]
    BY <1>1, TypeParts DEF Child
<1>5. TypeOK'
    BY <1>1, <1>2, <1>3, <1>4, TypeParts, TypePartsNext
<1>6. Others(e) /\ CardStep
    BY <1>1, <1>2, <1>5, OnlyAt, CardStill
<1>7. \A f \in Epochs, d \in Cases : /\ Undone(f, d)' => Undone(f, d) /\ <<f, d>> # <<e, c>>
                                     /\ InTx(f, d)' <=> InTx(f, d)
    BY <1>2 DEF Undone, Before, InTx
<1>8. LedgerInv'
  <2>1. OneAnswer'
    <3> SUFFICES ASSUME NEW d \in Cases, NEW k \in Epochs
                 PROVE  /\ receipt[d] = k => child'[d][k] \in Answers
                        /\ child'[d][k] \in Answers => receipt[d] = k
                        /\ child'[d][k] = "succeeded" <=> attempt'[d][k] = "committed"
        BY DEF OneAnswer
    <3>1. CASE <<k, d>> = <<e, c>>
        BY <1>1, <1>3, <1>4, <3>1 DEF LedgerInv, OneAnswer, Answers
    <3>2. CASE <<k, d>> # <<e, c>>
        BY <1>3, <1>4, <3>2 DEF LedgerInv, OneAnswer
    <3> QED
        BY <3>1, <3>2
  <2>2. TxSound'
    <3>1. \A d \in Cases, k \in Epochs : child[d][k] = "open" => child'[d][k] = "open"
        BY <1>4
    <3>2. \A f \in Epochs, d \in Cases : tx[f][d].kid \in Epochs
        BY <1>1, TypeParts DEF Tx
    <3> QED
        BY <1>7, <3>1, <3>2 DEF LedgerInv, TxSound
  <2>3. OneTx' /\ Counted' /\ SummaryStands'
      BY <1>7 DEF LedgerInv, OneTx, Counted, SummaryStands
  <2>4. Undispatched'
      BY <1>4, <1>7 DEF LedgerInv, Undispatched
  <2> QED
      BY <1>5, <2>1, <2>2, <2>3, <2>4 DEF LedgerInv
<1>9. ASSUME NoLoss, TakeoverInv PROVE TakeoverInv'
  <2>1. TakeoverAt(e)
      BY <1>9 DEF TakeoverInv
  <2>2. KnowledgeAt(e)' /\ ListedAt(e)' /\ AloneAt(e)'
      BY <1>2, <2>1 DEF TakeoverAt, KnowledgeAt, ListedAt, AloneAt, After
  <2>3. OwnedAt(e)'
    <3>1. \A d \in Cases : Its(e, d)' => Its(e, d)
        BY <1>2 DEF Its
    <3> QED
        BY <1>7, <2>1, <3>1 DEF TakeoverAt, OwnedAt
  <2>4. OpenAt(e)'
    <3>1. \A d \in Cases : d # c => job'[e][d] = job[e][d] /\ child'[d][e] = child[d][e]
        BY <1>2, <1>4
    <3> QED
        BY <1>4, <2>1, <3>1 DEF TakeoverAt, OpenAt, Holds
  <2>5. GivenAt(e)'
      BY <1>2, <2>1 DEF TakeoverAt, GivenAt, Holds
  <2>6. TakeoverAt(e)'
      BY <2>2, <2>3, <2>4, <2>5 DEF TakeoverAt
  <2>7. /\ \A d \in Cases : InTx(e, d)' => InTx(e, d) /\ tx'[e][d].kid = tx[e][d].kid
        /\ \A d \in Cases, f \in Epochs \ {e} : child'[d][f] = child[d][f]
      BY <1>4, <1>7
  <2> QED
      BY <1>6, <1>9, <2>6, <2>7, OthersKeep DEF TakeoverInv
<1> QED
    BY <1>8, <1>9

LEMMA DispatchStep ==
    ASSUME LedgerInv, NEW e \in Epochs, NEW c \in Cases, Dispatch(e, c)
    PROVE  LedgerInv' /\ (NoLoss /\ TakeoverInv => TakeoverInv')
<1>1. TypeOK /\ drv[e].pc = "driving" /\ job[e][c] = "todo" /\ UNCHANGED <<card, receipt, owed, tx>>
    BY DEF LedgerInv, Dispatch
<1>2. child[c][e] = "none" /\ attempt[c][e] # "committed"
    BY <1>1 DEF LedgerInv, Undispatched, Undone, OneAnswer
<1>3. CASE /\ attempt' = [attempt EXCEPT ![c][e] = "live"] /\ child' = [child EXCEPT ![c][e] = "open"]
           /\ Knows(e, c, "running") /\ UNCHANGED drv
    BY <1>1, <1>3, OpensStep
<1>4. CASE /\ Knows(e, c, "lost") /\ drv' = [drv EXCEPT ![e].aborted = TRUE]
           /\ UNCHANGED <<attempt, child>>
  <2>1. drv'[e].aborted
      BY <1>1, <1>4, AbortTyped
  <2> QED
      BY <1>1, <1>4, <2>1, LearnStep
<1>5. CASE /\ ~Holds(e) \/ "create" \in Faults
           /\ attempt' = [attempt EXCEPT ![c][e] = "dead"]
           /\ Knows(e, c, "lost") /\ UNCHANGED <<child, drv>>
  <2>1. NoLoss => ~Holds(e)
      BY <1>5 DEF NoLoss
  <2> QED
      BY <1>1, <1>2, <1>5, <2>1, LearnStep
<1> QED
    BY <1>3, <1>4, <1>5 DEF Dispatch

-----------------------------------------------------------------------------
(* The recovery, one open child at a time.                                 *)

\* A child is off the list: its answer is known, or the receipt is not its.
LEMMA ResolvedStep ==
    ASSUME LedgerInv, NEW e \in Epochs, NEW c \in Cases, NEW k \in Epochs,
           drv[e].pc = "seeding", Done(e, c, k), \A f \in Epochs : InTx(f, c) => tx[f][c].kid # k,
           Knows(e, c, "seeded") \/ (UNCHANGED job /\ receipt[c] # k),
           UNCHANGED <<card, child, attempt, receipt, drv, tx>>
    PROVE  LedgerInv' /\ (NoLoss /\ TakeoverInv => TakeoverInv')
<1>1. TypeOK
    BY DEF LedgerInv
<1>2. /\ owed' \in [Epochs -> SUBSET Pairs] /\ owed'[e] = owed[e] \ {<<c, k>>}
      /\ \A f \in Epochs \ {e} : owed'[f] = owed[f]
    BY <1>1, DoneTyped
<1>3. /\ job' \in [Epochs -> [Cases -> Knowing]]
      /\ job'[e][c] = "seeded" \/ (job'[e][c] = job[e][c] /\ receipt[c] # k)
      /\ \A f \in Epochs, d \in Cases : <<f, d>> # <<e, c>> => job'[f][d] = job[f][d]
  <2>1. CASE Knows(e, c, "seeded")
      BY <1>1, <2>1, KnowsTyped DEF Knowing
  <2>2. CASE UNCHANGED job /\ receipt[c] # k
      BY <1>1, <2>2, TypeParts
  <2> QED
      BY <2>1, <2>2
<1>4. TypeOK'
    BY <1>1, <1>2, <1>3, TypeParts, TypePartsNext
<1>5. Others(e) /\ CardStep
    BY <1>1, <1>2, <1>3, <1>4, OnlyAt, CardStill
<1>6. \A d \in Cases : (InTx(e, d)' => InTx(e, d) /\ tx'[e][d].kid = tx[e][d].kid) /\ Undone(e, d)
    BY DEF InTx, Undone, Before
<1>7. ASSUME NoLoss, TakeoverInv PROVE TakeoverAt(e)'
  <2>1. TakeoverAt(e)
      BY <1>7 DEF TakeoverInv
  <2>2. ListedAt(e)'
    <3> SUFFICES ASSUME card.epoch = e, NEW d \in Cases
                 PROVE  /\ \A f \in Epochs : InTx(f, d) => <<d, tx[f][d].kid>> \in owed'[e]
                        /\ receipt[d] # None => job'[e][d] = "seeded" \/ <<d, receipt[d]>> \in owed'[e]
        BY DEF ListedAt, InTx
    <3>1. CASE d = c
        BY <1>2, <1>3, <2>1, <3>1 DEF TakeoverAt, ListedAt
    <3>2. CASE d # c
        BY <1>2, <1>3, <2>1, <3>2 DEF TakeoverAt, ListedAt
    <3> QED
        BY <3>1, <3>2
  <2>3. \A d \in Cases : job'[e][d] \notin {"running", "ran", "threw", "lost"}
      BY <1>3, <2>1 DEF TakeoverAt, KnowledgeAt, After
  <2>4. KnowledgeAt(e)' /\ AloneAt(e)' /\ OwnedAt(e)' /\ OpenAt(e)' /\ GivenAt(e)'
      BY <2>1, <2>3 DEF TakeoverAt, KnowledgeAt, AloneAt, OwnedAt, OpenAt, GivenAt, After, InTx
  <2> QED
      BY <2>2, <2>4 DEF TakeoverAt
<1> QED
    BY <1>4, <1>5, <1>6, <1>7, DriverStep

\* Follow() learns the child's answer, or finds that the receipt is another's.
LEMMA FollowLearns ==
    ASSUME LedgerInv, NEW e \in Epochs, NEW c \in Cases, NEW k \in Epochs, Follow(e, c, k)
    PROVE  Knows(e, c, "seeded") \/ (UNCHANGED job /\ receipt[c] # k)
BY DEF LedgerInv, OneAnswer, Follow

\* An open child that no transaction has locked is closed without an answer.
LEMMA CloseChild ==
    ASSUME LedgerInv, NEW c \in Cases, NEW k \in Epochs, NEW s \in {"interrupted", "stopped"},
           child[c][k] = "open", ~ChildLocked(c, k), child' = [child EXCEPT ![c][k] = s],
           owed' \in [Epochs -> SUBSET Pairs],
           UNCHANGED <<card, attempt, receipt, drv, job, tx>>
    PROVE  LedgerInv' /\ \A d \in Cases, f \in Epochs : <<d, f>> # <<c, k>> => child'[d][f] = child[d][f]
<1>1. TypeOK
    BY DEF LedgerInv
<1>2. /\ child' \in [Cases -> [Epochs -> Child]] /\ child'[c][k] = s
      /\ \A d \in Cases, f \in Epochs : <<d, f>> # <<c, k>> => child'[d][f] = child[d][f]
    BY <1>1, TypeParts DEF Child
<1>3. TypeOK'
    BY <1>1, <1>2, TypeParts, TypePartsNext
<1>4. OneAnswer'
  <2> SUFFICES ASSUME NEW d \in Cases, NEW f \in Epochs
               PROVE  /\ receipt[d] = f => child'[d][f] \in Answers
                      /\ child'[d][f] \in Answers => receipt[d] = f
                      /\ child'[d][f] = "succeeded" <=> attempt[d][f] = "committed"
      BY DEF OneAnswer
  <2>1. CASE <<d, f>> = <<c, k>>
      BY <1>2, <2>1 DEF LedgerInv, OneAnswer, Answers
  <2>2. CASE <<d, f>> # <<c, k>>
      BY <1>2, <2>2 DEF LedgerInv, OneAnswer
  <2> QED
      BY <2>1, <2>2
<1>5. TxSound'
  <2>1. \A e \in Epochs, d \in Cases : tx[e][d].kid \in Epochs
      BY <1>1, TypeParts DEF Tx
  <2> QED
      BY <1>2, <2>1 DEF LedgerInv, TxSound, ChildLocked, InTx
<1>6. OneTx' /\ Counted' /\ SummaryStands'
    BY DEF LedgerInv, OneTx, InTx, Counted, SummaryStands
<1>7. Undispatched'
    BY <1>2 DEF LedgerInv, Undispatched, Undone
<1> QED
    BY <1>2, <1>3, <1>4, <1>5, <1>6, <1>7 DEF LedgerInv

LEMMA InterruptStep ==
    ASSUME LedgerInv, NEW e \in Epochs, NEW c \in Cases, NEW k \in Epochs, Interrupt(e, c, k)
    PROVE  LedgerInv' /\ (NoLoss /\ TakeoverInv => TakeoverInv')
<1>1. /\ TypeOK /\ drv[e].pc = "seeding" /\ ~ChildLocked(c, k) /\ Done(e, c, k)
      /\ UNCHANGED <<card, attempt, receipt, drv, tx>>
    BY DEF LedgerInv, Interrupt, Examines
<1>2. \A f \in Epochs : InTx(f, c) => tx[f][c].kid # k
    BY <1>1 DEF ChildLocked
<1>3. CASE child[c][k] = "open" /\ card.epoch = e
  <2>1. child' = [child EXCEPT ![c][k] = "interrupted"] /\ UNCHANGED job
      BY <1>3 DEF Interrupt
  <2>2. /\ owed' \in [Epochs -> SUBSET Pairs] /\ owed'[e] = owed[e] \ {<<c, k>>}
        /\ \A f \in Epochs \ {e} : owed'[f] = owed[f]
      BY <1>1, DoneTyped
  <2>3. LedgerInv' /\ \A d \in Cases, f \in Epochs : <<d, f>> # <<c, k>> => child'[d][f] = child[d][f]
      BY <1>1, <1>3, <2>1, <2>2, CloseChild
  <2>4. Others(e) /\ CardStep
      BY <1>1, <2>1, <2>2, CardStill DEF Others
  <2>5. ASSUME NoLoss, TakeoverInv PROVE TakeoverInv'
    <3>1. TakeoverAt(e) /\ \A d \in Cases : job[e][d] \notin {"running", "ran", "threw", "lost"}
        BY <1>1, <2>5 DEF TakeoverInv, TakeoverAt, KnowledgeAt, After
    <3>2. ListedAt(e)'
      <4> SUFFICES ASSUME NEW d \in Cases
                   PROVE  /\ \A f \in Epochs : InTx(f, d) => <<d, tx[f][d].kid>> \in owed'[e]
                          /\ receipt[d] # None => job[e][d] = "seeded" \/ <<d, receipt[d]>> \in owed'[e]
          BY <1>1, <2>1 DEF ListedAt, InTx
      <4>1. receipt[c] # k
          BY <1>3 DEF LedgerInv, OneAnswer, Answers
      <4>2. CASE d = c
          BY <1>1, <1>2, <1>3, <2>2, <3>1, <4>1, <4>2 DEF TakeoverAt, ListedAt
      <4>3. CASE d # c
          BY <1>1, <1>3, <2>2, <3>1, <4>3 DEF TakeoverAt, ListedAt
      <4> QED
          BY <4>2, <4>3
    <3>3. KnowledgeAt(e)' /\ AloneAt(e)' /\ OwnedAt(e)' /\ OpenAt(e)' /\ GivenAt(e)'
        BY <1>1, <2>1, <3>1 DEF TakeoverAt, KnowledgeAt, AloneAt, OwnedAt, OpenAt, GivenAt, After, InTx
    <3>4. TakeoverAt(e)'
        BY <3>2, <3>3 DEF TakeoverAt
    <3>5. \A d \in Cases : InTx(e, d)' => InTx(e, d) /\ tx'[e][d].kid = tx[e][d].kid
        BY <1>1 DEF InTx
    <3> QED
        BY <1>1, <1>3, <2>4, <2>5, <3>4, <3>5, OthersKeep DEF TakeoverInv
  <2> QED
      BY <2>3, <2>5
<1>4. CASE ~(child[c][k] = "open" /\ card.epoch = e)
  <2>1. Follow(e, c, k) /\ UNCHANGED child
      BY <1>4 DEF Interrupt
  <2> QED
      BY <1>1, <1>2, <2>1, FollowLearns, ResolvedStep
<1> QED
    BY <1>3, <1>4

LEMMA AdoptStep ==
    ASSUME LedgerInv, NEW e \in Epochs, NEW c \in Cases, NEW k \in Epochs, Adopt(e, c, k)
    PROVE  LedgerInv' /\ (NoLoss /\ TakeoverInv => TakeoverInv')
<1>1. /\ TypeOK /\ drv[e].pc = "seeding" /\ <<c, k>> \in owed[e] /\ tx[e][c].st = "none" /\ ~Claimed(c)
      /\ UNCHANGED <<card, child, attempt, receipt, drv>>
    BY DEF LedgerInv, Adopt, Examines, Rows
<1>2. CASE Unclaimed(c) /\ child[c][k] = "open" /\ card.epoch = e
  <2>1. tx' = [tx EXCEPT ![e][c] = [st |-> "settled", kid |-> k]] /\ UNCHANGED <<job, owed>>
      BY <1>2 DEF Adopt
  <2> QED
      BY <1>1, <1>2, <2>1, BeginStep DEF Unclaimed
<1>3. CASE ~(Unclaimed(c) /\ child[c][k] = "open" /\ card.epoch = e)
  <2>1. Done(e, c, k) /\ UNCHANGED tx
      BY <1>3 DEF Adopt
  <2>2. Knows(e, c, "seeded") \/ (UNCHANGED job /\ receipt[c] # k)
    <3>1. CASE receipt[c] \in {None, k}
        BY <1>3, <3>1, FollowLearns DEF Adopt
    <3>2. CASE receipt[c] \notin {None, k}
        BY <1>3, <3>2 DEF Adopt
    <3> QED
        BY <3>1, <3>2
  <2>3. \A f \in Epochs : ~InTx(f, c)
      BY <1>1 DEF Claimed
  <2> QED
      BY <1>1, <2>1, <2>2, <2>3, ResolvedStep
<1> QED
    BY <1>2, <1>3

LEMMA BuryStep ==
    ASSUME LedgerInv, NEW e \in Epochs, NEW c \in Cases, NEW k \in Epochs, Bury(e, c, k)
    PROVE  LedgerInv' /\ (NoLoss /\ TakeoverInv => TakeoverInv')
<1>1. /\ TypeOK /\ drv[e].pc = "burying" /\ ~ChildLocked(c, k) /\ Done(e, c, k)
      /\ child' = [child EXCEPT ![c][k] = IF @ = "open" THEN "interrupted" ELSE @]
      /\ UNCHANGED <<card, attempt, receipt, drv, job, tx>>
    BY DEF LedgerInv, Bury
<1>2. owed' \in [Epochs -> SUBSET Pairs] /\ \A f \in Epochs \ {e} : owed'[f] = owed[f]
    BY <1>1, DoneTyped
<1>3. Others(e) /\ CardStep
    BY <1>1, <1>2, CardStill DEF Others
<1>4. LedgerInv'
  <2>1. CASE child[c][k] = "open"
    <3>1. child' = [child EXCEPT ![c][k] = "interrupted"]
        BY <1>1, <2>1
    <3> QED
        BY <1>1, <1>2, <2>1, <3>1, CloseChild
  <2>2. CASE child[c][k] # "open"
    <3>1. child' = child
        BY <1>1, <2>2, TypeParts
    <3>2. TypeOK'
        BY <1>1, <1>2, <3>1, TypeParts, TypePartsNext
    <3>3. \A f \in Epochs, d \in Cases : InTx(f, d)' => InTx(f, d) /\ tx'[f][d].kid = tx[f][d].kid
        BY <1>1 DEF InTx
    <3>4. \A f \in Epochs, d \in Cases : Undone(f, d)' => Undone(f, d)
        BY <1>1 DEF Undone
    <3> QED
        BY <1>1, <1>3, <3>1, <3>2, <3>3, <3>4, LedgerQuiet
  <2> QED
      BY <2>1, <2>2
<1>5. ASSUME NoLoss, TakeoverInv PROVE TakeoverInv'
  <2>1. TakeoverAt(e) /\ card.status # "open" /\ \A d \in Cases : job[e][d] \notin {"running", "ran", "threw", "lost"}
      BY <1>1, <1>5 DEF TakeoverInv, TakeoverAt, KnowledgeAt, GivenAt, After
  <2>2. TakeoverAt(e)'
      BY <1>1, <2>1 DEF TakeoverAt, KnowledgeAt, ListedAt, AloneAt, OwnedAt, OpenAt, GivenAt, After, InTx
  <2>3. \A d \in Cases : InTx(e, d)' => InTx(e, d) /\ tx'[e][d].kid = tx[e][d].kid
      BY <1>1 DEF InTx
  <2> QED
      BY <1>1, <1>3, <1>5, <2>1, <2>2, <2>3, OthersKeep DEF TakeoverInv
<1> QED
    BY <1>4, <1>5

LEMMA StopChildStep ==
    ASSUME LedgerInv, NEW c \in Cases, NEW k \in Epochs, StopChild(c, k)
    PROVE  LedgerInv' /\ (NoLoss /\ TakeoverInv => TakeoverInv')
<1>1. /\ TypeOK /\ card.status # "open" /\ child[c][k] = "open" /\ ~ChildLocked(c, k)
      /\ child' = [child EXCEPT ![c][k] = "stopped"]
      /\ UNCHANGED <<card, attempt, receipt, drv, job, owed, tx>>
    BY DEF LedgerInv, StopChild, Aborts
<1>2. owed' \in [Epochs -> SUBSET Pairs] /\ Others(k) /\ CardStep
    BY <1>1, TypeParts, CardStill DEF Others
<1>3. LedgerInv'
    BY <1>1, <1>2, CloseChild
<1>4. ASSUME NoLoss, TakeoverInv PROVE TakeoverInv'
  <2>1. TakeoverAt(k) /\ ~Holds(k)
      BY <1>1, <1>4 DEF TakeoverInv, Holds
  <2>2. OpenAt(k)' /\ GivenAt(k)'
      BY <1>1, <2>1 DEF TakeoverAt, OpenAt, GivenAt, Holds
  <2>3. KnowledgeAt(k)' /\ ListedAt(k)' /\ AloneAt(k)' /\ OwnedAt(k)'
      BY <1>1, <2>1 DEF TakeoverAt, KnowledgeAt, ListedAt, AloneAt, OwnedAt, Its, InTx
  <2>4. TakeoverAt(k)'
      BY <2>2, <2>3 DEF TakeoverAt
  <2>5. \A d \in Cases : InTx(k, d)' => InTx(k, d) /\ tx'[k][d].kid = tx[k][d].kid
      BY <1>1 DEF InTx
  <2> QED
      BY <1>1, <1>2, <1>4, <2>4, <2>5, OthersKeep DEF TakeoverInv
<1> QED
    BY <1>3, <1>4

-----------------------------------------------------------------------------
(* COMMIT.                                                                 *)

\* The rows a commit shows keep the ledger's invariant, whatever the driver hears of it.
LEMMA WritesLedger ==
    ASSUME LedgerInv, NEW e \in Epochs, NEW c \in Cases, tx[e][c].st \in {"adopted", "failing"},
           Writes(e, c, tx[e][c].kid, tx[e][c].st = "adopted"), UNCHANGED <<card, drv>>,
           job' \in [Epochs -> [Cases -> Knowing]], owed' \in [Epochs -> SUBSET Pairs],
           tx' \in [Epochs -> [Cases -> Tx]], tx'[e][c].st \in {"none", "unknown"},
           \A f \in Epochs, d \in Cases : <<f, d>> # <<e, c>> => tx'[f][d] = tx[f][d],
           \A f \in Epochs, d \in Cases : Undone(f, d)' => Undone(f, d)
    PROVE  /\ LedgerInv'
           /\ receipt'[c] = tx[e][c].kid
           /\ \A d \in Cases : d # c => receipt'[d] = receipt[d]
           /\ \A d \in Cases, f \in Epochs : d # c => child'[d][f] = child[d][f]
           /\ \A f \in Epochs, d \in Cases : InTx(f, d)' => InTx(f, d) /\ d # c /\ tx'[f][d].kid = tx[f][d].kid
<1> DEFINE k == tx[e][c].kid
           ok == tx[e][c].st = "adopted"
<1>1. TypeOK /\ k \in Epochs /\ k # None /\ InTx(e, c)
    BY TypeParts, Bounds DEF LedgerInv, Tx, InTx
<1>2. receipt[c] = None /\ child[c][k] = "open"
    BY <1>1 DEF LedgerInv, TxSound
<1>3. /\ receipt' \in [Cases -> Epochs \cup {None}] /\ receipt'[c] = k
      /\ \A d \in Cases : d # c => receipt'[d] = receipt[d]
    BY <1>1, TypeParts DEF Writes
<1>4. /\ child' \in [Cases -> [Epochs -> Child]]
      /\ child'[c][k] = IF ok THEN "succeeded" ELSE "failed"
      /\ \A d \in Cases, f \in Epochs : <<d, f>> # <<c, k>> => child'[d][f] = child[d][f]
    BY <1>1, TypeParts DEF Writes, Child, Answers
<1>5. /\ attempt' \in [Cases -> [Epochs -> Attempt]]
      /\ attempt'[c][k] = IF ok THEN "committed" ELSE IF attempt[c][k] = "live" THEN "failed" ELSE attempt[c][k]
      /\ \A d \in Cases, f \in Epochs : <<d, f>> # <<c, k>> => attempt'[d][f] = attempt[d][f]
    BY <1>1, TypeParts DEF Writes, Attempt
<1>6. \A f \in Epochs, d \in Cases : InTx(f, d)' => InTx(f, d) /\ d # c /\ tx'[f][d].kid = tx[f][d].kid
  <2>1. \A f \in Epochs : ~InTx(f, c)'
      BY <1>1 DEF InTx, LedgerInv, OneTx
  <2> QED
      BY <2>1 DEF InTx
<1> HIDE DEF k, ok
<1>7. TypeOK'
    BY <1>1, <1>3, <1>4, <1>5, TypeParts, TypePartsNext
<1>8. OneAnswer'
  <2> SUFFICES ASSUME NEW d \in Cases, NEW f \in Epochs
               PROVE  /\ receipt'[d] = f => child'[d][f] \in Answers
                      /\ child'[d][f] \in Answers => receipt'[d] = f
                      /\ child'[d][f] = "succeeded" <=> attempt'[d][f] = "committed"
      BY DEF OneAnswer
  <2>1. CASE d = c /\ f = k
      BY <1>2, <1>3, <1>4, <1>5, <2>1 DEF LedgerInv, OneAnswer, Answers
  <2>2. CASE d = c /\ f # k
    <3>1. receipt'[d] = k /\ child'[d][f] = child[d][f] /\ attempt'[d][f] = attempt[d][f]
        BY <1>3, <1>4, <1>5, <2>2
    <3>2. child[d][f] \notin Answers /\ (child[d][f] = "succeeded" <=> attempt[d][f] = "committed")
        BY <1>2, <2>2, Bounds DEF LedgerInv, OneAnswer
    <3> QED
        BY <2>2, <3>1, <3>2
  <2>3. CASE d # c
    <3>1. receipt'[d] = receipt[d] /\ child'[d][f] = child[d][f] /\ attempt'[d][f] = attempt[d][f]
        BY <1>3, <1>4, <1>5, <2>3
    <3> QED
        BY <3>1 DEF LedgerInv, OneAnswer
  <2> QED
      BY <2>1, <2>2, <2>3
<1>9. TxSound'
  <2> SUFFICES ASSUME NEW f \in Epochs, NEW d \in Cases, InTx(f, d)'
               PROVE  receipt'[d] = None /\ child'[d][tx'[f][d].kid] = "open"
      BY DEF TxSound
  <2>1. InTx(f, d) /\ d # c /\ tx'[f][d].kid = tx[f][d].kid
      BY <1>6
  <2>2. receipt[d] = None /\ child[d][tx[f][d].kid] = "open" /\ tx[f][d].kid \in Epochs
      BY <1>1, <2>1, TypeParts DEF LedgerInv, TxSound, Tx
  <2> QED
      BY <1>3, <1>4, <2>1, <2>2
<1>10. OneTx'
    BY <1>6 DEF LedgerInv, OneTx
<1>11. Undispatched'
  <2>1. \A d \in Cases, f \in Epochs : child[d][f] = "none" => child'[d][f] = "none"
      BY <1>2, <1>4
  <2> QED
      BY <2>1 DEF LedgerInv, Undispatched
<1>12. Counted' /\ SummaryStands'
    BY <1>1, <1>2, <1>3 DEF LedgerInv, Counted, SummaryStands
<1> QED
    BY <1>3, <1>4, <1>6, <1>7, <1>8, <1>9, <1>10, <1>11, <1>12 DEF LedgerInv, k

LEMMA CommitLandsStep ==
    ASSUME LedgerInv, NEW e \in Epochs, NEW c \in Cases, CommitLands(e, c)
    PROVE  LedgerInv' /\ (NoLoss /\ TakeoverInv => TakeoverInv')
<1> DEFINE k == tx[e][c].kid
<1>1. /\ TypeOK /\ tx[e][c].st \in {"adopted", "failing"} /\ InTx(e, c) /\ k \in Epochs
      /\ Writes(e, c, tx[e][c].kid, tx[e][c].st = "adopted") /\ UNCHANGED <<card, drv>>
    BY TypeParts DEF LedgerInv, CommitLands, InTx, Tx
<1>2. /\ tx' \in [Epochs -> [Cases -> Tx]] /\ tx'[e][c].st = "none"
      /\ \A f \in Epochs, d \in Cases : <<f, d>> # <<e, c>> => tx'[f][d] = tx[f][d]
    BY <1>1, TxDropTyped DEF CommitLands
<1>3. /\ job' \in [Epochs -> [Cases -> Knowing]]
      /\ job'[e][c] = IF drv[e].pc = "seeding" THEN "seeded" ELSE "committed"
      /\ \A f \in Epochs, d \in Cases : <<f, d>> # <<e, c>> => job'[f][d] = job[f][d]
    BY <1>1, KnowsTyped DEF CommitLands, Knowing
<1>4. /\ owed' \in [Epochs -> SUBSET Pairs] /\ owed[e] \ {<<c, k>>} \subseteq owed'[e]
      /\ \A f \in Epochs \ {e} : owed'[f] = owed[f]
  <2>1. CASE drv[e].pc = "seeding"
      BY <1>1, <2>1, DoneTyped DEF CommitLands
  <2>2. CASE drv[e].pc # "seeding"
      BY <1>1, <2>2, TypeParts DEF CommitLands
  <2> QED
      BY <2>1, <2>2
<1> HIDE DEF k
<1>5. \A f \in Epochs, d \in Cases : Undone(f, d)' => Undone(f, d)
    BY <1>1, <1>3 DEF Undone
<1>6. /\ LedgerInv' /\ receipt'[c] = k
      /\ \A d \in Cases : d # c => receipt'[d] = receipt[d]
      /\ \A d \in Cases, f \in Epochs : d # c => child'[d][f] = child[d][f]
      /\ \A f \in Epochs, d \in Cases : InTx(f, d)' => InTx(f, d) /\ d # c /\ tx'[f][d].kid = tx[f][d].kid
    BY <1>1, <1>2, <1>3, <1>4, <1>5, WritesLedger DEF k
<1>7. Others(e) /\ CardStep
    BY <1>1, <1>2, <1>3, <1>4, <1>6, OnlyAt, CardStill DEF LedgerInv
<1>8. ASSUME NoLoss, TakeoverInv PROVE TakeoverInv'
  <2>1. TakeoverAt(e)
      BY <1>8 DEF TakeoverInv
  <2>2. \A d \in Cases : /\ d # c => job'[e][d] = job[e][d] /\ tx'[e][d] = tx[e][d]
                         /\ tx'[e][d].st = "unknown" => d # c /\ tx[e][d].st = "unknown"
      BY <1>2, <1>3
  <2>3. KnowledgeAt(e)'
      BY <1>1, <1>2, <1>3, <2>1, <2>2 DEF TakeoverAt, KnowledgeAt
  <2>4. ListedAt(e)'
    <3> SUFFICES ASSUME card.epoch = e, drv[e].pc = "seeding", NEW d \in Cases
                 PROVE  /\ \A f \in Epochs : InTx(f, d)' => <<d, tx'[f][d].kid>> \in owed'[e]
                        /\ receipt'[d] # None => job'[e][d] = "seeded" \/ <<d, receipt'[d]>> \in owed'[e]
        BY <1>1 DEF ListedAt
    <3>1. CASE d = c
        BY <1>3, <1>6, <3>1
    <3>2. CASE d # c
        BY <1>4, <1>6, <2>1, <2>2, <3>2 DEF TakeoverAt, ListedAt
    <3> QED
        BY <3>1, <3>2
  <2>5. AloneAt(e)'
      BY <1>1, <1>6, <2>1, <2>2 DEF TakeoverAt, AloneAt
  <2>6. OwnedAt(e)'
    <3>1. \A d \in Cases : Its(e, d)' => d # c /\ Its(e, d)
        BY <1>3 DEF Its
    <3> QED
        BY <1>1, <1>6, <2>1, <3>1 DEF TakeoverAt, OwnedAt
  <2>7. OpenAt(e)' /\ GivenAt(e)'
      BY <1>1, <1>3, <1>6, <2>1, <2>2 DEF TakeoverAt, OpenAt, GivenAt, Holds
  <2>8. TakeoverAt(e)'
      BY <2>3, <2>4, <2>5, <2>6, <2>7 DEF TakeoverAt
  <2>9. /\ \A d \in Cases : receipt'[d] = receipt[d] \/ (InTx(e, d) /\ receipt'[d] = tx[e][d].kid)
        /\ \A d \in Cases, f \in Epochs \ {e} : child[d][f] = "open" /\ child'[d][f] # "open" => InTx(e, d)
      BY <1>1, <1>6 DEF k
  <2> QED
      BY <1>6, <1>7, <1>8, <2>8, <2>9, OthersKeep DEF TakeoverInv
<1> QED
    BY <1>6, <1>8

\* The connection fails after COMMIT.
LEMMA ThrowsAfterStep ==
    ASSUME LedgerInv, NEW e \in Epochs, NEW c \in Cases, tx[e][c].st \in {"adopted", "failing"},
           Writes(e, c, tx[e][c].kid, tx[e][c].st = "adopted"), Rollback(e, c), UNCHANGED <<card, drv, owed>>
    PROVE  LedgerInv' /\ (NoLoss /\ TakeoverInv => TakeoverInv')
<1> DEFINE k == tx[e][c].kid
<1>1. TypeOK /\ InTx(e, c) /\ k \in Epochs /\ owed' \in [Epochs -> SUBSET Pairs]
    BY TypeParts DEF LedgerInv, InTx, Tx
<1>2. /\ job' \in [Epochs -> [Cases -> Knowing]] /\ tx' \in [Epochs -> [Cases -> Tx]]
      /\ drv[e].pc = "seeding" => tx'[e][c].st = "unknown" /\ job'[e][c] = job[e][c]
      /\ drv[e].pc # "seeding" => tx'[e][c].st = "none" /\ job'[e][c] = "unwritten"
      /\ \A f \in Epochs, d \in Cases : <<f, d>> # <<e, c>> => job'[f][d] = job[f][d] /\ tx'[f][d] = tx[f][d]
    BY <1>1, RollbackTyped
<1> HIDE DEF k
<1>3. \A f \in Epochs, d \in Cases : Undone(f, d)' => Undone(f, d)
    BY <1>2 DEF Undone
<1>4. tx'[e][c].st \in {"none", "unknown"}
    BY <1>2
<1>5. /\ LedgerInv' /\ receipt'[c] = k
      /\ \A d \in Cases : d # c => receipt'[d] = receipt[d]
      /\ \A d \in Cases, f \in Epochs : d # c => child'[d][f] = child[d][f]
      /\ \A f \in Epochs, d \in Cases : InTx(f, d)' => InTx(f, d) /\ d # c /\ tx'[f][d].kid = tx[f][d].kid
    BY <1>1, <1>2, <1>3, <1>4, WritesLedger DEF k
<1>6. Others(e) /\ CardStep
    BY <1>1, <1>2, <1>5, OnlyAt, CardStill DEF LedgerInv
<1>7. ASSUME NoLoss, TakeoverInv PROVE TakeoverInv'
  <2>1. TakeoverAt(e)
      BY <1>7 DEF TakeoverInv
  <2>2. \A d \in Cases : /\ d # c => job'[e][d] = job[e][d] /\ tx'[e][d] = tx[e][d]
                         /\ job'[e][d] = job[e][d] \/ job'[e][d] = "unwritten"
      BY <1>2
  <2>3. KnowledgeAt(e)'
      BY <1>2, <2>1, <2>2 DEF TakeoverAt, KnowledgeAt
  <2>4. ListedAt(e)'
    <3> SUFFICES ASSUME card.epoch = e, drv[e].pc = "seeding", NEW d \in Cases
                 PROVE  /\ \A f \in Epochs : InTx(f, d)' => <<d, tx'[f][d].kid>> \in owed[e]
                        /\ receipt'[d] # None => job'[e][d] = "seeded" \/ <<d, receipt'[d]>> \in owed[e]
        BY DEF ListedAt
    <3>1. CASE d = c
        BY <1>1, <1>5, <2>1, <3>1 DEF TakeoverAt, ListedAt, k
    <3>2. CASE d # c
        BY <1>5, <2>1, <2>2, <3>2 DEF TakeoverAt, ListedAt
    <3> QED
        BY <3>1, <3>2
  <2>5. AloneAt(e)'
      BY <1>5, <2>1, <2>2 DEF TakeoverAt, AloneAt
  <2>6. OwnedAt(e)'
    <3>1. drv[e].pc \in After => \A d \in Cases : Its(e, d)' => d # c /\ Its(e, d)
        BY <1>2 DEF Its, After
    <3> QED
        BY <1>5, <2>1, <3>1 DEF TakeoverAt, OwnedAt
  <2>7. OpenAt(e)'
    <3>1. \A d \in Cases : job'[e][d] \in {"running", "ran", "threw"} => d # c /\ job[e][d] = job'[e][d]
        BY <1>2, <2>1, <2>2 DEF TakeoverAt, KnowledgeAt, After
    <3> QED
        BY <1>5, <2>1, <3>1 DEF TakeoverAt, OpenAt, Holds
  <2>8. GivenAt(e)'
      BY <2>1, <2>2 DEF TakeoverAt, GivenAt, Holds
  <2>9. TakeoverAt(e)'
      BY <2>3, <2>4, <2>5, <2>6, <2>7, <2>8 DEF TakeoverAt
  <2>10. /\ \A d \in Cases : receipt'[d] = receipt[d] \/ (InTx(e, d) /\ receipt'[d] = tx[e][d].kid)
         /\ \A d \in Cases, f \in Epochs \ {e} : child[d][f] = "open" /\ child'[d][f] # "open" => InTx(e, d)
      BY <1>1, <1>5 DEF k
  <2> QED
      BY <1>5, <1>6, <1>7, <2>9, <2>10, OthersKeep DEF TakeoverInv
<1> QED
    BY <1>5, <1>7

LEMMA CommitThrowsStep ==
    ASSUME LedgerInv, NEW e \in Epochs, NEW c \in Cases, CommitThrows(e, c)
    PROVE  LedgerInv' /\ (NoLoss /\ TakeoverInv => TakeoverInv')
<1>1. Rollback(e, c) /\ UNCHANGED <<card, drv, owed>> /\ (InTx(e, c) \/ job[e][c] \in {"ran", "threw"})
    BY DEF CommitThrows
<1>2. CASE UNCHANGED Rows
    BY <1>1, <1>2, RollbackStep DEF Rows
<1>3. CASE tx[e][c].st \in {"adopted", "failing"} /\ Writes(e, c, tx[e][c].kid, tx[e][c].st = "adopted")
    BY <1>1, <1>3, ThrowsAfterStep
<1> QED
    BY <1>2, <1>3 DEF CommitThrows

-----------------------------------------------------------------------------
(* The batch changes hands, or is stopped.                                 *)

LEMMA ClaimStep ==
    ASSUME LedgerInv, NEW e \in Epochs, Claim(e)
    PROVE  LedgerInv' /\ (NoLoss /\ TakeoverInv => TakeoverInv')
<1>1. /\ TypeOK /\ drv[e].pc = "none" /\ Goes(e, "claimed") /\ card' = [card EXCEPT !.epoch = e]
      /\ card.status = "open" /\ UNCHANGED <<child, attempt, receipt, job, owed, tx>>
    BY DEF LedgerInv, Claim, Rows
<1>2. card' \in Card /\ card'.epoch = e /\ card'.status = card.status
    BY <1>1, TypeParts DEF Card
<1>3. drv' \in [Epochs -> Driver] /\ drv'[e].pc = "claimed" /\ \A f \in Epochs \ {e} : drv'[f] = drv[f]
    BY <1>1, GoesTyped DEF Moves
<1>4. TypeOK'
    BY <1>1, <1>2, <1>3, TypeParts, TypePartsNext
<1>5. LedgerInv'
  <2>1. OneAnswer' /\ TxSound' /\ OneTx'
      BY <1>1 DEF LedgerInv, OneAnswer, TxSound, OneTx, InTx
  <2>2. \A f \in Epochs, c \in Cases : Undone(f, c)' => Undone(f, c)
      BY <1>1, <1>3 DEF Undone, Before
  <2>3. Undispatched' /\ Counted'
      BY <1>1, <1>3, <2>2 DEF LedgerInv, Undispatched, Counted
  <2>4. SummaryStands'
      BY <1>1, <1>2 DEF SummaryStands
  <2> QED
      BY <1>4, <2>1, <2>3, <2>4 DEF LedgerInv
<1>6. ASSUME NoLoss, TakeoverInv PROVE TakeoverInv'
  <2> SUFFICES ASSUME NEW f \in Epochs PROVE TakeoverAt(f)'
      BY DEF TakeoverInv
  <2>1. TakeoverAt(f)
      BY <1>6 DEF TakeoverInv
  <2>2. CASE f = e
    <3>1. \A c \in Cases : job[e][c] \notin {"running", "ran", "threw", "lost"} /\ tx[e][c].st # "unknown"
        BY <1>1, <2>1, <2>2 DEF TakeoverAt, KnowledgeAt, After
    <3> QED
        BY <1>1, <1>3, <2>2, <3>1
        DEF TakeoverAt, KnowledgeAt, ListedAt, AloneAt, OwnedAt, OpenAt, GivenAt, After
  <2>3. CASE f # e
    <3>1. drv'[f] = drv[f] /\ ~Holds(f)' /\ card'.epoch # f
        BY <1>2, <1>3, <2>3 DEF Holds
    <3> QED
        BY <1>1, <1>2, <2>1, <3>1 DEF TakeoverAt, KnowledgeAt, ListedAt, AloneAt, OwnedAt, OpenAt, GivenAt
  <2> QED
      BY <2>2, <2>3
<1> QED
    BY <1>5, <1>6

LEMMA CancelStep ==
    ASSUME LedgerInv, Cancel
    PROVE  LedgerInv' /\ (NoLoss /\ TakeoverInv => TakeoverInv')
<1>1. /\ TypeOK /\ card' = [card EXCEPT !.status = "cancelled"] /\ 0 \in Epochs
      /\ UNCHANGED <<child, attempt, receipt, drv, job, owed, tx>>
    BY Bounds DEF LedgerInv, Cancel, Rows
<1>2. card' \in Card /\ CardStep /\ card'.status = "cancelled" /\ card'.epoch = card.epoch
    BY <1>1, StatusTyped
<1>3. TypeOK' /\ Others(0)
    BY <1>1, <1>2, TypeParts, TypePartsNext DEF Others
<1>4. \A d \in Cases : (Undone(0, d)' => Undone(0, d)) /\ (InTx(0, d)' => InTx(0, d) /\ tx'[0][d].kid = tx[0][d].kid)
    BY <1>1 DEF Undone, InTx
<1>5. ASSUME NoLoss, TakeoverInv PROVE TakeoverAt(0)'
  <2>1. TakeoverAt(0) /\ ~Holds(0)'
      BY <1>1, <1>2, <1>5 DEF TakeoverInv, Holds
  <2>2. KnowledgeAt(0)' /\ ListedAt(0)' /\ AloneAt(0)' /\ OwnedAt(0)'
      BY <1>1, <1>2, <2>1 DEF TakeoverAt, KnowledgeAt, ListedAt, AloneAt, OwnedAt, Its, InTx
  <2>3. OpenAt(0)' /\ GivenAt(0)'
      BY <1>1, <1>2, <2>1 DEF OpenAt, GivenAt
  <2> QED
      BY <2>2, <2>3 DEF TakeoverAt
<1> QED
    BY <1>1, <1>2, <1>3, <1>4, <1>5, DriverStep

-----------------------------------------------------------------------------
(* The specification.                                                      *)

LEMMA InitHolds == Init => LedgerInv /\ TakeoverInv
<1> SUFFICES ASSUME Init PROVE LedgerInv /\ TakeoverInv
    OBVIOUS
<1>1. /\ card.status = "open" /\ card.epoch = 0 /\ card \in Card
      /\ \A c \in Cases : receipt[c] = None
      /\ \A c \in Cases, e \in Epochs : child[c][e] = "none" /\ attempt[c][e] = "none"
    BY Bounds DEF Init, Card
<1>2. /\ \A e \in Epochs : drv[e].pc = (IF e = 0 THEN "seeding" ELSE "none")
      /\ \A e \in Epochs, c \in Cases : job[e][c] = "todo" /\ tx[e][c].st = "none"
    BY NoTxTyped DEF Init, Gone, Fresh
<1>3. TypeOK
  <2>1. drv \in [Epochs -> Driver]
      BY DEF Init, Gone, Driver
  <2>2. tx \in [Epochs -> [Cases -> Tx]]
      BY NoTxTyped DEF Init
  <2>3. /\ child \in [Cases -> [Epochs -> Child]] /\ attempt \in [Cases -> [Epochs -> Attempt]]
        /\ receipt \in [Cases -> Epochs \cup {None}]
        /\ job \in [Epochs -> [Cases -> Knowing]] /\ owed \in [Epochs -> SUBSET Pairs]
      BY DEF Init, Fresh, Child, Attempt, Knowing
  <2> QED
      BY <1>1, <2>1, <2>2, <2>3, TypeParts
<1>4. LedgerInv
    BY <1>1, <1>2, <1>3, Bounds
    DEF LedgerInv, OneAnswer, Answers, TxSound, OneTx, InTx, Undispatched, Counted, SummaryStands
<1>5. TakeoverInv
    BY <1>1, <1>2
    DEF TakeoverInv, TakeoverAt, KnowledgeAt, ListedAt, AloneAt, OwnedAt, OpenAt, GivenAt, InTx, After
<1> QED
    BY <1>4, <1>5

LEMMA StutterStep ==
    ASSUME LedgerInv, UNCHANGED vars
    PROVE  LedgerInv' /\ (NoLoss /\ TakeoverInv => TakeoverInv')
<1>1. TypeOK /\ 0 \in Epochs /\ UNCHANGED <<card, child, attempt, receipt, drv, job, owed, tx>>
    BY Bounds DEF LedgerInv, vars
<1>2. TypeOK' /\ Others(0) /\ CardStep
    BY <1>1, CardStill DEF TypeOK, Others
<1>3. \A d \in Cases : (Undone(0, d)' => Undone(0, d)) /\ (InTx(0, d)' => InTx(0, d) /\ tx'[0][d].kid = tx[0][d].kid)
    BY <1>1 DEF Undone, InTx
<1>4. TakeoverInv => TakeoverAt(0)'
  <2> SUFFICES ASSUME TakeoverInv PROVE TakeoverAt(0)'
      OBVIOUS
  <2>1. TakeoverAt(0)
      BY <1>1 DEF TakeoverInv
  <2>2. KnowledgeAt(0)' /\ ListedAt(0)' /\ AloneAt(0)' /\ OwnedAt(0)'
      BY <1>1, <2>1 DEF TakeoverAt, KnowledgeAt, ListedAt, AloneAt, OwnedAt, Its, InTx
  <2>3. OpenAt(0)' /\ GivenAt(0)'
      BY <1>1, <2>1 DEF TakeoverAt, OpenAt, GivenAt, Holds
  <2> QED
      BY <2>2, <2>3 DEF TakeoverAt
<1> QED
    BY <1>1, <1>2, <1>3, <1>4, DriverStep

LEMMA NextStep ==
    ASSUME LedgerInv, [Next]_vars
    PROVE  LedgerInv' /\ (NoLoss /\ TakeoverInv => TakeoverInv')
<1>1. CASE UNCHANGED vars
    BY <1>1, StutterStep
<1>2. CASE Cancel
    BY <1>2, CancelStep
<1>3. CASE \E c \in Cases, k \in Epochs : StopChild(c, k)
    BY <1>3, StopChildStep
<1>4. ASSUME NEW e \in Epochs,
             \/ Claim(e) \/ Signal(e) \/ Crash(e)
             \/ Defer(e) \/ Tombstone(e) \/ Discharge(e) \/ SettleThrows(e)
      PROVE  LedgerInv' /\ (NoLoss /\ TakeoverInv => TakeoverInv')
    BY <1>4, ClaimStep, DeferStep, TombstoneStep, DischargeStep, SettleThrowsStep, SignalStep, CrashStep
<1>5. ASSUME NEW e \in Epochs, Step(e)
      PROVE  LedgerInv' /\ (NoLoss /\ TakeoverInv => TakeoverInv')
  <2>1. CASE \/ List(e) \/ Buried(e) \/ Start(e) \/ SuiteReturns(e)
             \/ Join(e) \/ SettleBatch(e) \/ Reclaim(e) \/ Attach(e)
      BY <2>1, ListStep, BuriedStep, StartStep, SuiteReturnsStep, JoinStep, SettleBatchStep, ReclaimStep, AttachStep
  <2>2. ASSUME NEW c \in Cases,
               \/ Readback(e, c) \/ Dispatch(e, c) \/ Return(e, c) \/ Fail(e, c)
               \/ CommitCase(e, c) \/ AdoptAttempt(e, c) \/ CommitLands(e, c) \/ CommitThrows(e, c)
        PROVE  LedgerInv' /\ (NoLoss /\ TakeoverInv => TakeoverInv')
      BY <2>2, ReadbackStep, DispatchStep, ReturnStep, FailStep,
         CommitCaseStep, AdoptAttemptStep, CommitLandsStep, CommitThrowsStep
  <2>3. ASSUME NEW c \in Cases, NEW k \in Epochs,
               Interrupt(e, c, k) \/ Adopt(e, c, k) \/ PassOver(e, c, k) \/ Bury(e, c, k)
        PROVE  LedgerInv' /\ (NoLoss /\ TakeoverInv => TakeoverInv')
      BY <2>3, InterruptStep, AdoptStep, PassOverStep, BuryStep
  <2> QED
      BY <1>5, <2>1, <2>2, <2>3 DEF Step
<1> QED
    BY <1>1, <1>2, <1>3, <1>4, <1>5 DEF Next

\* The ledger's invariant holds under every fault, and whatever takes the batch over.
THEOREM LedgerKept == Spec => []LedgerInv
<1>1. Init => LedgerInv
    BY InitHolds
<1>2. LedgerInv /\ [Next]_vars => LedgerInv'
    BY NextStep
<1> QED
    BY <1>1, <1>2, PTL DEF Spec

\* Every variable keeps its type.
THEOREM SettlementTypes == Spec => []TypeOK
<1>1. LedgerInv => TypeOK
    BY DEF LedgerInv
<1> QED
    BY <1>1, LedgerKept, PTL

\* Receipt, child and attempt of a case tell one story (settleChildOn, adoptAtSettlement
\* and the receipt's unique key), for any number of takeovers, crashes and lost commits.
THEOREM LedgersAgree == Spec => []OneAnswer
<1>1. LedgerInv => OneAnswer
    BY DEF LedgerInv
<1> QED
    BY <1>1, LedgerKept, PTL

\* A batch settled as succeeded counts the answer of every case, and the ledger's.
THEOREM SummariesStand == Spec => []SummaryStands
<1>1. LedgerInv => SummaryStands
    BY DEF LedgerInv
<1> QED
    BY <1>1, LedgerKept, PTL

\* What one step may do to the batch's status.
StatusStep ==
    /\ card.status \in Answers => card'.status = card.status
    /\ card.status \in Aborts => card'.status \in Aborts

\* A step that leaves the receipts, or adds one to a case that had none.
ReceiptStep == \A c \in Cases : receipt[c] # None => receipt'[c] = receipt[c]

LEMMA StatusSteps ==
    ASSUME TypeOK, [Next]_vars
    PROVE  StatusStep
<1>1. card \in Card
    BY TypeParts
<1>2. CASE card' = card
    BY <1>2 DEF StatusStep
<1>3. CASE card.status = "open"
    BY <1>3 DEF StatusStep, Answers, Aborts
<1>4. ASSUME NEW e \in Epochs, card' = Stopped(e) PROVE StatusStep
  <2>1. CASE Attachable(e)
    <3>1. card.status \notin Answers
        BY <2>1 DEF Attachable, Answers, Aborts
    <3>2. card'.status \in {"cancelled", "superseded"}
        BY <1>1, <1>4, <2>1 DEF Stopped, Card
    <3> QED
        BY <3>1, <3>2 DEF StatusStep, Aborts
  <2>2. CASE ~Attachable(e)
      BY <1>2, <1>4, <2>2 DEF Stopped
  <2> QED
      BY <2>1, <2>2
<1>5. \/ card' = card \/ card.status = "open" \/ \E e \in Epochs : card' = Stopped(e)
  <2>1. ASSUME NEW e \in Epochs, Step(e) \/ Claim(e) \/ Defer(e) \/ Tombstone(e) \/ Discharge(e)
                                 \/ SettleThrows(e) \/ Signal(e) \/ Crash(e)
        PROVE  card' = card \/ card.status = "open" \/ card' = Stopped(e)
    <3>1. CASE Claim(e) \/ Defer(e) \/ Tombstone(e) \/ Discharge(e) \/ Signal(e) \/ Crash(e)
        BY <3>1 DEF Claim, Defer, Tombstone, Discharge, Signal, Crash, Holds
    <3>5. CASE SettleThrows(e)
        BY <3>5 DEF SettleThrows, Verdict, Holds
    <3>2. CASE List(e) \/ Buried(e) \/ Start(e) \/ SuiteReturns(e) \/ Join(e) \/ SettleBatch(e) \/ Reclaim(e) \/ Attach(e)
        BY <3>2 DEF List, Buried, Start, SuiteReturns, Join, SettleBatch, Verdict, Reclaim, Attach, Holds
    <3>3. ASSUME NEW c \in Cases,
                 \/ Readback(e, c) \/ Dispatch(e, c) \/ Return(e, c) \/ Fail(e, c)
                 \/ CommitCase(e, c) \/ AdoptAttempt(e, c) \/ CommitLands(e, c) \/ CommitThrows(e, c)
          PROVE  card' = card
        BY <3>3 DEF Readback, Dispatch, Return, Fail, CommitCase, AdoptAttempt, CommitLands, CommitThrows
    <3>4. ASSUME NEW c \in Cases, NEW k \in Epochs,
                 Interrupt(e, c, k) \/ Adopt(e, c, k) \/ PassOver(e, c, k) \/ Bury(e, c, k)
          PROVE  card' = card
        BY <3>4 DEF Interrupt, Adopt, PassOver, Bury
    <3> QED
        BY <2>1, <3>1, <3>2, <3>3, <3>4, <3>5 DEF Step
  <2>2. CASE UNCHANGED vars \/ Cancel \/ \E c \in Cases, k \in Epochs : StopChild(c, k)
      BY <2>2 DEF vars, Cancel, StopChild
  <2> QED
      BY <2>1, <2>2 DEF Next
<1> QED
    BY <1>2, <1>3, <1>4, <1>5

\* The five ways in which a step may change the children and the receipts.
RowStep ==
    \/ UNCHANGED <<child, receipt>>
    \/ \E e \in Epochs, c \in Cases :
          /\ drv[e].pc = "driving" /\ job[e][c] = "todo" /\ Holds(e)
          /\ child' = [child EXCEPT ![c][e] = "open"] /\ UNCHANGED receipt
    \/ \E e \in Epochs, c \in Cases :
          InTx(e, c) /\ Writes(e, c, tx[e][c].kid, tx[e][c].st = "adopted")
    \/ \E c \in Cases, k \in Epochs, s \in {"interrupted", "stopped"} :
          child[c][k] = "open" /\ child' = [child EXCEPT ![c][k] = s] /\ UNCHANGED receipt
    \/ \E c \in Cases, k \in Epochs :
          child' = [child EXCEPT ![c][k] = IF @ = "open" THEN "interrupted" ELSE @] /\ UNCHANGED receipt

LEMMA RowSteps ==
    ASSUME [Next]_vars
    PROVE  RowStep
<1>1. CASE UNCHANGED vars \/ Cancel
    BY <1>1 DEF vars, Cancel, Rows, RowStep
<1>2. ASSUME NEW c \in Cases, NEW k \in Epochs, StopChild(c, k) PROVE RowStep
    BY <1>2 DEF StopChild, RowStep
<1>3. ASSUME NEW e \in Epochs,
             \/ Claim(e) \/ Signal(e) \/ Crash(e)
             \/ Defer(e) \/ Tombstone(e) \/ Discharge(e) \/ SettleThrows(e)
      PROVE  UNCHANGED <<child, receipt>>
    BY <1>3 DEF Claim, Defer, Tombstone, Discharge, SettleThrows, Signal, Crash, Rows
<1>4. ASSUME NEW e \in Epochs, Step(e) PROVE RowStep
  <2>1. CASE List(e) \/ Buried(e) \/ Start(e) \/ SuiteReturns(e) \/ Join(e) \/ SettleBatch(e) \/ Reclaim(e) \/ Attach(e)
    <3>1. UNCHANGED <<child, receipt>>
        BY <2>1 DEF List, Buried, Start, SuiteReturns, Join, SettleBatch, Reclaim, Attach, Rows
    <3> QED
        BY <3>1 DEF RowStep
  <2>2. ASSUME NEW c \in Cases,
               Readback(e, c) \/ Return(e, c) \/ Fail(e, c) \/ CommitCase(e, c) \/ AdoptAttempt(e, c)
        PROVE  UNCHANGED <<child, receipt>>
      BY <2>2 DEF Readback, Return, Fail, CommitCase, AdoptAttempt, Rows
  <2>3. ASSUME NEW c \in Cases, Dispatch(e, c) PROVE RowStep
      BY <2>3 DEF Dispatch, RowStep
  <2>4. ASSUME NEW c \in Cases, CommitLands(e, c) \/ CommitThrows(e, c) PROVE RowStep
    <3>1. \/ UNCHANGED <<child, receipt>>
          \/ InTx(e, c) /\ Writes(e, c, tx[e][c].kid, tx[e][c].st = "adopted")
        BY <2>4 DEF CommitLands, CommitThrows, InTx, Rows
    <3> QED
        BY <3>1 DEF RowStep
  <2>5. ASSUME NEW c \in Cases, NEW k \in Epochs, Interrupt(e, c, k) \/ Adopt(e, c, k) \/ PassOver(e, c, k)
        PROVE  RowStep
    <3>1. /\ UNCHANGED receipt
          /\ child' = child \/ (child[c][k] = "open" /\ child' = [child EXCEPT ![c][k] = "interrupted"])
        BY <2>5 DEF Interrupt, Adopt, PassOver, Rows
    <3> QED
        BY <3>1 DEF RowStep
  <2>6. ASSUME NEW c \in Cases, NEW k \in Epochs, Bury(e, c, k) PROVE RowStep
      BY <2>6 DEF Bury, RowStep
  <2> QED
      BY <1>4, <2>1, <2>2, <2>3, <2>4, <2>5, <2>6 DEF Step, RowStep
<1> QED
    BY <1>1, <1>2, <1>3, <1>4 DEF Next, RowStep

\* The first terminal write of a batch wins (the fences of settle, cancel and
\* settleAborted), and the answer of a case is never replaced.
THEOREM FirstTerminalHolds == Spec => FirstTerminalWins
<1>1. ASSUME LedgerInv, [Next]_vars PROVE StatusStep /\ ReceiptStep
  <2>1. TypeOK
      BY <1>1 DEF LedgerInv
  <2>2. ReceiptStep
    <3>1. CASE UNCHANGED receipt
        BY <3>1 DEF ReceiptStep
    <3>2. ASSUME NEW e \in Epochs, NEW c \in Cases, InTx(e, c),
                 Writes(e, c, tx[e][c].kid, tx[e][c].st = "adopted")
          PROVE  ReceiptStep
      <4>1. receipt[c] = None
          BY <1>1, <3>2 DEF LedgerInv, TxSound
      <4>2. \A d \in Cases : d # c => receipt'[d] = receipt[d]
          BY <2>1, <3>2, TypeParts DEF Writes
      <4> QED
          BY <4>1, <4>2 DEF ReceiptStep
    <3> QED
        BY <1>1, <3>1, <3>2, RowSteps DEF RowStep
  <2> QED
      BY <1>1, <2>1, <2>2, StatusSteps
<1> DEFINE A == /\ card.status \in Answers => card'.status = card.status
                /\ card.status \in Aborts => card'.status \in Aborts
                /\ \A c \in Cases : receipt[c] # None => receipt'[c] = receipt[c]
<1>2. LedgerInv /\ [Next]_vars => [A]_vars
    BY <1>1 DEF StatusStep, ReceiptStep
<1>3. Spec => [][A]_vars
    BY <1>2, LedgerKept, PTL DEF Spec
<1> QED
    BY <1>3 DEF FirstTerminalWins

-----------------------------------------------------------------------------
(* The refinement of BatchContract.                                        *)

\* A summary is written by the batch's success alone.
Unreported == card.status # "succeeded" => \A c \in Cases : card.summary[c] = None

\* What one step may do to the batch: nothing that the contract sees, or an end, which
\* leaves the rows of the cases alone.
BatchMove ==
    \/ card'.status = card.status /\ card'.summary = card.summary
    \/ /\ UNCHANGED <<child, receipt>>
       /\ card.status = "open" /\ card'.status = "succeeded" /\ card'.summary = receipt
       /\ \A c \in Cases : receipt[c] # None
    \/ /\ UNCHANGED <<child, receipt>>
       /\ card.status = "open" /\ card'.status = "failed" /\ card'.summary = card.summary
    \/ /\ UNCHANGED <<child, receipt>>
       /\ card.status \in {"open"} \cup Aborts /\ card'.status \in Aborts /\ card'.summary = card.summary

LEMMA VerdictMoves ==
    ASSUME LedgerInv, NEW e \in Epochs, drv[e].pc \in {"settling", "failing"}, card' = Verdict(e),
           UNCHANGED <<child, receipt>>
    PROVE  BatchMove
<1>1. card \in Card
    BY TypeParts DEF LedgerInv
<1>2. CASE card' = card
    BY <1>2 DEF BatchMove
<1>3. CASE Holds(e) /\ drv[e].pc = "failing" /\ card' = [card EXCEPT !.status = "failed"]
    BY <1>1, <1>3 DEF BatchMove, Holds, Card
<1>4. CASE Holds(e) /\ drv[e].pc = "settling" /\ card' = [card EXCEPT !.status = "succeeded", !.summary = receipt]
  <2>1. \A c \in Cases : receipt[c] # None
      BY <1>4 DEF LedgerInv, Counted
  <2> QED
      BY <1>1, <1>4, <2>1 DEF BatchMove, Holds, Card
<1> QED
    BY <1>2, <1>3, <1>4 DEF Verdict

LEMMA StoppedMoves ==
    ASSUME LedgerInv, NEW e \in Epochs, card' = Stopped(e), UNCHANGED <<child, receipt>>
    PROVE  BatchMove
<1>1. card \in Card
    BY TypeParts DEF LedgerInv
<1>2. CASE ~Attachable(e)
    BY <1>2 DEF Stopped, BatchMove
<1>3. CASE Attachable(e)
    BY <1>1, <1>3 DEF Stopped, Attachable, BatchMove, Card, Aborts
<1> QED
    BY <1>2, <1>3

LEMMA EndMoves ==
    ASSUME LedgerInv, NEW e \in Epochs, SettleBatch(e) \/ Attach(e) \/ SettleThrows(e)
    PROVE  BatchMove
<1>1. UNCHANGED <<child, receipt>>
    BY DEF SettleBatch, Attach, SettleThrows, Rows
<1>2. \/ card' = card
      \/ drv[e].pc \in {"settling", "failing"} /\ card' = Verdict(e)
      \/ card' = Stopped(e)
    BY DEF SettleBatch, Attach, SettleThrows
<1>3. CASE card' = card
    BY <1>3 DEF BatchMove
<1> QED
    BY <1>1, <1>2, <1>3, VerdictMoves, StoppedMoves

LEMMA BatchMoves ==
    ASSUME LedgerInv, [Next]_vars
    PROVE  BatchMove
<1>1. card \in Card
    BY TypeParts DEF LedgerInv
<1>2. CASE card' = card
    BY <1>2 DEF BatchMove
<1>3. ASSUME NEW e \in Epochs, Claim(e) PROVE BatchMove
    BY <1>1, <1>3 DEF Claim, BatchMove, Card
<1>4. ASSUME NEW e \in Epochs, Tombstone(e) PROVE BatchMove
    BY <1>1, <1>2, <1>4 DEF Tombstone, Rows, Holds, BatchMove, Card
<1>5. CASE Cancel
    BY <1>1, <1>5 DEF Cancel, Rows, BatchMove, Card, Aborts
<1>6. ASSUME NEW e \in Epochs, Step(e) PROVE BatchMove
  <2>1. CASE List(e) \/ Buried(e) \/ Start(e) \/ SuiteReturns(e) \/ Join(e) \/ Reclaim(e)
      BY <1>2, <2>1 DEF List, Buried, Start, SuiteReturns, Join, Reclaim
  <2>2. ASSUME NEW c \in Cases,
               \/ Readback(e, c) \/ Dispatch(e, c) \/ Return(e, c) \/ Fail(e, c)
               \/ CommitCase(e, c) \/ AdoptAttempt(e, c) \/ CommitLands(e, c) \/ CommitThrows(e, c)
        PROVE  card' = card
      BY <2>2 DEF Readback, Dispatch, Return, Fail, CommitCase, AdoptAttempt, CommitLands, CommitThrows
  <2>3. ASSUME NEW c \in Cases, NEW k \in Epochs,
               Interrupt(e, c, k) \/ Adopt(e, c, k) \/ PassOver(e, c, k) \/ Bury(e, c, k)
        PROVE  card' = card
      BY <2>3 DEF Interrupt, Adopt, PassOver, Bury
  <2> QED
      BY <1>2, <1>6, <2>1, <2>2, <2>3, EndMoves DEF Step
<1>7. ASSUME NEW e \in Epochs, Defer(e) \/ Discharge(e) \/ Signal(e) \/ Crash(e) PROVE card' = card
    BY <1>7 DEF Defer, Discharge, Signal, Crash
<1>8. CASE UNCHANGED vars \/ \E c \in Cases, k \in Epochs : StopChild(c, k)
    BY <1>2, <1>8 DEF vars, StopChild
<1> QED
    BY <1>2, <1>3, <1>4, <1>5, <1>6, <1>7, <1>8, EndMoves DEF Next

\* What one step may do to the answers: one case gets its first, or nothing happens to them.
Answering ==
    /\ card.status # "succeeded"
    /\ \E c \in Cases : /\ receipt[c] = None
                        /\ AnswerOf(c)' \in {"succeeded", "failed"}
                        /\ \A d \in Cases \ {c} : AnswerOf(d)' = AnswerOf(d)
Resting == /\ receipt' = receipt
           /\ \A c \in Cases : receipt[c] # None => child'[c][receipt[c]] = child[c][receipt[c]]

LEMMA AnswersMove ==
    ASSUME LedgerInv, [Next]_vars
    PROVE  Resting \/ Answering
<1>1. /\ child \in [Cases -> [Epochs -> Child]] /\ receipt \in [Cases -> Epochs \cup {None}]
      /\ \A c \in Cases : receipt[c] # None => receipt[c] \in Epochs /\ child[c][receipt[c]] \in Answers
    BY TypeParts DEF LedgerInv, OneAnswer
<1>2. "open" \notin Answers /\ "none" \notin Answers
    BY DEF Answers
<1>3. CASE UNCHANGED <<child, receipt>>
    BY <1>3 DEF Resting
<1>4. ASSUME NEW e \in Epochs, NEW c \in Cases,
             drv[e].pc = "driving" /\ job[e][c] = "todo",
             child' = [child EXCEPT ![c][e] = "open"], UNCHANGED receipt
      PROVE  Resting
  <2>1. child[c][e] = "none"
      BY <1>4 DEF LedgerInv, Undispatched, Undone
  <2> QED
      BY <1>1, <1>2, <1>4, <2>1 DEF Resting
<1>5. ASSUME NEW e \in Epochs, NEW c \in Cases,
             InTx(e, c), Writes(e, c, tx[e][c].kid, tx[e][c].st = "adopted")
      PROVE  Answering
  <2>1. receipt[c] = None
      BY <1>5 DEF LedgerInv, TxSound
  <2>2. tx[e][c].kid \in Epochs /\ tx[e][c].kid # None
      BY Bounds, TypeParts DEF LedgerInv, Tx
  <2>3. receipt'[c] = tx[e][c].kid /\ child'[c][tx[e][c].kid] \in {"succeeded", "failed"}
      BY <1>1, <1>5, <2>2 DEF Writes
  <2>4. \A d \in Cases \ {c} : receipt'[d] = receipt[d] /\ child'[d] = child[d]
      BY <1>1, <1>5 DEF Writes
  <2>5. AnswerOf(c)' \in {"succeeded", "failed"} /\ \A d \in Cases \ {c} : AnswerOf(d)' = AnswerOf(d)
      BY <2>2, <2>3, <2>4 DEF AnswerOf, None
  <2>6. card.status # "succeeded"
      BY <2>1 DEF LedgerInv, SummaryStands
  <2> QED
      BY <2>1, <2>5, <2>6 DEF Answering
<1>6. ASSUME NEW c \in Cases, NEW k \in Epochs, NEW s \in {"interrupted", "stopped"},
             child[c][k] = "open", child' = [child EXCEPT ![c][k] = s], UNCHANGED receipt
      PROVE  Resting
    BY <1>1, <1>2, <1>6 DEF Resting
<1>7. ASSUME NEW c \in Cases, NEW k \in Epochs,
             child' = [child EXCEPT ![c][k] = IF @ = "open" THEN "interrupted" ELSE @], UNCHANGED receipt
      PROVE  Resting
    BY <1>1, <1>2, <1>7 DEF Resting
<1> QED
    BY <1>3, <1>4, <1>5, <1>6, <1>7, RowSteps DEF RowStep

LEMMA UnreportedHolds == Spec => []Unreported
<1>1. Init => Unreported
  <2> SUFFICES ASSUME Init, NEW c \in Cases PROVE card.summary[c] = None
      BY DEF Unreported
  <2>1. card.summary = [d \in Cases |-> None]
      BY DEF Init
  <2> QED
      BY <2>1
<1>2. LedgerInv /\ Unreported /\ [Next]_vars => Unreported'
    BY BatchMoves DEF BatchMove, Unreported, Aborts
<1> QED
    BY <1>1, <1>2, LedgerKept, PTL DEF Spec

\* The batch implements its contract under every fault, for any cases and any number of
\* takeovers: answers come one at a time and stay, and what a batch that succeeded
\* reports is all of them (commitCase, settleChildOn, the terminal write of the batch).
THEOREM BatchKeepsContract == Spec => KeepsBatchContract
<1>1. Init => Contract!Init
  <2> SUFFICES ASSUME Init PROVE Contract!Init
      OBVIOUS
  <2>1. \A c \in Cases : AnswerOf(c) = "none" /\ ReportOf(c) = "none"
      BY DEF Init, AnswerOf, ReportOf
  <2>2. card.status = "open"
      BY DEF Init
  <2> QED
      BY <2>1, <2>2 DEF Contract!Init, Contract!Unanswered
<1>2. LedgerInv /\ LedgerInv' /\ Unreported /\ [Next]_vars => [Contract!Next]_(Contract!vars)
  <2> SUFFICES ASSUME LedgerInv, LedgerInv', Unreported, [Next]_vars
               PROVE  [Contract!Next]_(Contract!vars)
      OBVIOUS
  <2> DEFINE a == [c \in Cases |-> AnswerOf(c)]
             r == [c \in Cases |-> ReportOf(c)]
  <2>1. CASE Resting /\ card'.status = card.status /\ card'.summary = card.summary
    <3>1. a' = a
        BY <2>1 DEF Resting, AnswerOf, None
    <3>2. \A c \in Cases : ReportOf(c)' = ReportOf(c)
      <4>1. CASE card.status = "succeeded"
          BY <2>1, <4>1 DEF Resting, ReportOf, LedgerInv, SummaryStands, None
      <4>2. CASE card.status # "succeeded"
          BY <2>1, <4>2 DEF Unreported, ReportOf, None
      <4> QED
          BY <4>1, <4>2
    <3>3. r' = r
        BY <3>2
    <3> QED
        BY <2>1, <3>1, <3>3 DEF Contract!vars
  <2>2. CASE Answering /\ card'.status = card.status /\ card'.summary = card.summary
    <3>1. PICK c \in Cases : /\ receipt[c] = None
                             /\ AnswerOf(c)' \in {"succeeded", "failed"}
                             /\ \A d \in Cases \ {c} : AnswerOf(d)' = AnswerOf(d)
        BY <2>2 DEF Answering
    <3>2. a[c] = "none" /\ a' = [a EXCEPT ![c] = AnswerOf(c)']
        BY <3>1 DEF AnswerOf
    <3>3. card.status # "succeeded"
        BY <2>2 DEF Answering
    <3>4. r' = r
        BY <2>2, <3>3 DEF Unreported, ReportOf, None
    <3>5. Contract!Answer(c)
        BY <2>2, <3>1, <3>2, <3>3, <3>4 DEF Contract!Answer
    <3> QED
        BY <3>5 DEF Contract!Next
  <2>3. CASE /\ UNCHANGED <<child, receipt>>
             /\ card.status = "open" /\ card'.status = "succeeded" /\ card'.summary = receipt
             /\ \A c \in Cases : receipt[c] # None
    <3>1. a' = a
        BY <2>3 DEF AnswerOf, None
    <3>2. r' = a
        BY <2>3 DEF AnswerOf, ReportOf, None
    <3>3. \A c \in Cases : a[c] # "none"
        BY <2>3, TypeParts DEF AnswerOf, LedgerInv, OneAnswer, Answers
    <3>4. Contract!Succeed
        BY <2>3, <3>1, <3>2, <3>3 DEF Contract!Succeed
    <3> QED
        BY <3>4 DEF Contract!Next
  <2>4. CASE /\ UNCHANGED <<child, receipt>> /\ card'.summary = card.summary
             /\ \/ card.status = "open" /\ card'.status = "failed"
                \/ card.status \in {"open"} \cup Aborts /\ card'.status \in Aborts
    <3>1. a' = a /\ r' = r
        BY <2>4 DEF AnswerOf, ReportOf, None
    <3>2. Contract!Fail \/ Contract!Stop
        BY <2>4, <3>1 DEF Contract!Fail, Contract!Stop, Contract!Stops, Aborts
    <3> QED
        BY <3>2 DEF Contract!Next
  <2> QED
      BY <2>1, <2>2, <2>3, <2>4, BatchMoves, AnswersMove DEF BatchMove
<1> QED
    BY <1>1, <1>2, LedgerKept, UnreportedHolds, PTL DEF Spec, KeepsBatchContract, Contract!Spec

-----------------------------------------------------------------------------
\* The takeover's invariant, where inserts of children and adoptions do not fail.
THEOREM TakeoverKept ==
    ASSUME NoLoss
    PROVE  Spec => [](LedgerInv /\ TakeoverInv)
<1>1. Init => LedgerInv /\ TakeoverInv
    BY InitHolds
<1>2. LedgerInv /\ TakeoverInv /\ [Next]_vars => LedgerInv' /\ TakeoverInv'
    BY NextStep
<1> QED
    BY <1>1, <1>2, PTL DEF Spec

\* No driver ends while the batch is open and its own: the silent ends of the driver
\* (a lost case, a refused start, a stale read) leave the batch to somebody else.
THEOREM NobodyStrands ==
    ASSUME NoLoss
    PROVE  Spec => []NeverStranded
<1>1. TakeoverInv => NeverStranded
    BY DEF TakeoverInv, TakeoverAt, GivenAt, NeverStranded
<1> QED
    BY <1>1, TakeoverKept, PTL

\* No driver opens a child for a case that has its receipt, although the commit of the
\* driver before it may land during the recovery.
THEOREM NobodyPaysTwice ==
    ASSUME NoLoss
    PROVE  Spec => NoRework
<1> DEFINE A == \A c \in Cases, k \in Epochs :
                   child[c][k] = "none" /\ child'[c][k] = "open" => receipt[c] = None
<1>1. ASSUME LedgerInv, TakeoverInv, [Next]_vars PROVE A
  <2> SUFFICES ASSUME NEW c \in Cases, NEW k \in Epochs, child[c][k] = "none", child'[c][k] = "open"
               PROVE  receipt[c] = None
      OBVIOUS
  <2>1. child \in [Cases -> [Epochs -> Child]] /\ \A e \in Epochs, d \in Cases : tx[e][d].kid \in Epochs
    <3>1. child \in [Cases -> [Epochs -> Child]] /\ tx \in [Epochs -> [Cases -> Tx]]
        BY <1>1, TypeParts DEF LedgerInv
    <3>2. \A x \in Tx : x.kid \in Epochs
        BY DEF Tx
    <3> QED
        BY <3>1, <3>2
  <2>2. ASSUME NEW e \in Epochs, NEW d \in Cases, drv[e].pc = "driving", job[e][d] = "todo", Holds(e),
               child' = [child EXCEPT ![d][e] = "open"]
        PROVE  receipt[c] = None
    <3>1. d = c
        BY <2>1, <2>2
    <3> QED
        BY <1>1, <2>2, <3>1 DEF TakeoverInv, TakeoverAt, OwnedAt, Its, Holds, After
  <2>3. ASSUME NEW e \in Epochs, NEW d \in Cases, Writes(e, d, tx[e][d].kid, tx[e][d].st = "adopted")
        PROVE  FALSE
      BY <2>1, <2>3 DEF Writes
  <2>4. ASSUME NEW d \in Cases, NEW f \in Epochs, NEW s \in {"interrupted", "stopped"},
               child' = [child EXCEPT ![d][f] = s]
        PROVE  FALSE
      BY <2>1, <2>4
  <2>5. ASSUME NEW d \in Cases, NEW f \in Epochs,
               child' = [child EXCEPT ![d][f] = IF @ = "open" THEN "interrupted" ELSE @]
        PROVE  FALSE
      BY <2>1, <2>5
  <2> QED
      BY <1>1, <2>2, <2>3, <2>4, <2>5, RowSteps DEF RowStep
<1>2. LedgerInv /\ TakeoverInv /\ [Next]_vars => [A]_vars
    BY <1>1
<1>3. Spec => [][A]_vars
    BY <1>2, TakeoverKept, PTL DEF Spec
<1> QED
    BY <1>3 DEF NoRework
=============================================================================
