--------------------------- MODULE EventConsumers ---------------------------
(***************************************************************************)
(* The platform-event log and its durable consumers (EventConsumerRunner,  *)
(* PgPlatformEventStore, PgEventConsumerStateStore).  Facts enter the log  *)
(* by transactions that draw their sequence number when they insert and    *)
(* show it when they commit, in any order.  Every replica runs a runner, on a timer and  *)
(* on nudges, and all of them walk the same persisted cursor of a          *)
(* consumer.                                                               *)
(*                                                                         *)
(* A runner gives its thread up at every store call and at every handler.  *)
(* A fact is its sequence number; what a handler does with it is left out, *)
(* and whether it throws is open.  late is a history variable no step      *)
(* reads.                                                                  *)
(***************************************************************************)
EXTENDS Naturals, FiniteSets

CONSTANTS Replicas,
          Last,           \* the facts are 1 .. Last
          Consumers,      \* how many consumers are registered: 1 .. Consumers
          Wants,          \* Wants[c]: the facts of the kinds a consumer asks for
          Batch,          \* facts per page
          MaxAttempts     \* deliveries of a fact before it is parked

Facts == 1 .. Last
Names == 1 .. Consumers

ASSUME ConsumersAssumption ==
    /\ Last \in Nat /\ Consumers \in Nat \ {0} /\ Batch \in Nat \ {0} /\ MaxAttempts \in Nat \ {0}
    /\ Wants \in [Names -> SUBSET Facts]

VARIABLES
    log,       \* log[e]: the state of the transaction that drew e
    late,      \* late[c]: the facts that became visible after a later one c asks for (history)
    next,      \* the sequence: the last number it gave out
    cursor,    \* cursor[c]: everdict_event_cursors
    handled,   \* handled[c]: the facts c's handler returned from
    letters,   \* letters[c]: everdict_event_dead_letters
    unwritten, \* unwritten[c]: the facts whose dead letter could not be written
    walk,      \* walk[r]: the drain of a replica's runner
    store      \* whether the database answers

vars == <<log, late, next, cursor, handled, letters, unwritten, walk, store>>

Walk == [pc : {"down", "idle", "cursor", "list", "deliver", "park", "save"},
         on : Names,              \* the consumer it is at
         from : 0 .. Last,        \* the cursor it read
         page : SUBSET Facts,     \* the facts of the page still to do
         full : BOOLEAN,          \* whether the page was a whole batch
         tries : 0 .. MaxAttempts]
Resting == [pc |-> "idle", on |-> 1, from |-> 0, page |-> {}, full |-> FALSE, tries |-> 0]

TypeOK ==
    /\ log \in [Facts -> {"unused", "open", "committed", "aborted"}]
    /\ late \in [Names -> SUBSET Facts]
    /\ next \in 0 .. Last
    /\ cursor \in [Names -> 0 .. Last]
    /\ handled \in [Names -> SUBSET Facts]
    /\ letters \in [Names -> SUBSET Facts]
    /\ unwritten \in [Names -> SUBSET Facts]
    /\ walk \in [Replicas -> Walk]
    /\ store \in {"up", "down"}

Init ==
    /\ log = [e \in Facts |-> "unused"]
    /\ late = [c \in Names |-> {}]
    /\ next = 0
    /\ cursor = [c \in Names |-> 0]
    /\ handled = [c \in Names |-> {}]
    /\ letters = [c \in Names |-> {}]
    /\ unwritten = [c \in Names |-> {}]
    /\ walk = [r \in Replicas |-> Resting]
    /\ store = "up"

-----------------------------------------------------------------------------
(* The log.                                                                *)

\* A transaction inserts its fact and draws the next number; nobody sees it yet.
Append ==
    /\ next < Last /\ store = "up"
    /\ next' = next + 1
    /\ log' = [log EXCEPT ![next + 1] = "open"]
    /\ UNCHANGED <<late, cursor, handled, letters, unwritten, walk, store>>

\* What a consumer asks for of what there is to see.
Wanted(c) == {e \in Wants[c] : log[e] = "committed"}

\* Transactions overlap, and commit in any order of their numbers.
Commit(e) ==
    /\ log[e] = "open"
    /\ log' = [log EXCEPT ![e] = "committed"]
    /\ late' = [c \in Names |-> IF \E d \in Wanted(c) : d > e THEN late[c] \cup {e} ELSE late[c]]
    /\ UNCHANGED <<next, cursor, handled, letters, unwritten, walk, store>>

Abort(e) ==
    /\ log[e] = "open"
    /\ log' = [log EXCEPT ![e] = "aborted"]
    /\ UNCHANGED <<late, next, cursor, handled, letters, unwritten, walk, store>>

-----------------------------------------------------------------------------
(* The runner.                                                             *)

At(r) == walk[r].on
Moves(r, w) == walk' = [walk EXCEPT ![r] = w]

\* runConsumer() returned or threw: the drain goes on with the next consumer.
Onward(w) ==
    IF w.on < Consumers THEN [Resting EXCEPT !.pc = "cursor", !.on = w.on + 1] ELSE Resting

\* drain(), by the timer or a nudge: one at a time within a process.
Drain(r) ==
    /\ walk[r].pc = "idle"
    /\ Moves(r, [Resting EXCEPT !.pc = "cursor"])
    /\ UNCHANGED <<log, late, next, cursor, handled, letters, unwritten, store>>

GetCursor(r) ==
    /\ walk[r].pc = "cursor" /\ store = "up"
    /\ Moves(r, [walk[r] EXCEPT !.pc = "list", !.from = cursor[At(r)]])
    /\ UNCHANGED <<log, late, next, cursor, handled, letters, unwritten, store>>

\* listAll(): the first facts past the cursor that are committed by now.
IsPage(page, all) ==
    /\ page \subseteq all
    /\ \A e \in page, d \in all : d < e => d \in page
    /\ page = all \/ Cardinality(page) = Batch
    /\ Cardinality(page) <= Batch

List(r) ==
    /\ walk[r].pc = "list" /\ store = "up"
    /\ \E page \in SUBSET {e \in Wanted(At(r)) : e > walk[r].from} :
          /\ IsPage(page, {e \in Wanted(At(r)) : e > walk[r].from})
          /\ Moves(r, IF page = {} THEN Onward(walk[r])
                      ELSE [walk[r] EXCEPT !.pc = "deliver", !.page = page, !.tries = 0,
                                           !.full = Cardinality(page) = Batch])
    /\ UNCHANGED <<log, late, next, cursor, handled, letters, unwritten, store>>

\* The fact of the page whose turn it is.
Turn(r, e) == e \in walk[r].page /\ \A d \in walk[r].page : e <= d

\* deliver(): the handler returns, or throws and is called again up to MaxAttempts.
Handle(r, e) ==
    /\ walk[r].pc = "deliver" /\ Turn(r, e)
    /\ handled' = [handled EXCEPT ![At(r)] = @ \cup {e}]
    /\ Moves(r, [walk[r] EXCEPT !.pc = "save"])
    /\ UNCHANGED <<log, late, next, cursor, letters, unwritten, store>>

\* Mutant: one delivery too many.
ThrowOnceMore(r) ==
    /\ walk[r].pc = "deliver"
    /\ LET n == walk[r].tries + 1
       IN Moves(r, [walk[r] EXCEPT !.tries = n, !.pc = IF n <= MaxAttempts THEN "deliver" ELSE "park"])
    /\ UNCHANGED <<log, late, next, cursor, handled, letters, unwritten, store>>

Throw(r) ==
    /\ walk[r].pc = "deliver"
    /\ LET n == walk[r].tries + 1
       IN Moves(r, [walk[r] EXCEPT !.tries = n, !.pc = IF n < MaxAttempts THEN "deliver" ELSE "park"])
    /\ UNCHANGED <<log, late, next, cursor, handled, letters, unwritten, store>>

\* recordDeadLetter(), whose failure is swallowed.
Park(r, e) ==
    /\ walk[r].pc = "park" /\ Turn(r, e)
    /\ IF store = "up" THEN /\ letters' = [letters EXCEPT ![At(r)] = @ \cup {e}]
                            /\ UNCHANGED unwritten
                       ELSE /\ unwritten' = [unwritten EXCEPT ![At(r)] = @ \cup {e}]
                            /\ UNCHANGED letters
    /\ Moves(r, [walk[r] EXCEPT !.pc = "save"])
    /\ UNCHANGED <<log, late, next, cursor, handled, store>>

\* setCursor(), an unconditional upsert; then the next fact, page or consumer.
AfterSave(w, e) ==
    IF w.page # {e} THEN [w EXCEPT !.pc = "deliver", !.page = @ \ {e}, !.tries = 0]
    ELSE IF w.full THEN [Resting EXCEPT !.pc = "cursor", !.on = w.on]
    ELSE Onward(w)

\* Mutants: the cursor is set past the whole page; the one that was read is written back.
SetCursorAhead(r, e) ==
    /\ walk[r].pc = "save" /\ Turn(r, e) /\ store = "up"
    /\ \E d \in walk[r].page : /\ \A p \in walk[r].page : p <= d
                               /\ cursor' = [cursor EXCEPT ![At(r)] = d]
    /\ Moves(r, AfterSave(walk[r], e))
    /\ UNCHANGED <<log, late, next, handled, letters, unwritten, store>>
SetCursorStale(r, e) ==
    /\ walk[r].pc = "save" /\ Turn(r, e) /\ store = "up"
    /\ cursor' = [cursor EXCEPT ![At(r)] = walk[r].from]
    /\ Moves(r, AfterSave(walk[r], e))
    /\ UNCHANGED <<log, late, next, handled, letters, unwritten, store>>

SetCursor(r, e) ==
    /\ walk[r].pc = "save" /\ Turn(r, e) /\ store = "up"
    /\ cursor' = [cursor EXCEPT ![At(r)] = e]
    /\ Moves(r, AfterSave(walk[r], e))
    /\ UNCHANGED <<log, late, next, handled, letters, unwritten, store>>

\* A store call throws out of runConsumer(); drain() swallows it.
StoreThrows(r) ==
    /\ walk[r].pc \in {"cursor", "list", "save"} /\ store = "down"
    /\ Moves(r, Onward(walk[r]))
    /\ UNCHANGED <<log, late, next, cursor, handled, letters, unwritten, store>>

Crash(r) ==
    /\ walk[r].pc # "down"
    /\ Moves(r, [Resting EXCEPT !.pc = "down"])
    /\ UNCHANGED <<log, late, next, cursor, handled, letters, unwritten, store>>

Restart(r) ==
    /\ walk[r].pc = "down"
    /\ Moves(r, Resting)
    /\ UNCHANGED <<log, late, next, cursor, handled, letters, unwritten, store>>

Outage == store = "up" /\ store' = "down" /\ UNCHANGED <<log, late, next, cursor, handled, letters, unwritten, walk>>
Repair == store = "down" /\ store' = "up" /\ UNCHANGED <<log, late, next, cursor, handled, letters, unwritten, walk>>

-----------------------------------------------------------------------------
Step(r) ==
    \/ Drain(r) \/ GetCursor(r) \/ List(r) \/ Throw(r) \/ StoreThrows(r)
    \/ \E e \in Facts : Handle(r, e) \/ Park(r, e) \/ SetCursor(r, e)

Next ==
    \/ Append \/ Outage \/ Repair
    \/ \E e \in Facts : Commit(e) \/ Abort(e)
    \/ \E r \in Replicas : Step(r) \/ Crash(r) \/ Restart(r)

Spec == Init /\ [][Next]_vars

\* The consumer answered for the fact: handled it, parked it, or was refused the letter.
Answered(c) == handled[c] \cup letters[c] \cup unwritten[c]

\* What a consumer asks for, but for the facts that committed behind a later one.
Timely(c) == Wanted(c) \ late[c]

\* No timely fact is left behind: whatever replicas crash, rewind each other's cursor or
\* walk stale pages, and whichever transactions overlap, each committed fact at or below
\* a consumer's cursor was handed to its handler and handled, or given up after the
\* attempts, unless it became visible when a later one already was.
NothingLeftBehind ==
    \A c \in Names : \A e \in Timely(c) : e <= cursor[c] => e \in Answered(c)

\* "backpressure shows up as cursor lag, never as dropped facts" (event-consumer-runner.ts:70):
\* where no drain is under way, every committed fact a cursor has passed was answered for.
\* A fact that commits behind one that the cursor has passed breaks it.
NeverDropped ==
    (\A r \in Replicas : walk[r].pc \in {"idle", "down"})
       => \A c \in Names : \A e \in Wanted(c) : e <= cursor[c] => e \in Answered(c)

-----------------------------------------------------------------------------
(* Liveness.  A process that is up takes its steps.  Nothing makes one      *)
(* stay up or the database answer.                                          *)
FairSpec == Spec /\ \A r \in Replicas : WF_vars(Step(r))

\* While one replica stays up and the database answers, every consumer catches up
\* with the log again and again, although the other replicas crash and set its
\* cursor back to where their stale pages stand, and although handlers always throw.
CatchesUp ==
    \A r \in Replicas, c \in Names :
       <>[](walk[r].pc # "down" /\ store = "up") => []<>(\A e \in Wanted(c) : e <= cursor[c])
=============================================================================
