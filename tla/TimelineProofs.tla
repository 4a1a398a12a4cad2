--------------------------- MODULE TimelineProofs ---------------------------
(***************************************************************************)
(* What holds of a channel's log and its readers for every number of       *)
(* steps, turns and rows, every page size and every bound: no row is       *)
(* skipped for a coworker, the stream a browser follows implements the     *)
(* abstract timeline step by step, and what the timeline shows is true of  *)
(* the producers: outcomes are durable, text is the provider's, documents  *)
(* are not guessed.                                                        *)
(***************************************************************************)
EXTENDS Timeline, FiniteSetTheorems, SequenceTheorems, TLAPS

-----------------------------------------------------------------------------
(***************************************************************************)
(* Sets of sequences, their greatest member, and runs of sequences.        *)
(***************************************************************************)

\* Every set of integers within bounds has a last one.
LEMMA LastSequence ==
    ASSUME NEW a \in Int, NEW b \in Int, NEW S \in SUBSET (a..b), S # {}
    PROVE  \E s \in S : \A r \in S : r <= s
<1> DEFINE T == {s..b : s \in S}
<1>1. IsFiniteSet(a..b)
    BY FS_Interval
<1>2. IsWellFoundedOn(StrictSubsetOrdering(a..b), SUBSET (a..b))
    BY <1>1, FS_StrictSubsetOrderingWellFounded, FS_FiniteSubsetsOfFinite
<1>3. T \subseteq SUBSET (a..b) /\ T # {}
  <2>1. \A s \in S : s..b \in SUBSET (a..b)
      OBVIOUS
  <2> QED BY <2>1
<1>4. PICK x \in T : \A y \in T : <<y, x>> \notin StrictSubsetOrdering(a..b)
  <2> HIDE DEF T
  <2> QED BY <1>2, <1>3, WFMin
<1>5. PICK s \in S : x = s..b
    OBVIOUS
<1>6. ASSUME NEW r \in S, ~ (r <= s) PROVE FALSE
  <2>1. r..b \in T /\ r..b \in SUBSET (a..b) /\ s..b \in SUBSET (a..b)
      BY <1>3
  <2>2. r..b \subseteq s..b /\ s \notin r..b /\ s \in s..b
      BY <1>6
  <2>3. <<r..b, s..b>> \in StrictSubsetOrdering(a..b)
      BY <2>1, <2>2 DEF StrictSubsetOrdering
  <2> QED BY <1>4, <1>5, <2>1, <2>3
<1> QED BY <1>6

\* What Max picks.
LEMMA MaxIsLast ==
    ASSUME NEW a \in Int, NEW b \in Int, NEW S \in SUBSET (a..b), S # {}
    PROVE  Max(S) \in S /\ \A r \in S : r <= Max(S)
<1>1. PICK s \in S : \A r \in S : r <= s
    BY LastSequence
<1>2. \A r \in S : s >= r
    BY <1>1
<1>3. \E x \in S : \A y \in S : x >= y
    BY <1>2
<1>4. Max(S) \in S /\ \A y \in S : Max(S) >= y
    BY <1>3 DEF Max
<1> QED BY <1>4

-----------------------------------------------------------------------------
(***************************************************************************)
(* The log.  Whatever happens, it stays as it is or grows by one row.      *)
(***************************************************************************)

IsLog == log \in Seq({log[i] : i \in 1 .. Len(log)})

LogStays == log' = log
LogGrows ==
    /\ Len(log') = Len(log) + 1
    /\ \A i \in 1 .. Len(log) : log'[i] = log[i]

\* A row is appended to whatever rows there are.
LEMMA AppendingGrows ==
    ASSUME IsLog, NEW e, InsertDurableEvent(e)
    PROVE  LogGrows /\ IsLog'
<1> DEFINE R == {log[i] : i \in 1 .. Len(log)} \cup {e}
<1>1. log \in Seq(R) /\ e \in R
    BY DEF IsLog
<1> HIDE DEF R
<1>2. log' = Append(log, e)
    BY DEF InsertDurableEvent
<1>3. /\ log' \in Seq(R) /\ Len(log') = Len(log) + 1
      /\ \A i \in 1 .. Len(log) : log'[i] = log[i]
    BY <1>1, <1>2, AppendProperties
<1>4. IsLog'
    BY <1>3 DEF IsLog
<1> QED BY <1>3, <1>4 DEF LogGrows

\* The mirror writes at most one row at a time.
LEMMA MirrorStepLog ==
    ASSUME IsLog, MirrorStep
    PROVE  (LogStays \/ LogGrows) /\ IsLog'
<1>1. CASE UNCHANGED logVars
    BY <1>1 DEF logVars, LogStays, IsLog
<1>2. CASE \E e : appendChannelEvent(e)
    BY <1>2, AppendingGrows DEF appendChannelEvent
<1>3. ASSUME NEW c \in Tab, writeEvent(c) PROVE UNCHANGED logVars \/ \E e : appendChannelEvent(e)
    BY <1>3 DEF writeEvent
<1>4. ASSUME NEW c \in Tab,
             \/ ProviderEmits(StepOf(c)) \/ prepareRun(c)
             \/ pollTrueForgeTurnEvents(c) \/ captureTrueForgeRequiredActions(c)
             \/ persistAgUiSandboxArtifacts(c) \/ recordAgUiArtifactProjectionFailure(c)
             \/ ingestAndMap(c) \/ NothingToWrite(c) \/ MirrorRefuses(c) \/ CallThrows(c)
      PROVE  UNCHANGED logVars
    BY <1>4 DEF ProviderEmits, prepareRun, pollTrueForgeTurnEvents, captureTrueForgeRequiredActions,
                persistAgUiSandboxArtifacts, recordAgUiArtifactProjectionFailure, ingestAndMap,
                NothingToWrite, MirrorRefuses, CallThrows
<1> QED BY <1>1, <1>2, <1>3, <1>4 DEF MirrorStep

\* The producers of documents write at most one row at a time.
LEMMA ProducingLog ==
    ASSUME IsLog, Producing
    PROVE  (LogStays \/ LogGrows) /\ IsLog'
<1>1. CASE PatchDocument(TheStep)
    BY <1>1 DEF PatchDocument, logVars, LogStays, IsLog
<1>2. ASSUME NEW lane \in Step, RecordDocument(lane, TheStep)
      PROVE  \E e : appendComponentBrokerChannelProjectionInTx(e)
    BY <1>2 DEF RecordDocument
<1>3. CASE \E e : appendComponentBrokerChannelProjectionInTx(e)
    BY <1>3, AppendingGrows DEF appendComponentBrokerChannelProjectionInTx
<1> QED BY <1>1, <1>2, <1>3 DEF Producing

\* Building contexts and moving the cursor write nothing; the channel goes on.
LEMMA InformingLog ==
    ASSUME IsLog, Informing
    PROVE  (LogStays \/ LogGrows) /\ IsLog'
<1>1. CASE CursorStep
  <2>1. UNCHANGED logVars
      BY <1>1 DEF CursorStep, SessionChanges, buildChannelContextForTurn, TurnCreated,
                  advanceSessionDeliveryCursor, setSessionDeliveryCursor
  <2> QED BY <2>1 DEF logVars, LogStays, IsLog
<1>2. CASE appendChannelEvent(Plain("message.created", TheStep))
    BY <1>2, AppendingGrows DEF appendChannelEvent
<1> QED BY <1>1, <1>2 DEF Informing

\* The stream reads.
LEMMA StreamStepLog ==
    ASSUME StreamStep
    PROVE  log' = log
BY DEF StreamStep, ReadPage, applyEventPage, bufferEnvelope, FlushBuffered, GoLive, PollTick,
       connect, onChannelEvent, listChannelMessages, mergeMessages, Disconnect, ApiRestart,
       Reopen, publish, logVars

\* A row written for the browser to follow.
LEMMA RecordRowLog ==
    ASSUME IsLog, RecordRow
    PROVE  LogGrows /\ IsLog'
<1>1. PICK e : InsertDurableEvent(e)
    BY DEF RecordRow, appendChannelEvent, appendComponentBrokerChannelProjectionInTx
<1> QED BY <1>1, AppendingGrows

\* So the log only ever grows, row by row.
LEMMA StepLog ==
    ASSUME IsLog, [Next]_vars
    PROVE  (LogStays \/ LogGrows) /\ IsLog'
<1>1. CASE Following
    BY <1>1, StreamStepLog, RecordRowLog DEF Following, LogStays, IsLog
<1>2. CASE UNCHANGED vars
    BY <1>2 DEF vars, LogStays, IsLog
<1>3. CASE Mirroring
    BY <1>3, MirrorStepLog DEF Mirroring
<1> QED BY <1>1, <1>2, <1>3, ProducingLog, InformingLog DEF Next

-----------------------------------------------------------------------------
(***************************************************************************)
(* The delivery cursor.  A turn about to move it was created before, and   *)
(* what its context held without a gap was delivered with it.              *)
(***************************************************************************)

TurnRow == [at : {"none", "built", "created", "advancing", "done"}, deltas : SUBSET Nat,
            creation : TurnCreation, next : Nat]

CursorTypes ==
    /\ IsLog
    /\ cursor \in Nat
    /\ turn \in [Turn -> TurnRow]
    /\ \A t \in Turn : turn[t].deltas \subseteq Seqs

\* The turn exists, so its context has reached the coworker.
Exists(t) == turn[t].creation \in {"confirmed", "reconciled"}

CreatedIsDelivered ==
    \A t \in Turn : turn[t].at = "created" /\ Exists(t) => turn[t].deltas \subseteq delivered

AdvancesOverDelivered ==
    \A t \in Turn : turn[t].at = "advancing" => 1 .. turn[t].next \subseteq delivered

CursorInv ==
    /\ CursorTypes
    /\ CreatedIsDelivered
    /\ AdvancesOverDelivered
    /\ 1 .. cursor \subseteq delivered

\* A context is made of rows of the log.
LEMMA DeltasAreRows ==
    ASSUME NEW n
    PROVE  recentDeltas(n) \subseteq Seqs
BY DEF recentDeltas, listEventsAfter

\* Whatever sequence the envelope is said to deliver through, the rows up to it continue the
\* cursor without a gap.
LEMMA DeliveredThroughIsGapless ==
    ASSUME NEW m \in Nat, NEW deltas \in SUBSET (0..m), NEW last \in Nat, NEW through \in Nat,
           ~ (through > envelopeDeliveredThroughSequence(deltas, last))
    PROVE  \A s \in last + 1 .. through : s \in deltas
<1> DEFINE run == {s \in deltas : s > last /\ \A r \in last + 1 .. s : r \in deltas}
<1>1. CASE run = {}
  <2>1. through <= last
      BY <1>1 DEF envelopeDeliveredThroughSequence
  <2> QED BY <2>1
<1>2. CASE run # {}
  <2>1. ~ (through > Max(run))
      BY <1>2 DEF envelopeDeliveredThroughSequence
  <2>2. Max(run) \in run
    <3>1. run \subseteq deltas
        OBVIOUS
    <3> HIDE DEF run
    <3>2. run \in SUBSET (0..m) /\ 0 \in Int /\ m \in Int
        BY <3>1
    <3>3. run # {}
        BY <1>2
    <3> QED BY <3>2, <3>3, MaxIsLast
  <2>3. PICK x : x = Max(run)
      OBVIOUS
  <2>4. x \in run /\ ~ (through > x)
      BY <2>1, <2>2, <2>3
  <2>5. x \in Nat /\ \A r \in last + 1 .. x : r \in deltas
      BY <2>4
  <2> QED BY <2>4, <2>5
<1> QED BY <1>1, <1>2

\* Building a context touches only the turn it is for.
LEMMA BuildingKeeps ==
    ASSUME CursorInv, NEW t \in Turn, buildChannelContextForTurn(t)
    PROVE  CursorInv'
<1>1. PICK n \in 0 .. MaxDeltas :
          turn' = [turn EXCEPT ![t].at = "built", ![t].deltas = recentDeltas(n)]
    BY DEF buildChannelContextForTurn
<1>2. log' = log /\ cursor' = cursor /\ delivered' = delivered /\ Len(log) \in Nat
    BY DEF buildChannelContextForTurn, logVars, CursorInv, CursorTypes, IsLog
<1> DEFINE ds == recentDeltas(n)
<1>3. ds \subseteq Seqs /\ ds \in SUBSET Nat
    BY <1>2, DeltasAreRows DEF Seqs
<1> HIDE DEF ds
<1>4. turn \in [Turn -> TurnRow]
    BY DEF CursorInv, CursorTypes
<1>5. /\ turn' \in [Turn -> TurnRow]
      /\ turn'[t].at = "built" /\ turn'[t].deltas = ds
      /\ \A u \in Turn \ {t} : turn'[u] = turn[u]
    BY <1>1, <1>3, <1>4, ZenonT(60) DEF TurnRow, ds
<1>6. CursorTypes'
    BY <1>2, <1>3, <1>5 DEF CursorInv, CursorTypes, IsLog, Seqs
<1>7. CreatedIsDelivered' /\ AdvancesOverDelivered'
    BY <1>2, <1>5 DEF CursorInv, CreatedIsDelivered, AdvancesOverDelivered, Exists
<1> QED BY <1>2, <1>6, <1>7 DEF CursorInv

\* A turn that is found to exist has delivered its context in that very step.
LEMMA CreatingKeeps ==
    ASSUME CursorInv, NEW t \in Turn, TurnCreated(t)
    PROVE  CursorInv'
<1>1. PICK c \in TurnCreation :
          /\ turn' = [turn EXCEPT ![t].at = "created", ![t].creation = c]
          /\ delivered' = IF c \in {"confirmed", "reconciled"}
                          THEN delivered \cup turn[t].deltas ELSE delivered
    BY DEF TurnCreated
<1>2. log' = log /\ cursor' = cursor
    BY DEF TurnCreated, logVars
<1>3. turn \in [Turn -> TurnRow]
    BY DEF CursorInv, CursorTypes
<1>4. /\ turn' \in [Turn -> TurnRow]
      /\ turn'[t].at = "created" /\ turn'[t].deltas = turn[t].deltas /\ turn'[t].creation = c
      /\ \A u \in Turn \ {t} : turn'[u] = turn[u]
    BY <1>1, <1>3, ZenonT(60) DEF TurnRow
<1>5. delivered \subseteq delivered'
    BY <1>1
<1>6. CursorTypes'
    BY <1>2, <1>4 DEF CursorInv, CursorTypes, IsLog, Seqs
<1>7. CreatedIsDelivered'
    BY <1>1, <1>4, <1>5 DEF CursorInv, CreatedIsDelivered, Exists
<1>8. AdvancesOverDelivered'
    BY <1>4, <1>5 DEF CursorInv, AdvancesOverDelivered
<1>9. (1 .. cursor \subseteq delivered)'
    BY <1>2, <1>5 DEF CursorInv
<1> QED BY <1>6, <1>7, <1>8, <1>9 DEF CursorInv

\* The decision to advance is made over what the turn's context held without a gap.
LEMMA DecidingKeeps ==
    ASSUME CursorInv, NEW t \in Turn, advanceSessionDeliveryCursor(t)
    PROVE  CursorInv'
<1>0. Len(log) \in Nat /\ cursor \in Nat /\ turn \in [Turn -> TurnRow]
    BY DEF CursorInv, CursorTypes, IsLog
<1>1. PICK through \in 0 .. Len(log), high \in {0, Len(log) - 1} :
          turn' = [turn EXCEPT
              ![t].at = IF \/ envelopeDeliveredThroughSequence(turn[t].deltas, cursor) > high
                           \/ through > envelopeDeliveredThroughSequence(turn[t].deltas, cursor)
                           \/ through > high
                           \/ nextDeliveryCursor(cursor, through, turn[t].creation) = cursor
                        THEN "done" ELSE "advancing",
              ![t].next = nextDeliveryCursor(cursor, through, turn[t].creation)]
    BY DEF advanceSessionDeliveryCursor
<1> DEFINE cap == envelopeDeliveredThroughSequence(turn[t].deltas, cursor)
           next == nextDeliveryCursor(cursor, through, turn[t].creation)
           at == IF cap > high \/ through > cap \/ through > high \/ next = cursor
                 THEN "done" ELSE "advancing"
<1>2. log' = log /\ cursor' = cursor /\ delivered' = delivered /\ turn[t].at = "created"
    BY DEF advanceSessionDeliveryCursor, logVars
<1>3. /\ next \in Nat /\ through \in Nat
      /\ next # cursor => next = through /\ through > cursor /\ Exists(t)
    BY <1>0 DEF nextDeliveryCursor, Exists
<1>4. ASSUME at = "advancing" PROVE 1 .. next \subseteq delivered
  <2>1. ~ (through > cap) /\ next # cursor
      BY <1>4
  <2>2. next = through /\ through > cursor /\ turn[t].deltas \subseteq delivered
      BY <1>2, <1>3, <2>1 DEF CursorInv, CreatedIsDelivered
  <2>3. turn[t].deltas \in SUBSET (0..Len(log))
      BY <1>0 DEF CursorInv, CursorTypes, Seqs
  <2>4. \A s \in cursor + 1 .. through : s \in turn[t].deltas
      BY <1>0, <1>3, <2>1, <2>3, DeliveredThroughIsGapless
  <2>5. 1 .. cursor \subseteq delivered
      BY DEF CursorInv
  <2> QED BY <1>0, <1>3, <2>2, <2>4, <2>5
<1>5. at \in {"done", "advancing"}
    OBVIOUS
<1>6. turn' = [turn EXCEPT ![t].at = at, ![t].next = next]
    BY <1>1
<1> HIDE DEF at, next, cap
<1>7. /\ turn' \in [Turn -> TurnRow]
      /\ turn'[t].at = at /\ turn'[t].next = next /\ turn'[t].deltas = turn[t].deltas
      /\ \A u \in Turn \ {t} : turn'[u] = turn[u]
    BY <1>0, <1>3, <1>5, <1>6, ZenonT(60) DEF TurnRow
<1>8. CursorTypes'
    BY <1>2, <1>7 DEF CursorInv, CursorTypes, IsLog, Seqs
<1>9. CreatedIsDelivered' /\ AdvancesOverDelivered'
    BY <1>2, <1>4, <1>5, <1>7 DEF CursorInv, CreatedIsDelivered, AdvancesOverDelivered, Exists
<1> QED BY <1>2, <1>8, <1>9 DEF CursorInv

\* The cursor moves to a decided sequence or stays, even if others moved it meanwhile.
LEMMA MovingKeeps ==
    ASSUME CursorInv, NEW t \in Turn, setSessionDeliveryCursor(t)
    PROVE  CursorInv'
<1>1. /\ turn[t].at = "advancing" /\ turn' = [turn EXCEPT ![t].at = "done"]
      /\ cursor' = IF turn[t].next > cursor THEN turn[t].next ELSE cursor
      /\ log' = log /\ delivered' = delivered
    BY DEF setSessionDeliveryCursor, logVars
<1>2. turn \in [Turn -> TurnRow] /\ cursor \in Nat
    BY DEF CursorInv, CursorTypes
<1>3. /\ turn' \in [Turn -> TurnRow]
      /\ turn'[t].at = "done" /\ turn'[t].deltas = turn[t].deltas
      /\ \A u \in Turn \ {t} : turn'[u] = turn[u]
    BY <1>1, <1>2, ZenonT(60) DEF TurnRow
<1>4. turn[t].next \in Nat
    BY <1>2 DEF TurnRow
<1>5. cursor' \in Nat /\ 1 .. cursor' \subseteq delivered
    BY <1>1, <1>2, <1>4 DEF CursorInv, AdvancesOverDelivered
<1>6. CursorTypes'
    BY <1>1, <1>3, <1>5 DEF CursorInv, CursorTypes, IsLog, Seqs
<1>7. CreatedIsDelivered' /\ AdvancesOverDelivered'
    BY <1>1, <1>3 DEF CursorInv, CreatedIsDelivered, AdvancesOverDelivered, Exists
<1> QED BY <1>1, <1>5, <1>6, <1>7 DEF CursorInv

\* Rows that arrive in between disturb nothing.
LEMMA LogKeepsCursor ==
    ASSUME CursorInv, LogStays \/ LogGrows, IsLog', UNCHANGED <<cursor, turn, delivered>>
    PROVE  CursorInv'
<1>1. Len(log) \in Nat /\ Len(log') \in Nat /\ Len(log) <= Len(log')
    BY DEF CursorInv, CursorTypes, IsLog, LogStays, LogGrows
<1>2. Seqs \subseteq Seqs'
    BY <1>1 DEF Seqs
<1>3. CursorTypes'
    BY <1>2 DEF CursorInv, CursorTypes
<1> QED BY <1>3 DEF CursorInv, CreatedIsDelivered, AdvancesOverDelivered, Exists

\* CursorInv is inductive.
LEMMA StepKeepsCursor ==
    ASSUME CursorInv, [Next]_vars
    PROVE  CursorInv'
<1>1. (LogStays \/ LogGrows) /\ IsLog'
    BY StepLog DEF CursorInv, CursorTypes
<1>2. CASE Following \/ Producing \/ Mirroring \/ UNCHANGED vars
    BY <1>1, <1>2, LogKeepsCursor DEF Following, Producing, Mirroring, cursorVars, vars
<1>3. CASE Informing
  <2>1. CASE SessionChanges \/ (appendChannelEvent(Plain("message.created", TheStep))
                                    /\ UNCHANGED cursorVars)
      BY <1>1, <2>1, LogKeepsCursor DEF SessionChanges, cursorVars
  <2>2. CASE \E t \in Turn : \/ buildChannelContextForTurn(t) \/ TurnCreated(t)
                             \/ advanceSessionDeliveryCursor(t) \/ setSessionDeliveryCursor(t)
      BY <2>2, BuildingKeeps, CreatingKeeps, DecidingKeeps, MovingKeeps
  <2> QED BY <1>3, <2>1, <2>2 DEF Informing, CursorStep
<1> QED BY <1>2, <1>3 DEF Next

\* Nothing was delivered and nothing is claimed to be.
LEMMA InitCursorInv ==
    ASSUME Init
    PROVE  CursorInv
<1>1. log = <<>> /\ cursor = 0 /\ turn = [t \in Turn |-> NoTurn]
    BY DEF Init, InitLog, InitCursor
<1>2. IsLog
    BY <1>1, EmptySeq DEF IsLog
<1>3. NoTurn \in TurnRow
    BY DEF NoTurn, TurnRow, TurnCreation
<1> QED BY <1>1, <1>2, <1>3 DEF CursorInv, CursorTypes, CreatedIsDelivered, AdvancesOverDelivered, NoTurn

(* Everything up to a session's delivery cursor was in the context of a turn *)
(* that exists, however many turns overlap and however short their contexts. *)
THEOREM NothingIsSkipped == Spec => []NothingSkipped
<1>1. CursorInv => NothingSkipped
    BY DEF CursorInv, NothingSkipped
<1>2. Init => CursorInv
    BY InitCursorInv
<1>3. CursorInv /\ [Next]_vars => CursorInv'
    BY StepKeepsCursor
<1> QED BY <1>1, <1>2, <1>3, PTL DEF Spec

-----------------------------------------------------------------------------
(***************************************************************************)
(* The stream a browser follows.  What the handler has written and the     *)
(* browser has not seen is exactly what the log has between their two      *)
(* watermarks; what is buffered, queued or read is what comes after.       *)
(***************************************************************************)

\* The readable rows after one sequence and up to another.
Between(lo, hi) == {s \in Readable : lo < s /\ s <= hi}

\* A response that carries these rows, in order.
Carries(w, lo, hi) ==
    /\ ToSet(w) = Between(lo, hi)
    /\ \A i, j \in DOMAIN w : i < j => w[i] < w[j]

PageRow == [events : SUBSET Int, next : Int, more : BOOLEAN, read : BOOLEAN]
SrvRow == [phase : Phase, after : Int, lastSent : Int, pending : SUBSET Int,
           chain : Seq(Int), page : PageRow]
BrowserRow == [connection : {"waiting", "open"}, lastSeen : Int, loaded : BOOLEAN,
               fetch : {"idle", "asked", "answered"}, answer : SUBSET Int,
               messages : SUBSET Int, unheard : SUBSET Int]

StreamTypes ==
    /\ srv \in SrvRow
    /\ browser \in BrowserRow
    /\ wire \in Seq(Int) /\ view \in Seq(Int)
    /\ unpublished \subseteq Readable

\* The screen ends with the last sequence the hook has noted.
ScreenInv ==
    /\ browser.lastSeen = ShownLog!Shown
    /\ -1 <= browser.lastSeen /\ browser.lastSeen <= Len(log) - 1
    /\ \A i \in 1 .. Len(view) : view[i] <= browser.lastSeen

\* An open connection has a handler.
HandlerInv ==
    browser.connection = "open" =>
        /\ srv.phase # "closed"
        /\ browser.lastSeen <= srv.lastSent /\ srv.lastSent <= Len(log) - 1
        /\ \A s \in srv.pending : s \in Readable /\ s > srv.lastSent
        /\ \A i \in 1 .. Len(srv.chain) : srv.chain[i] = Poll \/ srv.chain[i] \in Readable
        /\ Carries(wire, browser.lastSeen, srv.lastSent)

\* A handler that runs has a connection, and a page it holds starts at its watermark.
PageInv ==
    /\ srv.phase # "closed" => browser.connection = "open"
    /\ srv.page.read =>
        /\ Reading
        /\ srv.lastSent <= srv.page.next /\ srv.page.next <= Len(log) - 1
        /\ srv.page.events = Between(srv.lastSent, srv.page.next)

FollowInv == StreamTypes /\ ScreenInv /\ HandlerInv /\ PageInv

StreamInv ==
    /\ IsLog
    /\ followed = (mix \in {"stream", "messages"})
    /\ followed => FollowInv
    /\ ~ followed => view = <<>>

\* Sequences of rows are numbers within the log.
LEMMA ReadableBounds ==
    ASSUME IsLog
    PROVE  /\ Len(log) \in Nat
           /\ \A s \in Readable : s \in Int /\ 0 <= s /\ s <= Len(log) - 1
BY DEF IsLog, Readable, Seqs

\* A page begins right after the watermark and leaves no row out.
LEMMA PageIsGapless ==
    ASSUME IsLog, NEW after \in Int, -1 <= after, after <= Len(log) - 1, NEW limit \in Nat
    PROVE  /\ listEvents(after, limit).next \in Int
           /\ listEvents(after, limit).more \in BOOLEAN
           /\ after <= listEvents(after, limit).next
           /\ listEvents(after, limit).next <= Len(log) - 1
           /\ listEvents(after, limit).events = Between(after, listEvents(after, limit).next)
<1> DEFINE rows == {s \in Seqs : s > after}
           upTo(s) == {r \in rows : r <= s}
           page == {s \in rows : Cardinality(upTo(s)) <= limit}
<1>1. /\ Len(log) \in Nat
      /\ Seqs = 0 .. Len(log) - 1
    BY ReadableBounds DEF Seqs
<1>2. /\ listEvents(after, limit).events = page \cap Readable
      /\ listEvents(after, limit).more = (page # rows)
      /\ listEvents(after, limit).next = IF page = {} THEN after ELSE Max(page)
    BY DEF listEvents, listEventsAfter
<1>3. CASE page = {}
  <2>1. \A s : s \notin Between(after, after)
      BY <1>1 DEF Between, Readable
  <2> HIDE DEF page, rows
  <2> QED BY <1>2, <1>3, <2>1
<1>4. CASE page # {}
  <2>1. page \in SUBSET (0 .. Len(log) - 1)
      BY <1>1
  <2>2. Max(page) \in page /\ \A s \in page : s <= Max(page)
    <3>1. 0 \in Int /\ Len(log) - 1 \in Int
        BY <1>1
    <3>2. page # {}
        BY <1>4
    <3> HIDE DEF page
    <3> QED BY <2>1, <3>1, <3>2, MaxIsLast
  <2>3. PICK m : m = Max(page)
      OBVIOUS
  <2>4. /\ m \in Int /\ m \in rows /\ after < m /\ m <= Len(log) - 1
        /\ Cardinality(upTo(m)) <= limit
    <3>1. m \in page
        BY <2>2, <2>3
    <3> QED BY <1>1, <3>1
  <2>5. ASSUME NEW s \in rows, s <= m PROVE s \in page
    <3>1. IsFiniteSet(upTo(m))
      <4>1. IsFiniteSet(0 .. Len(log) - 1) /\ upTo(m) \in SUBSET (0 .. Len(log) - 1)
          BY <1>1, FS_Interval
      <4> HIDE DEF upTo
      <4> QED BY <4>1, FS_Subset
    <3>2. upTo(s) \in SUBSET upTo(m)
        BY <1>1, <2>4, <2>5
    <3>3. Cardinality(upTo(s)) <= Cardinality(upTo(m)) /\ IsFiniteSet(upTo(s))
      <4> HIDE DEF upTo
      <4> QED BY <3>1, <3>2, FS_Subset
    <3>4. Cardinality(upTo(s)) \in Nat /\ Cardinality(upTo(m)) \in Nat
      <4> HIDE DEF upTo
      <4> QED BY <3>1, <3>3, FS_CardinalityType
    <3>5. Cardinality(upTo(s)) <= limit
      <4> HIDE DEF upTo
      <4> QED BY <2>4, <3>3, <3>4
    <3> QED BY <3>5
  <2>6. \A s : s \in page \cap Readable <=> s \in Between(after, m)
    <3>1. \A s \in page : s \in Int /\ after < s /\ s <= m
        BY <1>1, <2>2, <2>3
    <3>2. \A s \in Readable : after < s => s \in rows
        BY DEF Readable
    <3> HIDE DEF page, rows
    <3> QED BY <2>5, <3>1, <3>2 DEF Between
  <2> HIDE DEF page, rows
  <2>7. page \cap Readable = Between(after, m)
      BY <2>6
  <2> QED BY <1>2, <1>4, <2>3, <2>4, <2>7
<1> QED BY <1>3, <1>4

\* The run of buffered rows that continues a watermark is an interval.
LEMMA RunIsInterval ==
    ASSUME NEW last \in Int, NEW m \in Int, NEW pending \in SUBSET (last + 1 .. m)
    PROVE  /\ Cardinality(Contiguous(last, pending)) \in Nat
           /\ Contiguous(last, pending) \subseteq pending
           /\ Contiguous(last, pending)
                  = last + 1 .. last + Cardinality(Contiguous(last, pending))
<1> DEFINE run == Contiguous(last, pending)
<1>1. run \subseteq pending /\ \A s \in run : \A r \in last + 1 .. s : r \in pending
    BY DEF Contiguous
<1>2. \A s \in run : \A r \in last + 1 .. s : r \in run
  <2> SUFFICES ASSUME NEW s \in run, NEW r \in last + 1 .. s PROVE r \in run
      OBVIOUS
  <2>1. s \in Int /\ \A x \in last + 1 .. s : x \in pending
    <3>1. s \in last + 1 .. m
        BY <1>1
    <3>2. \A x \in last + 1 .. s : x \in pending
        BY <1>1
    <3> QED BY <3>1, <3>2
  <2>2. \A x \in last + 1 .. r : x \in pending
      BY <2>1
  <2> QED BY <2>1, <2>2 DEF Contiguous
<1>3. CASE run = {}
  <2>1. Cardinality(run) = 0
      BY <1>3, FS_EmptySet
  <2> HIDE DEF run
  <2>2. run = last + 1 .. last + Cardinality(run)
      BY <1>3, <2>1
  <2> QED BY <2>1, <2>2, <1>1 DEF run
<1>4. CASE run # {}
  <2> HIDE DEF run
  <2>1. PICK x \in run : \A r \in run : r <= x
    <3>1. run \in SUBSET (last + 1 .. m) /\ last + 1 \in Int
        BY <1>1
    <3> QED BY <1>4, <3>1, LastSequence
  <2>2. x \in Int /\ last + 1 <= x
      BY <1>1
  <2>3. run = last + 1 .. x
    <3>1. \A r \in last + 1 .. x : r \in run
        BY <1>2, <2>1
    <3>2. \A r \in run : r \in last + 1 .. m
        BY <1>1
    <3>3. \A r \in run : r \in last + 1 .. x
        BY <2>1, <2>2, <3>2
    <3> QED BY <3>1, <3>3
  <2>4. Cardinality(run) = x - last
    <3>1. last + 1 \in Int /\ ~ (last + 1 > x)
        BY <2>2
    <3>2. Cardinality(last + 1 .. x) = x - (last + 1) + 1
        BY <2>2, <3>1, FS_Interval
    <3> QED BY <2>2, <2>3, <3>2
  <2>5. Cardinality(run) \in Nat /\ run = last + 1 .. last + Cardinality(run)
      BY <2>2, <2>3, <2>4
  <2> QED BY <1>1, <2>5 DEF run
<1> QED BY <1>3, <1>4

\* Writing the next rows extends what the response carries.
LEMMA WritingExtends ==
    ASSUME IsLog, NEW w \in Seq(Int), NEW lo \in Int, NEW mid \in Int, NEW hi \in Int,
           lo <= mid, mid <= hi, Carries(w, lo, mid),
           NEW q \in Ascending(Between(mid, hi))
    PROVE  w \o q \in Seq(Int) /\ Carries(w \o q, lo, hi)
<1> DEFINE S == Between(mid, hi)
           n == Cardinality(S)
<1>1. n \in Nat
  <2>1. S \in SUBSET (0 .. Len(log) - 1) /\ Len(log) - 1 \in Int
      BY ReadableBounds DEF Between
  <2>2. IsFiniteSet(0 .. Len(log) - 1)
      BY <2>1, FS_Interval
  <2> HIDE DEF S
  <2> QED BY <2>1, <2>2, FS_Subset, FS_CardinalityType
<1>2. /\ q \in [1 .. n -> S] /\ ToSet(q) = S
      /\ \A i, j \in DOMAIN q : i < j => q[i] < q[j]
    BY DEF Ascending
<1>3. \A s \in S : s \in Int /\ s \in Readable /\ mid < s /\ s <= hi
    BY ReadableBounds DEF Between
<1> HIDE DEF S, n
<1>4. q \in Seq(Int) /\ Len(q) = n
    BY <1>1, <1>2, <1>3, SeqDef, LenProperties
<1>5. /\ w \o q \in Seq(Int) /\ Len(w \o q) = Len(w) + n /\ Len(w) \in Nat
      /\ \A i \in 1 .. Len(w) : (w \o q)[i] = w[i]
      /\ \A i \in Len(w) + 1 .. Len(w) + n : (w \o q)[i] = q[i - Len(w)]
  <2>1. Len(w) \in Nat
      BY LenProperties
  <2>2. /\ w \o q \in Seq(Int) /\ Len(w \o q) = Len(w) + n
        /\ \A i \in 1 .. Len(w) + n : (w \o q)[i] = IF i <= Len(w) THEN w[i] ELSE q[i - Len(w)]
      BY <1>4, ConcatProperties
  <2>3. \A i \in 1 .. Len(w) : i \in 1 .. Len(w) + n /\ i <= Len(w)
      BY <1>1, <2>1
  <2>4. \A i \in Len(w) + 1 .. Len(w) + n : i \in 1 .. Len(w) + n /\ ~ (i <= Len(w))
      BY <1>1, <2>1
  <2> QED BY <2>1, <2>2, <2>3, <2>4
<1>6. \A i \in 1 .. Len(w) : w[i] \in Between(lo, mid) /\ w[i] \in Int /\ w[i] <= mid
    BY <1>5, LenProperties, ReadableBounds DEF Carries, ToSet, Between
<1>7. \A i \in 1 .. n : q[i] \in S
    BY <1>2
<1> DEFINE v == w \o q
<1>8. DOMAIN v = 1 .. Len(w) + n
    BY <1>5, LenProperties
<1>9. ASSUME NEW i \in DOMAIN v, NEW j \in DOMAIN v, i < j PROVE v[i] < v[j]
  <2>1. i \in 1 .. Len(w) \/ (i - Len(w) \in 1 .. n /\ i \in Len(w) + 1 .. Len(w) + n)
      BY <1>1, <1>5, <1>8
  <2>2. j \in 1 .. Len(w) \/ (j - Len(w) \in 1 .. n /\ j \in Len(w) + 1 .. Len(w) + n)
      BY <1>1, <1>5, <1>8
  <2>3. CASE j \in 1 .. Len(w)
    <3>1. i \in 1 .. Len(w)
        BY <1>5, <1>8, <1>1, <1>9, <2>3
    <3> QED BY <1>5, <1>9, <2>3, <3>1, LenProperties DEF Carries
  <2>4. CASE i \in 1 .. Len(w) /\ j \in Len(w) + 1 .. Len(w) + n /\ j - Len(w) \in 1 .. n
    <3>1. v[i] = w[i] /\ v[j] = q[j - Len(w)]
        BY <1>5, <2>4
    <3>2. w[i] \in Int /\ w[i] <= mid /\ q[j - Len(w)] \in Int /\ mid < q[j - Len(w)]
        BY <1>3, <1>6, <1>7, <2>4
    <3> HIDE DEF v
    <3> QED BY <3>1, <3>2
  <2>5. CASE /\ i \in Len(w) + 1 .. Len(w) + n /\ i - Len(w) \in 1 .. n
             /\ j \in Len(w) + 1 .. Len(w) + n /\ j - Len(w) \in 1 .. n
    <3>1. v[i] = q[i - Len(w)] /\ v[j] = q[j - Len(w)]
        BY <1>5, <2>5
    <3>2. i - Len(w) < j - Len(w) /\ DOMAIN q = 1 .. n
        BY <1>2, <1>5, <1>9, <2>5
    <3>3. q[i - Len(w)] < q[j - Len(w)]
        BY <1>2, <2>5, <3>2
    <3> HIDE DEF v
    <3> QED BY <3>1, <3>3
  <2> QED BY <2>1, <2>2, <2>3, <2>4, <2>5
<1>10. ASSUME NEW s \in ToSet(v) PROVE s \in Between(lo, hi)
  <2>1. PICK i \in 1 .. Len(w) + n : s = v[i]
      BY <1>8 DEF ToSet
  <2>2. CASE i \in 1 .. Len(w)
      BY <1>5, <1>6, <2>1, <2>2 DEF Between
  <2>3. CASE i \in Len(w) + 1 .. Len(w) + n
    <3>1. i - Len(w) \in 1 .. n /\ s = q[i - Len(w)]
        BY <1>1, <1>5, <2>1, <2>3
    <3>2. s \in S
        BY <1>7, <3>1
    <3> QED BY <1>3, <3>2 DEF Between
  <2> QED BY <1>1, <1>5, <2>1, <2>2, <2>3
<1>11. ASSUME NEW s \in Between(lo, hi) PROVE s \in ToSet(v)
  <2>1. s \in Int /\ (s \in Between(lo, mid) \/ s \in S)
      BY ReadableBounds DEF Between, S
  <2>2. CASE s \in Between(lo, mid)
    <3>1. PICK i \in 1 .. Len(w) : s = w[i]
        BY <2>2, LenProperties DEF Carries, ToSet
    <3>2. i \in DOMAIN v /\ v[i] = s
        BY <1>1, <1>5, <1>8, <3>1
    <3> QED BY <3>2 DEF ToSet
  <2>3. CASE s \in S
    <3>1. PICK i \in 1 .. n : s = q[i]
        BY <1>2, <2>3 DEF ToSet
    <3>2. Len(w) + i \in DOMAIN v /\ Len(w) + i \in Len(w) + 1 .. Len(w) + n
        BY <1>1, <1>5, <1>8, <3>1
    <3>3. v[Len(w) + i] = s
        BY <1>1, <1>5, <3>1, <3>2
    <3> HIDE DEF v
    <3> QED BY <3>2, <3>3 DEF ToSet
  <2> QED BY <2>1, <2>2, <2>3
<1>12. ToSet(v) = Between(lo, hi)
    BY <1>10, <1>11
<1> QED BY <1>5, <1>9, <1>12 DEF Carries

-----------------------------------------------------------------------------
(***************************************************************************)
(* The handler's steps.  None of them touches the screen.                  *)
(***************************************************************************)

\* What a step of the handler leaves alone.
ScreenStays == UNCHANGED <<log, view, browser>>

\* The rows that can be read are those of the log.
LEMMA SameRows ==
    ASSUME log' = log
    PROVE  /\ Readable' = Readable
           /\ \A lo, hi : {s \in Readable' : lo < s /\ s <= hi} = Between(lo, hi)
<1>1. Readable' = Readable
    BY DEF Readable, Seqs, envelopeFromStoredEvent, Row
<1> QED BY <1>1 DEF Between

\* The invariant follows from what the handler and the response have become.
LEMMA HandlerStepKeeps ==
    ASSUME IsLog, FollowInv, ScreenStays, unpublished' \subseteq unpublished,
           srv' \in SrvRow, wire' \in Seq(Int),
           srv'.phase # "closed" <=> srv.phase # "closed",
           browser.connection = "open" =>
               /\ srv.lastSent <= srv'.lastSent /\ srv'.lastSent <= Len(log) - 1
               /\ \A s \in srv'.pending : s \in Readable /\ s > srv'.lastSent
               /\ \A i \in 1 .. Len(srv'.chain) :
                      srv'.chain[i] = Poll \/ srv'.chain[i] \in Readable
               /\ Carries(wire', browser.lastSeen, srv'.lastSent),
           srv'.page.read =>
               /\ Reading'
               /\ srv'.lastSent <= srv'.page.next /\ srv'.page.next <= Len(log) - 1
               /\ srv'.page.events = Between(srv'.lastSent, srv'.page.next)
    PROVE  FollowInv'
<1>1. log' = log /\ view' = view /\ browser' = browser
    BY DEF ScreenStays
<1>2. Readable' = Readable
    BY <1>1, SameRows
<1>3. StreamTypes'
    BY <1>1, <1>2 DEF FollowInv, StreamTypes
<1>4. ScreenInv'
    BY <1>1 DEF FollowInv, ScreenInv, ShownLog!Shown
<1>5. /\ srv.lastSent \in Int /\ srv'.lastSent \in Int /\ browser.lastSeen \in Int
    BY DEF FollowInv, StreamTypes, SrvRow, BrowserRow
<1>6. HandlerInv'
  <2> SUFFICES ASSUME browser'.connection = "open"
               PROVE  /\ srv'.phase # "closed"
                      /\ browser'.lastSeen <= srv'.lastSent /\ srv'.lastSent <= Len(log') - 1
                      /\ \A s \in srv'.pending : s \in Readable' /\ s > srv'.lastSent
                      /\ \A i \in 1 .. Len(srv'.chain) :
                             srv'.chain[i] = Poll \/ srv'.chain[i] \in Readable'
                      /\ Carries(wire, browser.lastSeen, srv.lastSent)'
      BY DEF HandlerInv, Poll
  <2>1. browser.lastSeen <= srv'.lastSent
      BY <1>1, <1>5 DEF FollowInv, HandlerInv
  <2>2. Carries(wire, browser.lastSeen, srv.lastSent)'
      BY <1>1, <1>2 DEF Carries, Between
  <2>3. srv.phase # "closed"
      BY <1>1 DEF FollowInv, HandlerInv
  <2> QED BY <1>1, <1>2, <2>1, <2>2, <2>3
<1>7. PageInv'
    BY <1>1, <1>2 DEF FollowInv, PageInv, Between
<1> QED BY <1>3, <1>4, <1>6, <1>7 DEF FollowInv

\* A handler that is at work is connected.
LEMMA AtWork ==
    ASSUME IsLog, FollowInv, srv.phase # "closed"
    PROVE  /\ browser.connection = "open"
           /\ Len(log) \in Nat
           /\ srv \in SrvRow /\ srv.lastSent \in Int /\ browser.lastSeen \in Int
           /\ -1 <= browser.lastSeen /\ browser.lastSeen <= srv.lastSent
           /\ srv.lastSent <= Len(log) - 1
           /\ srv.chain \in Seq(Int) /\ srv.pending \in SUBSET Int
           /\ \A s \in srv.pending : s \in Readable /\ s > srv.lastSent
           /\ \A i \in 1 .. Len(srv.chain) : srv.chain[i] = Poll \/ srv.chain[i] \in Readable
           /\ wire \in Seq(Int) /\ Carries(wire, browser.lastSeen, srv.lastSent)
<1>1. browser.connection = "open"
    BY DEF FollowInv, PageInv
<1>2. srv \in SrvRow /\ browser \in BrowserRow /\ wire \in Seq(Int)
    BY DEF FollowInv, StreamTypes
<1>3. /\ srv.lastSent \in Int /\ browser.lastSeen \in Int
      /\ srv.chain \in Seq(Int) /\ srv.pending \in SUBSET Int
    BY <1>2 DEF SrvRow, BrowserRow
<1>4. Len(log) \in Nat
    BY ReadableBounds
<1>5. -1 <= browser.lastSeen
    BY DEF FollowInv, ScreenInv
<1> QED BY <1>1, <1>2, <1>3, <1>4, <1>5 DEF FollowInv, HandlerInv

\* A page is read right after the watermark.
LEMMA ReadPageKeeps ==
    ASSUME IsLog, FollowInv, ReadPage
    PROVE  FollowInv' /\ UNCHANGED <<log, view>>
<1>1. PICK limit \in Nat :
          srv' = [srv EXCEPT !.page = [events |-> listEvents(srv.lastSent, limit).events,
                                       next |-> listEvents(srv.lastSent, limit).next,
                                       more |-> listEvents(srv.lastSent, limit).more,
                                       read |-> TRUE]]
    BY PageSizes DEF ReadPage
<1>2. ScreenStays /\ unpublished' = unpublished /\ wire' = wire
    BY DEF ReadPage, ScreenStays, logVars
<1>3. Reading /\ srv.phase # "closed"
    BY DEF ReadPage, Reading, Polling
<1> DEFINE events == listEvents(srv.lastSent, limit).events
           next == listEvents(srv.lastSent, limit).next
           more == listEvents(srv.lastSent, limit).more
           page == [events |-> events, next |-> next, more |-> more, read |-> TRUE]
<1>4. /\ next \in Int /\ more \in BOOLEAN
      /\ srv.lastSent <= next /\ next <= Len(log) - 1 /\ events = Between(srv.lastSent, next)
  <2>1. srv.lastSent \in Int /\ -1 <= srv.lastSent /\ srv.lastSent <= Len(log) - 1
      BY <1>3, AtWork
  <2> QED BY <2>1, PageIsGapless
<1>5. events \in SUBSET Int
    BY <1>4, ReadableBounds DEF Between
<1>6. srv' = [srv EXCEPT !.page = page]
    BY <1>1
<1> HIDE DEF events, next, more
<1>7. page \in PageRow /\ page.read /\ page.next = next /\ page.events = events
    BY <1>4, <1>5 DEF PageRow
<1> HIDE DEF page
<1>8. /\ srv' \in SrvRow /\ srv'.page = page /\ srv'.phase = srv.phase
      /\ srv'.lastSent = srv.lastSent /\ srv'.pending = srv.pending /\ srv'.chain = srv.chain
    BY <1>3, <1>6, <1>7, AtWork DEF SrvRow
<1>9. Reading'
    BY <1>3, <1>8 DEF Reading, Polling, Poll
<1>10. FollowInv'
    BY <1>2, <1>3, <1>4, <1>7, <1>8, <1>9, AtWork, HandlerStepKeeps
<1> QED BY <1>2, <1>10 DEF ScreenStays

\* Where the handler goes after the last page.
LEMMA AfterLastPageRuns ==
    ASSUME IsLog, FollowInv, Reading
    PROVE  /\ AfterLastPage.phase \in Phase \ {"closed"}
           /\ AfterLastPage.chain \in Seq(Int)
           /\ \A i \in 1 .. Len(AfterLastPage.chain) :
                  AfterLastPage.chain[i] = Poll \/ AfterLastPage.chain[i] \in Readable
<1>1. srv.phase \in {"replay", "catchup"} \/ (srv.phase = "live" /\ srv.chain # <<>>)
    BY DEF Reading, Polling
<1>2. /\ srv.chain \in Seq(Int)
      /\ \A i \in 1 .. Len(srv.chain) : srv.chain[i] = Poll \/ srv.chain[i] \in Readable
    BY <1>1, AtWork
<1>3. CASE srv.phase = "replay"
  <2>1. AfterLastPage = [phase |-> "catchup", chain |-> srv.chain]
      BY <1>3 DEF AfterLastPage
  <2> QED BY <1>2, <2>1 DEF Phase
<1>4. CASE srv.phase = "catchup"
  <2>1. AfterLastPage = [phase |-> "flush", chain |-> srv.chain]
      BY <1>4 DEF AfterLastPage
  <2> QED BY <1>2, <2>1 DEF Phase
<1>5. CASE srv.phase = "live" /\ srv.chain # <<>>
  <2>1. AfterLastPage = [phase |-> "live", chain |-> Tail(srv.chain)]
      BY <1>5 DEF AfterLastPage
  <2>2. /\ Tail(srv.chain) \in Seq(Int) /\ Len(Tail(srv.chain)) = Len(srv.chain) - 1
        /\ \A i \in 1 .. Len(Tail(srv.chain)) : Tail(srv.chain)[i] = srv.chain[i + 1]
      BY <1>2, <1>5, HeadTailProperties
  <2>3. Len(srv.chain) \in Nat
      BY <1>2, LenProperties
  <2>4. \A i \in 1 .. Len(Tail(srv.chain)) :
            Tail(srv.chain)[i] = Poll \/ Tail(srv.chain)[i] \in Readable
      BY <1>2, <2>2, <2>3 DEF Poll
  <2> QED BY <2>1, <2>2, <2>4 DEF Phase
<1> QED BY <1>1, <1>3, <1>4, <1>5

\* A page is applied: everything it observed goes out, what is buffered beyond it stays.
LEMMA ApplyPageKeeps ==
    ASSUME IsLog, FollowInv, applyEventPage
    PROVE  FollowInv' /\ UNCHANGED <<log, view>>
<1> DEFINE page == srv.page
           pending == srv.pending \cup {s \in page.events : s > srv.lastSent}
           out == {s \in pending : s > srv.lastSent /\ s <= page.next}
           ph == IF page.more THEN srv.phase ELSE AfterLastPage.phase
           ch == IF page.more THEN srv.chain ELSE AfterLastPage.chain
<1>1. /\ Reading /\ srv.phase # "closed"
      /\ srv.lastSent <= page.next /\ page.next <= Len(log) - 1
      /\ page.events = Between(srv.lastSent, page.next)
      /\ page.next \in Int /\ page.more \in BOOLEAN
  <2>1. srv.page.read
      BY DEF applyEventPage
  <2>2. srv.page \in PageRow
      BY DEF FollowInv, StreamTypes, SrvRow
  <2> QED BY <2>1, <2>2 DEF FollowInv, PageInv, Reading, Polling, PageRow
<1>2. ScreenStays /\ unpublished' = unpublished
    BY DEF applyEventPage, ScreenStays, logVars
<1>3. /\ drainThroughSequence(srv.lastSent, page.next, pending).toEmit = out
      /\ drainThroughSequence(srv.lastSent, page.next, pending).lastSent = page.next
    BY <1>1, AtWork DEF drainThroughSequence
<1>4. /\ \E q \in Ascending(out) : wire' = wire \o q
      /\ srv' = [srv EXCEPT !.lastSent = page.next, !.pending = pending \ out, !.page = NoPage,
                            !.phase = ph, !.chain = ch]
    BY <1>3 DEF applyEventPage, Emit
<1>5. out = Between(srv.lastSent, page.next)
    BY <1>1, AtWork, ReadableBounds DEF Between
<1>6. \A s \in pending \ out : s \in Readable /\ s \in Int /\ s > page.next
    BY <1>1, AtWork, ReadableBounds DEF Between
<1>7. /\ ph \in Phase \ {"closed"} /\ ch \in Seq(Int)
      /\ \A i \in 1 .. Len(ch) : ch[i] = Poll \/ ch[i] \in Readable
  <2>1. srv.phase \in Phase
      BY DEF FollowInv, StreamTypes, SrvRow
  <2> QED BY <1>1, <2>1, AtWork, AfterLastPageRuns
<1>8. wire' \in Seq(Int) /\ Carries(wire', browser.lastSeen, page.next)
  <2>1. PICK q \in Ascending(Between(srv.lastSent, page.next)) : wire' = wire \o q
      BY <1>4, <1>5
  <2> QED BY <1>1, <2>1, AtWork, WritingExtends
<1> DEFINE left == pending \ out
<1>9. left \in SUBSET Int /\ \A s \in left : s \in Readable /\ s > page.next
    BY <1>6
<1>10. srv' = [srv EXCEPT !.lastSent = page.next, !.pending = left, !.page = NoPage,
                          !.phase = ph, !.chain = ch]
    BY <1>4
<1>11. NoPage \in PageRow /\ ~ NoPage.read
    BY DEF NoPage, PageRow
<1> HIDE DEF left, ph, ch, pending, out
<1>12. /\ srv' \in SrvRow /\ srv'.page = NoPage /\ srv'.phase = ph /\ srv'.chain = ch
       /\ srv'.lastSent = page.next /\ srv'.pending = left
    BY <1>1, <1>7, <1>9, <1>10, <1>11, AtWork DEF SrvRow
<1>13. FollowInv'
    BY <1>1, <1>2, <1>7, <1>8, <1>9, <1>11, <1>12, HandlerStepKeeps
<1> QED BY <1>2, <1>13 DEF ScreenStays

\* Envelopes are buffered, and the run they complete goes out.
LEMMA BufferingWrites ==
    ASSUME IsLog, FollowInv, srv.phase # "closed",
           NEW S \in SUBSET Readable, \A s \in S : s > srv.lastSent,
           NEW q \in Ascending(Buffered(S).emit)
    PROVE  /\ Buffered(S).lastSent \in Int /\ Buffered(S).pending \in SUBSET Int
           /\ srv.lastSent <= Buffered(S).lastSent /\ Buffered(S).lastSent <= Len(log) - 1
           /\ \A s \in Buffered(S).pending : s \in Readable /\ s > Buffered(S).lastSent
           /\ wire \o q \in Seq(Int)
           /\ Carries(wire \o q, browser.lastSeen, Buffered(S).lastSent)
<1> DEFINE pending == srv.pending \cup S
           run == Contiguous(srv.lastSent, pending)
           last == srv.lastSent + Cardinality(run)
<1>1. /\ Buffered(S).emit = run /\ Buffered(S).pending = pending \ run
      /\ Buffered(S).lastSent = last
    BY DEF Buffered
<1>2. /\ srv.lastSent \in Int /\ Len(log) \in Nat /\ srv.lastSent <= Len(log) - 1
      /\ \A s \in pending : s \in Readable /\ s \in Int /\ s > srv.lastSent /\ s <= Len(log) - 1
    BY AtWork, ReadableBounds
<1> HIDE DEF pending
<1>3. pending \in SUBSET (srv.lastSent + 1 .. Len(log) - 1) /\ Len(log) - 1 \in Int
    BY <1>2
<1>4. /\ Cardinality(run) \in Nat /\ run \subseteq pending
      /\ run = srv.lastSent + 1 .. srv.lastSent + Cardinality(run)
    BY <1>2, <1>3, RunIsInterval
<1>5. last \in Int /\ srv.lastSent <= last /\ run = srv.lastSent + 1 .. last
    BY <1>2, <1>4
<1> HIDE DEF run, last
<1>6. last <= Len(log) - 1
  <2>1. CASE last = srv.lastSent
      BY <1>2, <2>1
  <2>2. CASE last # srv.lastSent
    <3>1. last \in run
        BY <1>2, <1>5, <2>2
    <3> QED BY <1>2, <1>4, <3>1
  <2> QED BY <2>1, <2>2
<1>7. \A s \in pending \ run : s \in Readable /\ s \in Int /\ s > last
    BY <1>2, <1>5
<1>8. run = Between(srv.lastSent, last)
  <2>1. \A s \in Between(srv.lastSent, last) : s \in Int /\ srv.lastSent < s /\ s <= last
      BY ReadableBounds DEF Between
  <2>2. \A s \in run : s \in Readable /\ srv.lastSent < s /\ s <= last
      BY <1>2, <1>4, <1>5
  <2>3. \A s \in run : s \in Between(srv.lastSent, last)
      BY <2>2 DEF Between
  <2>4. \A s \in Between(srv.lastSent, last) : s \in run
      BY <1>2, <1>5, <2>1
  <2> QED BY <2>3, <2>4
<1>9. wire \o q \in Seq(Int) /\ Carries(wire \o q, browser.lastSeen, last)
    BY <1>1, <1>5, <1>8, AtWork, WritingExtends
<1>10. pending \ run \in SUBSET Int
    BY <1>7
<1> QED BY <1>1, <1>5, <1>6, <1>7, <1>9, <1>10

\* The rest of the chain once its first entry is done.
LEMMA RestOfChain ==
    ASSUME IsLog, FollowInv, srv.phase # "closed", srv.chain # <<>>
    PROVE  /\ Tail(srv.chain) \in Seq(Int)
           /\ Head(srv.chain) = Poll \/ Head(srv.chain) \in Readable
           /\ \A i \in 1 .. Len(Tail(srv.chain)) :
                  Tail(srv.chain)[i] = Poll \/ Tail(srv.chain)[i] \in Readable
<1>1. /\ srv.chain \in Seq(Int)
      /\ \A i \in 1 .. Len(srv.chain) : srv.chain[i] = Poll \/ srv.chain[i] \in Readable
    BY AtWork
<1>2. /\ Tail(srv.chain) \in Seq(Int) /\ Len(Tail(srv.chain)) = Len(srv.chain) - 1
      /\ \A i \in 1 .. Len(Tail(srv.chain)) : Tail(srv.chain)[i] = srv.chain[i + 1]
    BY <1>1, HeadTailProperties
<1>3. Len(srv.chain) \in Nat \ {0} /\ Head(srv.chain) = srv.chain[1]
    BY <1>1, EmptySeq
<1>4. \A i \in 1 .. Len(Tail(srv.chain)) : i + 1 \in 1 .. Len(srv.chain)
    BY <1>2, <1>3
<1> QED BY <1>1, <1>2, <1>3, <1>4

\* A page is held only where one is read.
LEMMA NoPageHeld ==
    ASSUME FollowInv, ~ Reading
    PROVE  ~ srv.page.read
BY DEF FollowInv, PageInv

\* A queued envelope is taken from the chain.
LEMMA BufferEnvelopeKeeps ==
    ASSUME IsLog, FollowInv, bufferEnvelope
    PROVE  FollowInv' /\ UNCHANGED <<log, view>>
<1> DEFINE s == Head(srv.chain)
           b == Buffered({s})
<1>1. /\ srv.phase = "live" /\ srv.chain # <<>> /\ s # Poll /\ srv.phase # "closed"
      /\ ~ Reading
    BY DEF bufferEnvelope, Reading, Polling
<1>2. ScreenStays /\ unpublished' = unpublished
    BY DEF bufferEnvelope, ScreenStays, logVars
<1>3. /\ Tail(srv.chain) \in Seq(Int) /\ s \in Readable
      /\ \A i \in 1 .. Len(Tail(srv.chain)) :
             Tail(srv.chain)[i] = Poll \/ Tail(srv.chain)[i] \in Readable
    BY <1>1, RestOfChain
<1>4. ~ srv.page.read
    BY <1>1, NoPageHeld
<1>5. srv.lastSent \in Int /\ s \in Int
    BY <1>1, <1>3, AtWork, ReadableBounds
<1> HIDE DEF s
<1>6. CASE s <= srv.lastSent
  <2>1. srv' = [srv EXCEPT !.chain = Tail(srv.chain)] /\ wire' = wire
      BY <1>6 DEF bufferEnvelope, s
  <2>2. /\ srv' \in SrvRow /\ srv'.page = srv.page /\ srv'.phase = srv.phase
        /\ srv'.chain = Tail(srv.chain)
        /\ srv'.lastSent = srv.lastSent /\ srv'.pending = srv.pending
      BY <1>1, <1>3, <2>1, AtWork DEF SrvRow
  <2>3. FollowInv'
      BY <1>1, <1>2, <1>3, <1>4, <2>1, <2>2, AtWork, HandlerStepKeeps
  <2> QED BY <1>2, <2>3 DEF ScreenStays
<1>7. CASE ~ (s <= srv.lastSent)
  <2>1. s > srv.lastSent
      BY <1>5, <1>7
  <2>2. /\ \E q \in Ascending(b.emit) : wire' = wire \o q
        /\ srv' = [srv EXCEPT !.chain = Tail(srv.chain), !.lastSent = b.lastSent,
                              !.pending = b.pending]
      BY <1>7, <2>1 DEF bufferEnvelope, s, Emit
  <2>3. {s} \in SUBSET Readable /\ \A r \in {s} : r > srv.lastSent
      BY <1>3, <2>1
  <2>4. /\ b.lastSent \in Int /\ b.pending \in SUBSET Int
        /\ srv.lastSent <= b.lastSent /\ b.lastSent <= Len(log) - 1
        /\ \A r \in b.pending : r \in Readable /\ r > b.lastSent
        /\ wire' \in Seq(Int) /\ Carries(wire', browser.lastSeen, b.lastSent)
      BY <1>1, <2>2, <2>3, BufferingWrites
  <2> HIDE DEF b
  <2>5. /\ srv' \in SrvRow /\ srv'.page = srv.page /\ srv'.phase = srv.phase
        /\ srv'.chain = Tail(srv.chain)
        /\ srv'.lastSent = b.lastSent /\ srv'.pending = b.pending
      BY <1>1, <1>3, <2>2, <2>4, AtWork DEF SrvRow
  <2>6. FollowInv'
      BY <1>1, <1>2, <1>3, <1>4, <2>4, <2>5, HandlerStepKeeps
  <2> QED BY <1>2, <2>6 DEF ScreenStays
<1> QED BY <1>6, <1>7

\* What was buffered during the replay goes out if it continues it.
LEMMA FlushKeeps ==
    ASSUME IsLog, FollowInv, FlushBuffered
    PROVE  FollowInv' /\ UNCHANGED <<log, view>>
<1> DEFINE b == Buffered({})
<1>1. srv.phase = "flush" /\ srv.phase # "closed" /\ ~ Reading
    BY DEF FlushBuffered, Reading, Polling
<1>2. ScreenStays /\ unpublished' = unpublished
    BY DEF FlushBuffered, ScreenStays, logVars
<1>3. /\ \E q \in Ascending(b.emit) : wire' = wire \o q
      /\ srv' = [srv EXCEPT !.phase = "attach", !.lastSent = b.lastSent, !.pending = b.pending]
    BY DEF FlushBuffered, Emit
<1>4. /\ b.lastSent \in Int /\ b.pending \in SUBSET Int
      /\ srv.lastSent <= b.lastSent /\ b.lastSent <= Len(log) - 1
      /\ \A r \in b.pending : r \in Readable /\ r > b.lastSent
      /\ wire' \in Seq(Int) /\ Carries(wire', browser.lastSeen, b.lastSent)
  <2>1. {} \in SUBSET Readable /\ \A r \in {} : r > srv.lastSent
      OBVIOUS
  <2> QED BY <1>1, <1>3, <2>1, BufferingWrites
<1> HIDE DEF b
<1>5. /\ srv' \in SrvRow /\ srv'.page = srv.page /\ srv'.phase = "attach"
      /\ srv'.chain = srv.chain
      /\ srv'.lastSent = b.lastSent /\ srv'.pending = b.pending
    BY <1>1, <1>3, <1>4, AtWork DEF SrvRow, Phase
<1>6. ~ srv.page.read
    BY <1>1, NoPageHeld
<1>7. FollowInv'
    BY <1>1, <1>2, <1>4, <1>5, <1>6, AtWork, HandlerStepKeeps
<1> QED BY <1>2, <1>7 DEF ScreenStays

\* The handler goes live.
LEMMA GoLiveKeeps ==
    ASSUME IsLog, FollowInv, GoLive
    PROVE  FollowInv' /\ UNCHANGED <<log, view>>
<1>1. srv.phase = "attach" /\ srv.phase # "closed" /\ ~ Reading
    BY DEF GoLive, Reading, Polling
<1>2. ScreenStays /\ unpublished' = unpublished /\ wire' = wire
    BY DEF GoLive, ScreenStays, logVars
<1>3. srv' = [srv EXCEPT !.phase = "live"]
    BY DEF GoLive
<1>4. /\ srv' \in SrvRow /\ srv'.page = srv.page /\ srv'.phase = "live"
      /\ srv'.chain = srv.chain
      /\ srv'.lastSent = srv.lastSent /\ srv'.pending = srv.pending
    BY <1>1, <1>3, AtWork DEF SrvRow, Phase
<1>5. ~ srv.page.read
    BY <1>1, NoPageHeld
<1>6. FollowInv'
    BY <1>1, <1>2, <1>4, <1>5, AtWork, HandlerStepKeeps
<1> QED BY <1>2, <1>6 DEF ScreenStays

\* A poll or an announced row is queued behind what is queued already.
LEMMA QueueingKeeps ==
    ASSUME IsLog, FollowInv, srv.phase # "closed", ScreenStays, wire' = wire,
           unpublished' \subseteq unpublished,
           NEW e, e = Poll \/ e \in Readable,
           srv' = [srv EXCEPT !.chain = Append(srv.chain, e)]
    PROVE  FollowInv'
<1>1. e \in Int /\ srv.chain \in Seq(Int)
    BY AtWork, ReadableBounds DEF Poll
<1>2. /\ Append(srv.chain, e) \in Seq(Int) /\ Len(Append(srv.chain, e)) = Len(srv.chain) + 1
      /\ \A i \in 1 .. Len(srv.chain) : Append(srv.chain, e)[i] = srv.chain[i]
      /\ Append(srv.chain, e)[Len(srv.chain) + 1] = e
      /\ Len(srv.chain) \in Nat
    BY <1>1, AppendProperties, LenProperties
<1> DEFINE ch == Append(srv.chain, e)
<1>3. \A i \in 1 .. Len(ch) : ch[i] = Poll \/ ch[i] \in Readable
  <2>1. \A i \in 1 .. Len(ch) : i \in 1 .. Len(srv.chain) \/ i = Len(srv.chain) + 1
      BY <1>2
  <2>2. \A i \in 1 .. Len(srv.chain) : srv.chain[i] = Poll \/ srv.chain[i] \in Readable
      BY AtWork
  <2> HIDE DEF ch
  <2> QED BY <1>2, <2>1, <2>2 DEF ch
<1>4. srv.chain # <<>> => ch # <<>> /\ Head(ch) = Head(srv.chain)
  <2> HAVE srv.chain # <<>>
  <2>1. Len(srv.chain) \in Nat \ {0}
      BY <1>1, EmptySeq
  <2>2. Head(srv.chain) = srv.chain[1] /\ Head(ch) = ch[1] /\ ch # <<>>
      BY <1>1, <1>2, <2>1
  <2>3. ch[1] = srv.chain[1]
      BY <1>2, <2>1
  <2> QED BY <2>2, <2>3
<1>5. ch \in Seq(Int)
    BY <1>2
<1>6. srv' = [srv EXCEPT !.chain = ch]
    OBVIOUS
<1> HIDE DEF ch
<1>7. /\ srv' \in SrvRow /\ srv'.page = srv.page /\ srv'.phase = srv.phase
      /\ srv'.chain = ch
      /\ srv'.lastSent = srv.lastSent /\ srv'.pending = srv.pending
    BY <1>5, <1>6, AtWork DEF SrvRow
<1>8. Reading => Reading'
    BY <1>4, <1>7 DEF Reading, Polling, Poll
<1>9. FollowInv'
  <2>1. srv.page.read => /\ Reading'
                         /\ srv.lastSent <= srv.page.next /\ srv.page.next <= Len(log) - 1
                         /\ srv.page.events = Between(srv.lastSent, srv.page.next)
      BY <1>8 DEF FollowInv, PageInv
  <2> QED BY <1>3, <1>7, <2>1, AtWork, HandlerStepKeeps
<1> QED BY <1>9

\* The poll timer fires.
LEMMA PollTickKeeps ==
    ASSUME IsLog, FollowInv, PollTick
    PROVE  FollowInv' /\ UNCHANGED <<log, view>>
<1>1. /\ srv.phase # "closed" /\ ScreenStays /\ wire' = wire /\ unpublished' = unpublished
      /\ srv' = [srv EXCEPT !.chain = Append(srv.chain, Poll)]
    BY DEF PollTick, ScreenStays, logVars
<1> QED BY <1>1, QueueingKeeps DEF ScreenStays

\* A row is announced: nobody listens, it is queued, or it is kept for the end of the replay.
LEMMA PublishKeeps ==
    ASSUME IsLog, FollowInv, NEW s \in unpublished, publish(s)
    PROVE  FollowInv' /\ UNCHANGED <<log, view>>
<1>1. /\ ScreenStays /\ wire' = wire /\ unpublished' \subseteq unpublished
      /\ srv' = IF srv.phase = "closed" \/ s <= srv.after THEN srv
                ELSE IF srv.phase = "live" THEN [srv EXCEPT !.chain = Append(srv.chain, s)]
                ELSE [srv EXCEPT !.pending = srv.pending \cup ({s} \ 0 .. srv.lastSent)]
    BY DEF publish, ScreenStays
<1>2. s \in Readable /\ s \in Int /\ 0 <= s
    BY ReadableBounds DEF FollowInv, StreamTypes
<1>3. CASE srv' = srv
  <2>1. srv \in SrvRow /\ wire \in Seq(Int) /\ srv.lastSent \in Int
      BY DEF FollowInv, StreamTypes, SrvRow
  <2>2. browser.connection = "open" =>
            /\ srv.lastSent <= Len(log) - 1
            /\ \A r \in srv.pending : r \in Readable /\ r > srv.lastSent
            /\ \A i \in 1 .. Len(srv.chain) : srv.chain[i] = Poll \/ srv.chain[i] \in Readable
            /\ Carries(wire, browser.lastSeen, srv.lastSent)
      BY DEF FollowInv, HandlerInv
  <2>3. srv.page.read => /\ Reading'
                         /\ srv.lastSent <= srv.page.next /\ srv.page.next <= Len(log) - 1
                         /\ srv.page.events = Between(srv.lastSent, srv.page.next)
      BY <1>3 DEF FollowInv, PageInv, Reading, Polling, Poll
  <2>4. srv.lastSent <= srv.lastSent
      BY <2>1
  <2>5. FollowInv'
      BY <1>1, <1>3, <2>1, <2>2, <2>3, <2>4, HandlerStepKeeps
  <2> QED BY <1>1, <2>5 DEF ScreenStays
<1>4. CASE srv.phase # "closed" /\ srv' = [srv EXCEPT !.chain = Append(srv.chain, s)]
    BY <1>1, <1>2, <1>4, QueueingKeeps DEF ScreenStays
<1>5. CASE /\ srv.phase # "closed" /\ srv.phase # "live"
           /\ srv' = [srv EXCEPT !.pending = srv.pending \cup ({s} \ 0 .. srv.lastSent)]
  <2> DEFINE pending == srv.pending \cup ({s} \ 0 .. srv.lastSent)
  <2>1. pending \in SUBSET Int /\ \A r \in pending : r \in Readable /\ r > srv.lastSent
      BY <1>2, <1>5, AtWork
  <2>2. srv' = [srv EXCEPT !.pending = pending]
      BY <1>5
  <2> HIDE DEF pending
  <2>3. /\ srv' \in SrvRow /\ srv'.page = srv.page /\ srv'.phase = srv.phase
        /\ srv'.chain = srv.chain
        /\ srv'.lastSent = srv.lastSent /\ srv'.pending = pending
      BY <1>5, <2>1, <2>2, AtWork DEF SrvRow
  <2>4. Reading' = Reading
      BY <2>3 DEF Reading, Polling, Poll
  <2>5. srv.page.read => /\ Reading
                         /\ srv.lastSent <= srv.page.next /\ srv.page.next <= Len(log) - 1
                         /\ srv.page.events = Between(srv.lastSent, srv.page.next)
      BY DEF FollowInv, PageInv
  <2>6. FollowInv'
      BY <1>1, <1>5, <2>1, <2>3, <2>4, <2>5, AtWork, HandlerStepKeeps
  <2> QED BY <1>1, <2>6 DEF ScreenStays
<1>6. CASE srv.phase = "closed" \/ s <= srv.after
    BY <1>1, <1>3, <1>6
<1>7. CASE ~ (srv.phase = "closed" \/ s <= srv.after)
    BY <1>1, <1>4, <1>5, <1>7
<1> QED BY <1>6, <1>7

-----------------------------------------------------------------------------
(***************************************************************************)
(* The browser's steps, faults, and rows that arrive.                      *)
(***************************************************************************)

\* Nothing is between a watermark and itself.
LEMMA CarriesNothing ==
    ASSUME IsLog, NEW s \in Int
    PROVE  Carries(<<>>, s, s)
<1>1. Between(s, s) = {}
    BY ReadableBounds DEF Between
<1>2. ToSet(<<>>) = {} /\ \A i \in DOMAIN <<>> : FALSE
    BY DEF ToSet
<1> QED BY <1>1, <1>2 DEF Carries

\* A handler that starts, and one that has ended.
LEMMA NewStreamFields ==
    ASSUME NEW after \in Int
    PROVE  /\ NewStream(after) \in SrvRow /\ NewStream(after).phase = "replay"
           /\ NewStream(after).lastSent = after /\ NewStream(after).pending = {}
           /\ NewStream(after).chain = <<>> /\ ~ NewStream(after).page.read
           /\ Closed \in SrvRow /\ Closed.phase = "closed" /\ ~ Closed.page.read
<1>1. NoPage \in PageRow /\ ~ NoPage.read
    BY DEF NoPage, PageRow
<1>2. <<>> \in Seq(Int)
    BY EmptySeq
<1>3. \A a \in Int : /\ NewStream(a) \in SrvRow /\ NewStream(a).phase = "replay"
                     /\ NewStream(a).lastSent = a /\ NewStream(a).pending = {}
                     /\ NewStream(a).chain = <<>> /\ NewStream(a).page = NoPage
    BY <1>1, <1>2 DEF NewStream, SrvRow, Phase
<1> DEFINE n == NewStream(-1)
<1>4. n \in SrvRow /\ n.page = NoPage /\ Closed = [n EXCEPT !.phase = "closed"]
    BY <1>3 DEF Closed
<1> HIDE DEF n
<1>5. Closed \in SrvRow /\ Closed.phase = "closed" /\ Closed.page = NoPage
    BY <1>4 DEF SrvRow, Phase
<1> QED BY <1>1, <1>3, <1>5

\* Refetching the messages moves neither the connection nor the watermark.
LEMMA RefreshKeeps ==
    ASSUME NEW b \in BrowserRow
    PROVE  /\ refreshMessages(b) \in BrowserRow
           /\ refreshMessages(b).connection = b.connection
           /\ refreshMessages(b).lastSeen = b.lastSeen
           /\ refreshMessages(b).unheard = b.unheard
BY DEF refreshMessages, BrowserRow

\* A connection begins where the screen ends.
LEMMA ConnectKeeps ==
    ASSUME IsLog, FollowInv, connect
    PROVE  FollowInv' /\ UNCHANGED <<log, view>>
<1> DEFINE opened == [browser EXCEPT !.connection = "open"]
<1>1. /\ browser' = IF browser.lastSeen >= 0 THEN refreshMessages(opened) ELSE opened
      /\ srv' = NewStream(browser.lastSeen) /\ wire' = <<>>
      /\ log' = log /\ view' = view /\ unpublished' = unpublished
    BY DEF connect, logVars
<1>2. browser \in BrowserRow /\ browser.lastSeen \in Int
    BY DEF FollowInv, StreamTypes, BrowserRow
<1>3. /\ opened \in BrowserRow /\ opened.connection = "open"
      /\ opened.lastSeen = browser.lastSeen
    BY <1>2 DEF BrowserRow
<1> HIDE DEF opened
<1>4. /\ browser' \in BrowserRow /\ browser'.connection = "open"
      /\ browser'.lastSeen = browser.lastSeen
    BY <1>1, <1>3, RefreshKeeps
<1>5. /\ srv' \in SrvRow /\ srv'.phase = "replay" /\ srv'.lastSent = browser.lastSeen
      /\ srv'.pending = {} /\ srv'.chain = <<>> /\ ~ srv'.page.read
    BY <1>1, <1>2, NewStreamFields
<1>6. Readable' = Readable
    BY <1>1, SameRows
<1>7. StreamTypes'
    BY <1>1, <1>4, <1>5, <1>6, EmptySeq DEF FollowInv, StreamTypes
<1>8. ScreenInv'
    BY <1>1, <1>4 DEF FollowInv, ScreenInv, ShownLog!Shown
<1>9. Carries(wire, browser.lastSeen, srv.lastSent)'
  <2>1. Carries(<<>>, browser.lastSeen, browser.lastSeen)
      BY <1>2, CarriesNothing
  <2> QED BY <1>1, <1>4, <1>5, <1>6, <2>1 DEF Carries, Between
<1>10. HandlerInv'
  <2>1. browser.lastSeen <= Len(log) - 1 /\ browser.lastSeen <= browser.lastSeen
      BY <1>2 DEF FollowInv, ScreenInv
  <2>2. Len(srv'.chain) = 0
      BY <1>5, EmptySeq
  <2> QED BY <1>1, <1>4, <1>5, <1>9, <2>1, <2>2 DEF HandlerInv
<1>11. PageInv'
    BY <1>4, <1>5 DEF PageInv
<1> QED BY <1>1, <1>7, <1>8, <1>10, <1>11 DEF FollowInv

\* The next envelope the response carries.
LEMMA NextEnvelope ==
    ASSUME IsLog, FollowInv, browser.connection = "open", wire # <<>>
    PROVE  /\ Head(wire) \in Readable /\ Head(wire) \in Int
           /\ browser.lastSeen < Head(wire) /\ Head(wire) <= srv.lastSent
           /\ \A s \in Readable : ~ (browser.lastSeen < s /\ s < Head(wire))
           /\ Tail(wire) \in Seq(Int)
           /\ Carries(Tail(wire), Head(wire), srv.lastSent)
<1>1. /\ wire \in Seq(Int) /\ Carries(wire, browser.lastSeen, srv.lastSent)
      /\ browser.lastSeen \in Int /\ srv.lastSent \in Int
    BY DEF FollowInv, StreamTypes, HandlerInv, SrvRow, BrowserRow
<1>2. /\ Len(wire) \in Nat \ {0} /\ Head(wire) = wire[1]
      /\ DOMAIN wire = 1 .. Len(wire)
      /\ \A i \in 1 .. Len(wire) : wire[i] \in Int
    BY <1>1, EmptySeq, LenProperties, ElementOfSeq
<1>3. /\ Tail(wire) \in Seq(Int) /\ Len(Tail(wire)) = Len(wire) - 1
      /\ \A i \in 1 .. Len(Tail(wire)) : Tail(wire)[i] = wire[i + 1]
    BY <1>1, HeadTailProperties
<1>4. DOMAIN Tail(wire) = 1 .. Len(wire) - 1
    BY <1>3, LenProperties
<1> DEFINE h == wire[1]
           w == Tail(wire)
<1>5. \A i, j \in 1 .. Len(wire) : i < j => wire[i] < wire[j]
    BY <1>1, <1>2 DEF Carries
<1>6. \A i \in 1 .. Len(wire) : wire[i] \in Between(browser.lastSeen, srv.lastSent)
    BY <1>1, <1>2 DEF Carries, ToSet
<1>7. \A s \in Between(browser.lastSeen, srv.lastSent) : \E i \in 1 .. Len(wire) : s = wire[i]
    BY <1>1, <1>2 DEF Carries, ToSet
<1>8. h \in Readable /\ h \in Int /\ browser.lastSeen < h /\ h <= srv.lastSent
    BY <1>2, <1>6 DEF Between
<1>9. \A i \in 1 .. Len(wire) : wire[i] = h \/ h < wire[i]
    BY <1>2, <1>5
<1>10. ASSUME NEW s \in Readable, browser.lastSeen < s, s < h PROVE FALSE
  <2>1. s \in Int
      BY ReadableBounds
  <2>2. s \in Between(browser.lastSeen, srv.lastSent)
      BY <1>1, <1>8, <1>10, <2>1 DEF Between
  <2>3. PICK i \in 1 .. Len(wire) : s = wire[i]
      BY <1>7, <2>2
  <2> QED BY <1>8, <1>9, <1>10, <2>1, <2>3
<1>11. \A i, j \in DOMAIN w : i < j => w[i] < w[j]
  <2> SUFFICES ASSUME NEW i \in 1 .. Len(wire) - 1, NEW j \in 1 .. Len(wire) - 1, i < j
               PROVE  w[i] < w[j]
      BY <1>4
  <2>1. i + 1 \in 1 .. Len(wire) /\ j + 1 \in 1 .. Len(wire) /\ i + 1 < j + 1
      BY <1>2
  <2>2. w[i] = wire[i + 1] /\ w[j] = wire[j + 1]
      BY <1>3
  <2> QED BY <1>5, <2>1, <2>2
<1>12. ASSUME NEW s \in ToSet(w) PROVE s \in Between(h, srv.lastSent)
  <2>1. PICK i \in 1 .. Len(wire) - 1 : s = wire[i + 1]
      BY <1>3, <1>4 DEF ToSet
  <2>2. i + 1 \in 1 .. Len(wire) /\ 1 \in 1 .. Len(wire) /\ 1 < i + 1
      BY <1>2
  <2>3. h < s /\ s \in Between(browser.lastSeen, srv.lastSent)
      BY <1>5, <1>6, <2>1, <2>2
  <2> QED BY <2>3 DEF Between
<1>13. ASSUME NEW s \in Between(h, srv.lastSent) PROVE s \in ToSet(w)
  <2>1. s \in Int /\ s \in Readable /\ h < s /\ s <= srv.lastSent
      BY <1>13, ReadableBounds DEF Between
  <2>2. s \in Between(browser.lastSeen, srv.lastSent)
      BY <1>1, <1>8, <2>1 DEF Between
  <2>3. PICK i \in 1 .. Len(wire) : s = wire[i]
      BY <1>7, <2>2
  <2>4. i # 1
      BY <1>8, <2>1, <2>3
  <2>5. i - 1 \in 1 .. Len(wire) - 1 /\ (i - 1) + 1 = i
      BY <1>2, <2>4
  <2>6. w[i - 1] = s
      BY <1>3, <2>3, <2>5
  <2>7. i - 1 \in DOMAIN w
      BY <1>4, <2>5
  <2> HIDE DEF w
  <2> QED BY <2>6, <2>7 DEF ToSet
<1>14. ToSet(w) = Between(h, srv.lastSent)
    BY <1>12, <1>13
<1> QED BY <1>2, <1>3, <1>8, <1>10, <1>11, <1>14 DEF Carries

\* The envelope that arrives is the next row to show.
LEMMA ShowingKeeps ==
    ASSUME IsLog, FollowInv, followed, onChannelEvent, UNCHANGED followed
    PROVE  FollowInv' /\ ShownLog!Show
<1> DEFINE s == Head(wire)
           seen == [browser EXCEPT !.lastSeen = IF s > browser.lastSeen THEN s
                                                ELSE browser.lastSeen]
           shared == ~ browser.loaded /\ browser.fetch = "answered"
           fresh == refreshMessages(seen)
           unheard == IF shared THEN fresh.unheard \cup ({s} \ browser.answer)
                      ELSE fresh.unheard
<1>1. /\ browser.connection = "open" /\ wire # <<>>
      /\ browser' = IF Row(s).kind = "message.created"
                    THEN [fresh EXCEPT !.unheard = unheard]
                    ELSE seen
      /\ view' = IF s \in ToSet(view) THEN view ELSE Append(view, s)
      /\ wire' = Tail(wire) /\ srv' = srv /\ log' = log /\ unpublished' = unpublished
    BY DEF onChannelEvent, logVars
<1>2. /\ s \in Readable /\ s \in Int /\ browser.lastSeen < s /\ s <= srv.lastSent
      /\ \A r \in Readable : ~ (browser.lastSeen < r /\ r < s)
      /\ Tail(wire) \in Seq(Int) /\ Carries(Tail(wire), s, srv.lastSent)
    BY <1>1, NextEnvelope
<1>3. /\ browser \in BrowserRow /\ browser.lastSeen \in Int /\ browser.answer \in SUBSET Int
      /\ srv \in SrvRow /\ srv.lastSent \in Int /\ view \in Seq(Int)
    BY DEF FollowInv, StreamTypes, BrowserRow, SrvRow
<1> HIDE DEF s
<1>4. /\ seen \in BrowserRow /\ seen.connection = "open" /\ seen.lastSeen = s
  <2>1. seen = [browser EXCEPT !.lastSeen = s]
      BY <1>2, <1>3
  <2> HIDE DEF seen
  <2> QED BY <1>1, <1>2, <1>3, <2>1 DEF BrowserRow
<1> HIDE DEF seen
<1>5. fresh \in BrowserRow /\ fresh.connection = "open" /\ fresh.lastSeen = s
    BY <1>4, RefreshKeeps
<1> HIDE DEF fresh
<1>6. unheard \in SUBSET Int
    BY <1>2, <1>3, <1>5 DEF BrowserRow
<1> HIDE DEF unheard
<1>7. browser' \in BrowserRow /\ browser'.connection = "open" /\ browser'.lastSeen = s
    BY <1>1, <1>4, <1>5, <1>6 DEF BrowserRow
<1>8. view' = Append(view, s)
  <2>1. \A i \in 1 .. Len(view) : view[i] \in Int /\ view[i] <= browser.lastSeen
      BY <1>3, ElementOfSeq DEF FollowInv, ScreenInv
  <2>2. s \notin ToSet(view)
      BY <1>2, <1>3, <2>1, LenProperties DEF ToSet
  <2> QED BY <1>1, <2>2
<1>9. /\ view' \in Seq(Int) /\ Len(view') = Len(view) + 1 /\ Len(view) \in Nat
      /\ \A i \in 1 .. Len(view) : view'[i] = view[i]
      /\ view'[Len(view) + 1] = s
    BY <1>2, <1>3, <1>8, AppendProperties, LenProperties
<1>10. Readable' = Readable
    BY <1>1, SameRows
<1>11. StreamTypes'
    BY <1>1, <1>2, <1>3, <1>7, <1>9, <1>10 DEF FollowInv, StreamTypes
<1>12. 0 <= s /\ s <= Len(log) - 1 /\ Len(log) \in Nat
    BY <1>2, ReadableBounds
<1>13. ScreenInv'
  <2>1. view' # <<>>
      BY <1>9, EmptySeq
  <2>2. ShownLog!Shown' = s
      BY <1>9, <2>1 DEF ShownLog!Shown
  <2>3. \A i \in 1 .. Len(view') : view'[i] <= s
    <3>1. \A i \in 1 .. Len(view) : view'[i] \in Int /\ view'[i] <= browser.lastSeen
        BY <1>3, <1>9, ElementOfSeq DEF FollowInv, ScreenInv
    <3>2. \A i \in 1 .. Len(view') : i \in 1 .. Len(view) \/ i = Len(view) + 1
        BY <1>9
    <3>3. \A i \in 1 .. Len(view) : view'[i] <= s
        BY <1>2, <1>3, <3>1
    <3>4. view'[Len(view) + 1] <= s
        BY <1>2, <1>9
    <3> QED BY <3>2, <3>3, <3>4
  <2> QED BY <1>1, <1>2, <1>7, <1>12, <2>2, <2>3 DEF ScreenInv
<1>14. Carries(wire, browser.lastSeen, srv.lastSent)'
    BY <1>1, <1>2, <1>7, <1>10 DEF Carries, Between
<1>15. HandlerInv'
    BY <1>1, <1>2, <1>7, <1>10, <1>14 DEF FollowInv, HandlerInv, Poll
<1>16. PageInv'
    BY <1>1, <1>7, <1>10 DEF FollowInv, PageInv, Reading, Polling, Poll, Between
<1>17. s \in ShownLog!Due
  <2>1. ShownLog!Shown = browser.lastSeen
      BY DEF FollowInv, ScreenInv
  <2>2. log[s + 1].kind # "legacy"
      BY <1>2 DEF Readable, envelopeFromStoredEvent, Row
  <2>3. ASSUME NEW r \in browser.lastSeen + 1 .. s - 1 PROVE ~ Shows(log[r + 1])
    <3>1. r \in Int /\ browser.lastSeen < r /\ r < s /\ -1 <= browser.lastSeen
        BY <1>2, <1>3 DEF FollowInv, ScreenInv
    <3>2. r \notin Readable
        BY <1>2, <3>1
    <3>3. r \in Seqs
        BY <1>2, <1>3, <1>12, <3>1 DEF Seqs
    <3> QED BY <3>2, <3>3 DEF Readable, envelopeFromStoredEvent, Row, Shows
  <2>4. s \in 0 .. Len(log) - 1
      BY <1>2, <1>12
  <2> QED BY <1>2, <2>1, <2>2, <2>3, <2>4 DEF ShownLog!Due, Shows
<1>18. ShownLog!Show
    BY <1>1, <1>8, <1>17 DEF ShownLog!Show
<1> QED BY <1>11, <1>13, <1>15, <1>16, <1>18 DEF FollowInv

\* Fetching the messages concerns neither the connection nor the screen's sequence.
LEMMA FetchingKeeps ==
    ASSUME IsLog, FollowInv, listChannelMessages \/ mergeMessages
    PROVE  FollowInv' /\ UNCHANGED <<log, view>>
<1>1. UNCHANGED <<srv, wire, view, log, unpublished>>
    BY DEF listChannelMessages, mergeMessages, logVars
<1>2. browser \in BrowserRow
    BY DEF FollowInv, StreamTypes
<1>3. /\ browser' \in BrowserRow /\ browser'.connection = browser.connection
      /\ browser'.lastSeen = browser.lastSeen
  <2>1. CASE listChannelMessages
    <3>1. \A s \in Seqs : s \in Int
        BY ReadableBounds DEF Seqs
    <3> DEFINE answer == {s \in Seqs : Row(s).kind = "message.created"}
    <3>2. answer \in SUBSET Int /\ browser' = [browser EXCEPT !.fetch = "answered", !.answer = answer]
        BY <2>1, <3>1 DEF listChannelMessages
    <3> HIDE DEF answer
    <3> QED BY <1>2, <3>2 DEF BrowserRow
  <2>2. CASE mergeMessages
      BY <1>2, <2>2 DEF mergeMessages, BrowserRow
  <2> QED BY <2>1, <2>2
<1>4. Readable' = Readable
    BY <1>1, SameRows
<1>5. StreamTypes' /\ ScreenInv'
    BY <1>1, <1>3, <1>4 DEF FollowInv, StreamTypes, ScreenInv, ShownLog!Shown
<1>6. HandlerInv' /\ PageInv'
    BY <1>1, <1>3, <1>4 DEF FollowInv, HandlerInv, PageInv, Reading, Polling, Poll, Carries, Between
<1> QED BY <1>1, <1>5, <1>6 DEF FollowInv

\* A broken connection leaves no handler and nothing on the wire; what is on the screen either
\* stays or is dropped with its sequence.
LEMMA BreakingKeeps ==
    ASSUME IsLog, FollowInv, Disconnect \/ ApiRestart \/ Reopen
    PROVE  FollowInv' /\ log' = log /\ (view' = view \/ view' = <<>>)
<1>1. /\ srv' = Closed /\ wire' = <<>> /\ log' = log
      /\ unpublished' = unpublished \/ unpublished' = {}
    BY DEF Disconnect, ApiRestart, Reopen, logVars
<1>2. browser \in BrowserRow
    BY DEF FollowInv, StreamTypes
<1>3. InitBrowser \in BrowserRow /\ InitBrowser.connection = "waiting" /\ InitBrowser.lastSeen = -1
    BY DEF InitBrowser, BrowserRow
<1>4. /\ browser' \in BrowserRow /\ browser'.connection = "waiting"
      /\ \/ browser'.lastSeen = browser.lastSeen /\ view' = view
         \/ browser'.lastSeen = -1 /\ view' = <<>>
  <2>1. CASE Disconnect
      BY <1>2, <2>1 DEF Disconnect, BrowserRow
  <2>2. CASE ApiRestart
      BY <1>2, <2>2 DEF ApiRestart, BrowserRow
  <2>3. CASE Reopen
    <3>1. CASE browser' = InitBrowser
        BY <1>3, <2>3, <3>1 DEF Reopen
    <3>2. CASE browser' = [InitBrowser EXCEPT !.loaded = TRUE, !.messages = browser.messages]
      <4> DEFINE b == InitBrowser
      <4> HIDE DEF b
      <4>1. b \in BrowserRow /\ b.connection = "waiting" /\ b.lastSeen = -1
          BY <1>3 DEF b
      <4>2. browser' = [b EXCEPT !.loaded = TRUE, !.messages = browser.messages]
          BY <3>2 DEF b
      <4>3. /\ browser' \in BrowserRow /\ browser'.connection = "waiting"
            /\ browser'.lastSeen = -1
          BY <1>2, <4>1, <4>2 DEF BrowserRow
      <4> QED BY <2>3, <4>3 DEF Reopen
    <3> QED BY <2>3, <3>1, <3>2 DEF Reopen
  <2> QED BY <2>1, <2>2, <2>3
<1>5. srv' \in SrvRow /\ srv'.phase = "closed" /\ ~ srv'.page.read
  <2>1. -1 \in Int
      OBVIOUS
  <2> QED BY <1>1, <2>1, NewStreamFields
<1>6. Readable' = Readable
    BY <1>1, SameRows
<1>7. StreamTypes'
    BY <1>1, <1>4, <1>5, <1>6, EmptySeq DEF FollowInv, StreamTypes
<1>8. ScreenInv'
  <2>1. CASE browser'.lastSeen = browser.lastSeen /\ view' = view
      BY <1>1, <2>1 DEF FollowInv, ScreenInv, ShownLog!Shown
  <2>2. CASE browser'.lastSeen = -1 /\ view' = <<>>
    <3>1. Len(view') = 0 /\ Len(log) \in Nat
        BY <2>2, EmptySeq, ReadableBounds
    <3> QED BY <1>1, <2>2, <3>1 DEF ScreenInv, ShownLog!Shown
  <2> QED BY <1>4, <2>1, <2>2
<1>9. HandlerInv' /\ PageInv'
    BY <1>4, <1>5 DEF HandlerInv, PageInv
<1> QED BY <1>1, <1>4, <1>7, <1>8, <1>9 DEF FollowInv

\* A new row comes after everything that was written, buffered or read.
LEMMA RecordingKeeps ==
    ASSUME IsLog, FollowInv, RecordRow, UNCHANGED streamVars
    PROVE  FollowInv' /\ LogGrows
<1>1. LogGrows /\ IsLog' /\ Len(log) \in Nat
    BY RecordRowLog, ReadableBounds
<1>2. UNCHANGED <<srv, wire, browser, view>>
    BY DEF streamVars
<1>3. \A s \in Readable : s \in Readable'
    BY <1>1 DEF Readable, Seqs, envelopeFromStoredEvent, Row, LogGrows
<1>4. \A s \in Readable' : s <= Len(log) - 1 => s \in Readable
    BY <1>1 DEF Readable, Seqs, envelopeFromStoredEvent, Row, LogGrows
<1>5. \A s \in Readable' : s \in Int
    BY <1>1 DEF Readable, Seqs, LogGrows
<1>6. unpublished' \subseteq Readable'
  <2>1. CASE unpublished' = unpublished
      BY <1>3, <2>1 DEF FollowInv, StreamTypes
  <2>2. CASE unpublished' # unpublished
    <3>1. PICK e : /\ e \in {Plain("message.created", TheStep), Plain("RUN_STARTED", TheStep)}
                   /\ appendChannelEvent(e)
        BY <2>2 DEF RecordRow, appendComponentBrokerChannelProjectionInTx
    <3>2. unpublished' = unpublished \cup {Len(log)} /\ log' = Append(log, e)
        BY <3>1 DEF appendChannelEvent, InsertDurableEvent
    <3>3. log'[Len(log) + 1] = e
      <4>1. log \in Seq({log[i] : i \in 1 .. Len(log)} \cup {e})
          BY DEF IsLog
      <4> QED BY <3>2, <4>1, AppendProperties
    <3>4. e.kind # "legacy"
        BY <3>1 DEF Plain
    <3>5. Len(log) \in Readable'
        BY <1>1, <3>3, <3>4 DEF Readable, Seqs, envelopeFromStoredEvent, Row, LogGrows
    <3> QED BY <1>3, <3>2, <3>5 DEF FollowInv, StreamTypes
  <2> QED BY <2>1, <2>2
<1>7. \A lo, hi \in Int : hi <= Len(log) - 1 =>
          {s \in Readable' : lo < s /\ s <= hi} = {s \in Readable : lo < s /\ s <= hi}
  <2> SUFFICES ASSUME NEW lo \in Int, NEW hi \in Int, hi <= Len(log) - 1
               PROVE  {s \in Readable' : lo < s /\ s <= hi} = {s \in Readable : lo < s /\ s <= hi}
      OBVIOUS
  <2>1. \A s \in Readable' : s <= hi => s <= Len(log) - 1
      BY <1>1, <1>5
  <2> QED BY <1>3, <1>4, <2>1
<1>8. StreamTypes'
    BY <1>2, <1>6 DEF FollowInv, StreamTypes
<1>9. /\ browser.lastSeen \in Int /\ srv.lastSent \in Int /\ srv.page.next \in Int
    BY DEF FollowInv, StreamTypes, SrvRow, BrowserRow, PageRow
<1>10. ScreenInv'
    BY <1>1, <1>2, <1>9 DEF FollowInv, ScreenInv, ShownLog!Shown, LogGrows
<1>11. HandlerInv'
  <2> SUFFICES ASSUME browser'.connection = "open"
               PROVE  /\ srv'.phase # "closed"
                      /\ browser'.lastSeen <= srv'.lastSent /\ srv'.lastSent <= Len(log') - 1
                      /\ \A s \in srv'.pending : s \in Readable' /\ s > srv'.lastSent
                      /\ \A i \in 1 .. Len(srv'.chain) :
                             srv'.chain[i] = Poll \/ srv'.chain[i] \in Readable'
                      /\ Carries(wire, browser.lastSeen, srv.lastSent)'
      BY DEF HandlerInv, Poll
  <2>1. /\ srv.phase # "closed"
        /\ browser.lastSeen <= srv.lastSent /\ srv.lastSent <= Len(log) - 1
        /\ \A s \in srv.pending : s \in Readable /\ s > srv.lastSent
        /\ \A i \in 1 .. Len(srv.chain) : srv.chain[i] = Poll \/ srv.chain[i] \in Readable
        /\ Carries(wire, browser.lastSeen, srv.lastSent)
      BY <1>2 DEF FollowInv, HandlerInv
  <2>2. Carries(wire, browser.lastSeen, srv.lastSent)'
      BY <1>2, <1>7, <1>9, <2>1 DEF Carries, Between
  <2>3. srv.lastSent <= Len(log') - 1
      BY <1>1, <1>9, <2>1 DEF LogGrows
  <2> QED BY <1>2, <1>3, <2>1, <2>2, <2>3
<1>12. PageInv'
  <2>1. ASSUME srv.page.read
        PROVE  /\ Reading
               /\ srv.lastSent <= srv.page.next /\ srv.page.next <= Len(log) - 1
               /\ srv.page.events = {s \in Readable : srv.lastSent < s /\ s <= srv.page.next}
      BY <2>1 DEF FollowInv, PageInv, Between
  <2>2. ASSUME srv.page.read
        PROVE  /\ srv.page.next <= Len(log') - 1
               /\ srv.page.events = {s \in Readable' : srv.lastSent < s /\ s <= srv.page.next}
      BY <1>1, <1>7, <1>9, <2>1, <2>2 DEF LogGrows
  <2>3. srv.page.read => Reading'
      BY <1>2, <2>1 DEF Reading, Polling, Poll
  <2> QED BY <1>2, <2>1, <2>2, <2>3 DEF FollowInv, PageInv, Between
<1> QED BY <1>1, <1>8, <1>10, <1>11, <1>12 DEF FollowInv

-----------------------------------------------------------------------------
(***************************************************************************)
(* The stream implements the abstract timeline: it begins as that begins,  *)
(* and every step is a step of that or leaves it alone.                    *)
(***************************************************************************)

\* A step of the log or the stream is one of the timeline, or none.
LEMMA FollowingImplements ==
    ASSUME IsLog, FollowInv, followed, UNCHANGED followed,
           StreamStep \/ (RecordRow /\ UNCHANGED streamVars)
    PROVE  FollowInv' /\ [ShownLog!Next]_(ShownLog!vars)
<1> DEFINE Quiet == FollowInv' /\ UNCHANGED <<log, view>>
<1>1. Quiet => FollowInv' /\ [ShownLog!Next]_(ShownLog!vars)
    BY DEF ShownLog!vars
<1>2. CASE ReadPage \/ applyEventPage \/ bufferEnvelope \/ FlushBuffered \/ GoLive \/ PollTick
  <2>1. Quiet
      BY <1>2, ReadPageKeeps, ApplyPageKeeps, BufferEnvelopeKeeps, FlushKeeps, GoLiveKeeps,
         PollTickKeeps
  <2> QED BY <1>1, <2>1
<1>3. CASE connect \/ listChannelMessages \/ mergeMessages \/ \E s \in unpublished : publish(s)
  <2>1. Quiet
      BY <1>3, ConnectKeeps, FetchingKeeps, PublishKeeps
  <2> QED BY <1>1, <2>1
<1>4. CASE onChannelEvent
    BY <1>4, ShowingKeeps DEF ShownLog!Next
<1>5. CASE Disconnect \/ ApiRestart \/ Reopen
  <2>1. FollowInv' /\ log' = log /\ (view' = view \/ view' = <<>>)
      BY <1>5, BreakingKeeps
  <2>2. CASE view' = view
      BY <2>1, <2>2 DEF ShownLog!vars
  <2>3. CASE view' = <<>>
    <3>1. ShownLog!Restart
        BY <2>1, <2>3 DEF ShownLog!Restart
    <3> QED BY <2>1, <3>1 DEF ShownLog!Next
  <2> QED BY <2>1, <2>2, <2>3
<1>6. CASE RecordRow /\ UNCHANGED streamVars
  <2>1. FollowInv' /\ LogGrows
      BY <1>6, RecordingKeeps
  <2>2. ShownLog!Record
      BY <1>6, <2>1 DEF ShownLog!Record, LogGrows, streamVars
  <2> QED BY <2>1, <2>2 DEF ShownLog!Next
<1> QED BY <1>2, <1>3, <1>4, <1>5, <1>6 DEF StreamStep

\* Nobody follows the channel: the log grows, the screen stays empty.
LEMMA OthersImplement ==
    ASSUME StreamInv, Producing \/ Mirroring \/ Informing
    PROVE  StreamInv' /\ [ShownLog!Next]_(ShownLog!vars)
<1>1. (LogStays \/ LogGrows) /\ IsLog'
    BY ProducingLog, MirrorStepLog, InformingLog DEF StreamInv, Mirroring
<1>2. UNCHANGED <<view, mix, followed>> /\ ~ followed
    BY DEF StreamInv, Producing, Mirroring, Informing, streamVars, docVars
<1>3. StreamInv'
    BY <1>1, <1>2 DEF StreamInv
<1>4. CASE LogStays
    BY <1>2, <1>3, <1>4 DEF LogStays, ShownLog!vars
<1>5. CASE LogGrows
    BY <1>2, <1>3, <1>5 DEF LogGrows, ShownLog!Record, ShownLog!Next
<1> QED BY <1>1, <1>3, <1>4, <1>5

\* StreamInv is inductive, and every step from it is one of the abstract timeline.
LEMMA StepImplements ==
    ASSUME StreamInv, [Next]_vars
    PROVE  StreamInv' /\ [ShownLog!Next]_(ShownLog!vars)
<1>1. CASE Following
  <2>1. followed /\ FollowInv /\ IsLog /\ UNCHANGED <<mix, followed>>
      BY <1>1 DEF Following, StreamInv, docVars
  <2>2. FollowInv' /\ [ShownLog!Next]_(ShownLog!vars)
      BY <1>1, <2>1, FollowingImplements DEF Following
  <2>3. IsLog'
      BY <1>1, <2>1, StepLog DEF Next
  <2>4. StreamInv'
      BY <2>1, <2>2, <2>3 DEF StreamInv
  <2> QED BY <2>2, <2>4
<1>2. CASE UNCHANGED vars
  <2>1. UNCHANGED ShownLog!vars
      BY <1>2 DEF vars, ShownLog!vars
  <2>2. StreamInv'
      BY <1>2 DEF vars, StreamInv, IsLog, FollowInv, StreamTypes, ScreenInv, ShownLog!Shown,
                  HandlerInv, PageInv, Reading, Polling, Poll, Carries, Between, Readable, Seqs,
                  envelopeFromStoredEvent, Row
  <2> QED BY <2>1, <2>2
<1> QED BY <1>1, <1>2, OthersImplement DEF Next

\* In the beginning there are no rows, no connection and an empty screen.
LEMMA InitStreamInv ==
    ASSUME Init
    PROVE  StreamInv /\ ShownLog!Init
<1>1. /\ log = <<>> /\ unpublished = {} /\ srv = Closed /\ wire = <<>> /\ view = <<>>
      /\ followed = (mix \in {"stream", "messages"})
      /\ followed => browser = InitBrowser
    BY DEF Init, InitLog, InitStream
<1>2. IsLog
    BY <1>1, EmptySeq DEF IsLog
<1>3. Closed \in SrvRow /\ Closed.phase = "closed" /\ ~ Closed.page.read
  <2>1. -1 \in Int
      OBVIOUS
  <2> QED BY <2>1, NewStreamFields
<1>4. InitBrowser \in BrowserRow /\ InitBrowser.connection = "waiting" /\ InitBrowser.lastSeen = -1
    BY DEF InitBrowser, BrowserRow
<1>5. Len(log) = 0 /\ Len(view) = 0
    BY <1>1, EmptySeq
<1>6. ASSUME followed PROVE FollowInv
  <2>1. StreamTypes
      BY <1>1, <1>3, <1>4, <1>6, EmptySeq DEF StreamTypes
  <2>2. ScreenInv
      BY <1>1, <1>4, <1>5, <1>6 DEF ScreenInv, ShownLog!Shown
  <2>3. HandlerInv /\ PageInv
      BY <1>1, <1>3, <1>4, <1>6 DEF HandlerInv, PageInv
  <2> QED BY <2>1, <2>2, <2>3 DEF FollowInv
<1> QED BY <1>1, <1>2, <1>6 DEF StreamInv, ShownLog!Init

(* What a browser shows is the log: whatever the pages, polls, announcements *)
(* and broken connections, each step of the stream shows the next readable   *)
(* row, starts over, or shows nothing.  That every row is shown in the end   *)
(* is the liveness half of the abstract specification.                       *)
THEOREM StreamImplementsTimeline ==
    Spec => ShownLog!Init /\ [][ShownLog!Next]_(ShownLog!vars)
<1>1. Init => StreamInv /\ ShownLog!Init
    BY InitStreamInv
<1>2. StreamInv /\ [Next]_vars => StreamInv' /\ [ShownLog!Next]_(ShownLog!vars)
    BY StepImplements
<1> QED BY <1>1, <1>2, PTL DEF Spec

-----------------------------------------------------------------------------
(***************************************************************************)
(* Recursion over the first numbers.                                       *)
(***************************************************************************)

\* A set that has 0 and, with a number below n, the next one has all of them.
LEMMA Reaches ==
    ASSUME NEW n \in Nat, NEW S \in SUBSET (0 .. n), 0 \in S, \A k \in S : k < n => k + 1 \in S
    PROVE  \A k \in 0 .. n : k \in S
<1> SUFFICES ASSUME NEW m \in 0 .. n, m \notin S PROVE FALSE
    OBVIOUS
<1> DEFINE D == {n - k : k \in {x \in 0 .. n : x \notin S}}
<1>1. D \in SUBSET (0 .. n) /\ D # {}
    OBVIOUS
<1>2. PICK d \in D : \A r \in D : r <= d
  <2> HIDE DEF D
  <2>1. 0 \in Int /\ n \in Int
      OBVIOUS
  <2> QED BY <1>1, <2>1, LastSequence
<1>3. PICK x \in 0 .. n : x \notin S /\ d = n - x
    OBVIOUS
<1>4. x - 1 \in 0 .. n /\ x # 0
    BY <1>3
<1>5. x - 1 \in S
  <2> SUFFICES ASSUME x - 1 \notin S PROVE FALSE
      OBVIOUS
  <2>1. n - (x - 1) \in D
      BY <1>4
  <2> HIDE DEF D
  <2>2. n - (x - 1) <= n - x
      BY <1>2, <1>3, <2>1
  <2> QED BY <1>3, <2>2
<1> QED BY <1>3, <1>4, <1>5

\* Two functions that start alike and go on alike are alike.
GoAlike(n, f, g) == f[0] = g[0] /\ \A i \in 1 .. n : f[i - 1] = g[i - 1] => f[i] = g[i]
SameUpTo(k, v, w) == \A n \in 1 .. k : v[n] = w[n]

\* The two agree at every number.
LEMMA SameRecursion ==
    ASSUME NEW n \in Nat, NEW f, NEW g, GoAlike(n, f, g)
    PROVE  \A i \in 0 .. n : f[i] = g[i]
<1> DEFINE S == {i \in 0 .. n : f[i] = g[i]}
<1>1. \A k \in S : k < n => k + 1 \in S
  <2> SUFFICES ASSUME NEW k \in S, k < n PROVE k + 1 \in S
      OBVIOUS
  <2>1. k + 1 \in 1 .. n /\ (k + 1) - 1 = k /\ f[k] = g[k]
      OBVIOUS
  <2> QED BY <2>1 DEF GoAlike
<1>2. S \in SUBSET (0 .. n) /\ 0 \in S
    BY DEF GoAlike
<1>3. \A k \in 0 .. n : k \in S
  <2> HIDE DEF S
  <2> QED BY <1>1, <1>2, Reaches
<1> QED BY <1>3

\* A function that goes on as a step function G says, from a first value.
Goes(f, V, n, v, G) ==
    /\ f \in [0 .. n -> V] /\ f[0] = v
    /\ \A i \in 1 .. n : f[i] = G[<<i, f[i - 1]>>]

\* What goes on from any value in any place can be repeated from the first value on.
LEMMA RecursionExists ==
    ASSUME NEW V, NEW n \in Nat, NEW v \in V, NEW G, G \in [(1 .. n) \X V -> V]
    PROVE  \E f : Goes(f, V, n, v, G)
<1> DEFINE Runs(k, f) == f[0] = v /\ \A i \in 1 .. k : f[i] = G[<<i, f[i - 1]>>]
           S == {k \in 0 .. n : \E f \in [0 .. k -> V] : Runs(k, f)}
<1>1. 0 \in S
  <2> DEFINE f == [i \in 0 .. 0 |-> v]
  <2>1. f \in [0 .. 0 -> V] /\ f[0] = v
      OBVIOUS
  <2>2. Runs(0, f)
      BY <2>1
  <2> HIDE DEF f, Runs
  <2> QED BY <2>1, <2>2
<1>2. \A k \in S : k < n => k + 1 \in S
  <2> SUFFICES ASSUME NEW k \in S, k < n PROVE k + 1 \in S
      OBVIOUS
  <2>1. PICK f \in [0 .. k -> V] : Runs(k, f)
      OBVIOUS
  <2> DEFINE g == [i \in 0 .. k + 1 |-> IF i = k + 1 THEN G[<<k + 1, f[k]>>] ELSE f[i]]
  <2>2. k \in 0 .. n /\ k + 1 \in 1 .. n /\ f[k] \in V
      BY <2>1
  <2>3. G[<<k + 1, f[k]>>] \in V
      BY <2>2
  <2>4. g \in [0 .. k + 1 -> V]
      BY <2>2, <2>3
  <2>5. Runs(k + 1, g)
    <3>1. \A i \in 0 .. k : g[i] = f[i]
        BY <2>2
    <3>2. g[k + 1] = G[<<k + 1, f[k]>>]
        BY <2>2
    <3> HIDE DEF g
    <3>3. ASSUME NEW i \in 1 .. k + 1 PROVE g[i] = G[<<i, g[i - 1]>>]
      <4>1. CASE i = k + 1
        <5>1. i - 1 = k /\ k \in 0 .. k
            BY <2>2, <4>1
        <5>2. g[k] = f[k]
            BY <3>1, <5>1
        <5> QED BY <3>2, <4>1, <5>1, <5>2
      <4>2. CASE i # k + 1
        <5>1. i \in 1 .. k /\ i \in 0 .. k /\ i - 1 \in 0 .. k
            BY <2>2, <4>2
        <5> QED BY <2>1, <3>1, <5>1
      <4> QED BY <4>1, <4>2
    <3>4. g[0] = v
        BY <2>1, <2>2, <3>1
    <3> QED BY <3>3, <3>4
  <2> HIDE DEF g, Runs
  <2>6. k + 1 \in 0 .. n
      BY <2>2
  <2> QED BY <2>4, <2>5, <2>6
<1>3. n \in S
  <2> HIDE DEF S
  <2>1. S \in SUBSET (0 .. n)
      BY DEF S
  <2> QED BY <1>1, <1>2, <2>1, Reaches
<1> QED BY <1>3 DEF Goes

-----------------------------------------------------------------------------
(***************************************************************************)
(* The reducers: their types, and what an envelope does to what is shown   *)
(* of a step.                                                              *)
(***************************************************************************)

RunEntry == [status : {"none", "running", "complete", "partial", "failed", "needs_input"}, seq : Int]

TimelineState ==
    [runs : [Step -> RunEntry], text : [Step -> Seq(Nat)],
     ui : [Step -> Doc], activity : [Step -> Doc],
     needUi : SUBSET Step, needActivity : SUBSET Step, inert : SUBSET Int, unknown : SUBSET Step]

\* What an envelope does to the entry of a run, to the text and to the documents of a step.
RunReduced(tl, e, n, s) ==
    \/ n.runs[s] = tl.runs[s]
    \/ /\ e.step = s
       /\ n.runs[s].status = "complete" => e.kind = "RUN_FINISHED"
       /\ n.runs[s].status = "needs_input" => e.kind = "RUN_INTERRUPT"

TextReduced(tl, e, n, s) ==
    n.text[s] = IF e.kind = "TEXT_MESSAGE_CONTENT" /\ e.step = s THEN Append(tl.text[s], e.val)
                ELSE tl.text[s]

DocReduced(e, old, new, s) ==
    \/ new = old
    \/ /\ e.step = s /\ e.owner = s
       /\ \/ /\ e.kind \in {"STATE_SNAPSHOT", "ACTIVITY_SNAPSHOT"}
             /\ new = [rev |-> e.rev, val |-> e.val]
          \/ /\ e.kind \in {"STATE_DELTA", "ACTIVITY_DELTA"} /\ old.rev = e.rev
             /\ new = [rev |-> e.rev + 1, val |-> old.val + e.val]

Reduced(tl, e, n) ==
    /\ n \in TimelineState
    /\ \A s \in Step : /\ RunReduced(tl, e, n, s) /\ TextReduced(tl, e, n, s)
                       /\ DocReduced(e, tl.ui[s], n.ui[s], s)
                       /\ DocReduced(e, tl.activity[s], n.activity[s], s)

\* A timeline with nothing of this changed.
LEMMA ReducedToItself ==
    ASSUME NEW tl \in TimelineState, NEW e, NEW n \in TimelineState,
           n.runs = tl.runs, n.text = tl.text, n.ui = tl.ui, n.activity = tl.activity,
           e.kind # "TEXT_MESSAGE_CONTENT"
    PROVE  Reduced(tl, e, n)
BY DEF Reduced, RunReduced, TextReduced, DocReduced

\* Runs.
LEMMA reduceRunReduces ==
    ASSUME NEW tl \in TimelineState, NEW e \in Event, NEW seq \in Nat, e.kind \in RunEventKind
    PROVE  Reduced(tl, e, reduceRun(tl, e, seq))
<1>1. e.step \in Step /\ e.kind # "TEXT_MESSAGE_CONTENT"
    BY DEF Event, RunEventKind
<1>2. PICK status \in {"running", "complete", "failed", "needs_input"} :
          /\ status = IF e.kind = "RUN_STARTED" THEN "running" ELSE resolveWireRunOutcome(tl, e)
          /\ status = "complete" => e.kind = "RUN_FINISHED"
          /\ status = "needs_input" => e.kind = "RUN_INTERRUPT"
    BY DEF resolveWireRunOutcome, RunEventKind
<1>3. PICK x \in RunEntry : x = [status |-> status, seq |-> seq] /\ x.status = status
  <2> DEFINE x == [status |-> status, seq |-> seq]
  <2>1. seq \in Int
      OBVIOUS
  <2>2. x \in RunEntry /\ x.status = status
      BY <2>1, Zenon DEF RunEntry
  <2> HIDE DEF x
  <2>3. x = [status |-> status, seq |-> seq]
      BY DEF x
  <2> QED BY <2>2, <2>3
<1> DEFINE n == [tl EXCEPT !.runs[e.step] = x]
<1>4. /\ n \in TimelineState
      /\ n.text = tl.text /\ n.ui = tl.ui /\ n.activity = tl.activity
      /\ \A s \in Step : n.runs[s] = IF s = e.step THEN x ELSE tl.runs[s]
    BY <1>1, ZenonT(60) DEF TimelineState
<1>5. reduceRun(tl, e, seq) = tl \/ reduceRun(tl, e, seq) = n
    BY <1>2, <1>3 DEF reduceRun
<1> HIDE DEF n
<1>6. Reduced(tl, e, n)
    BY <1>1, <1>2, <1>3, <1>4 DEF Reduced, RunReduced, TextReduced, DocReduced
<1> QED BY <1>1, <1>5, <1>6, ReducedToItself

\* Text.
LEMMA reduceTextReduces ==
    ASSUME NEW tl \in TimelineState, NEW e \in Event
    PROVE  Reduced(tl, e, reduceText(tl, e))
<1>1. e.step \in Step /\ e.val \in Nat
    BY DEF Event
<1>2. CASE e.kind # "TEXT_MESSAGE_CONTENT"
    BY <1>2, ReducedToItself DEF reduceText
<1>3. CASE e.kind = "TEXT_MESSAGE_CONTENT"
  <2>1. PICK x \in Seq(Nat) : x = Append(tl.text[e.step], e.val)
      BY <1>1, AppendProperties DEF TimelineState
  <2> DEFINE n == [tl EXCEPT !.text[e.step] = x]
  <2>2. /\ n \in TimelineState
        /\ n.runs = tl.runs /\ n.ui = tl.ui /\ n.activity = tl.activity
        /\ \A s \in Step : n.text[s] = IF s = e.step THEN x ELSE tl.text[s]
      BY <1>1, ZenonT(60) DEF TimelineState
  <2>3. reduceText(tl, e) = n
      BY <1>3, <2>1 DEF reduceText
  <2> HIDE DEF n
  <2>4. Reduced(tl, e, n)
      BY <1>3, <2>1, <2>2 DEF Reduced, RunReduced, TextReduced, DocReduced
  <2> QED BY <2>3, <2>4
<1> QED BY <1>2, <1>3

\* A document that is shown, and the one a patch makes of it.
LEMMA NewDocs ==
    ASSUME NEW e \in Event, NEW old \in Doc
    PROVE  /\ [rev |-> e.rev, val |-> e.val] \in Doc
           /\ [rev |-> e.rev + 1, val |-> old.val + e.val] \in Doc
<1>1. e.rev \in Nat /\ e.val \in Nat /\ old.val \in Nat
    BY DEF Event, Doc
<1>2. e.rev + 1 \in Nat /\ old.val + e.val \in Nat
    BY <1>1
<1> QED BY <1>1, <1>2, Zenon DEF Doc

\* One document is replaced; what is asked for may change with it.
LEMMA UiReplaced ==
    ASSUME NEW tl \in TimelineState, NEW e \in Event, e.kind # "TEXT_MESSAGE_CONTENT", e.step = e.owner,
           NEW d \in Doc, DocReduced(e, tl.ui[e.step], d, e.step), NEW need \in SUBSET Step
    PROVE  Reduced(tl, e, [tl EXCEPT !.ui[e.step] = d, !.needUi = need])
<1> DEFINE n == [tl EXCEPT !.ui[e.step] = d, !.needUi = need]
<1>1. e.step \in Step
    BY DEF Event
<1>2. /\ n \in TimelineState
      /\ n.runs = tl.runs /\ n.text = tl.text /\ n.activity = tl.activity
      /\ \A s \in Step : n.ui[s] = IF s = e.step THEN d ELSE tl.ui[s]
    BY <1>1, ZenonT(60) DEF TimelineState
<1> HIDE DEF n
<1>3. Reduced(tl, e, n)
    BY <1>1, <1>2 DEF Reduced, RunReduced, TextReduced, DocReduced
<1> QED BY <1>3 DEF n

\* A new activity document of a step.
LEMMA ActivityReplaced ==
    ASSUME NEW tl \in TimelineState, NEW e \in Event, e.kind # "TEXT_MESSAGE_CONTENT", e.step = e.owner,
           NEW d \in Doc, DocReduced(e, tl.activity[e.step], d, e.step),
           NEW need \in SUBSET Step, NEW none \in SUBSET Step
    PROVE  Reduced(tl, e, [tl EXCEPT !.activity[e.step] = d, !.needActivity = need, !.unknown = none])
<1> DEFINE n == [tl EXCEPT !.activity[e.step] = d, !.needActivity = need, !.unknown = none]
<1>1. e.step \in Step
    BY DEF Event
<1>2. /\ n \in TimelineState
      /\ n.runs = tl.runs /\ n.text = tl.text /\ n.ui = tl.ui
      /\ \A s \in Step : n.activity[s] = IF s = e.step THEN d ELSE tl.activity[s]
    BY <1>1, ZenonT(60) DEF TimelineState
<1> HIDE DEF n
<1>3. Reduced(tl, e, n)
    BY <1>1, <1>2 DEF Reduced, RunReduced, TextReduced, DocReduced
<1> QED BY <1>3 DEF n

\* Only what is asked for, or has nothing to show, changes.
LEMMA NotesReplaced ==
    ASSUME NEW tl \in TimelineState, NEW e \in Event, e.kind # "TEXT_MESSAGE_CONTENT",
           NEW A \in SUBSET Step, NEW B \in SUBSET Step, NEW C \in SUBSET Step, NEW I \in SUBSET Int
    PROVE  /\ Reduced(tl, e, [tl EXCEPT !.needUi = A])
           /\ Reduced(tl, e, [tl EXCEPT !.needActivity = B, !.unknown = C])
           /\ Reduced(tl, e, [tl EXCEPT !.unknown = C])
           /\ Reduced(tl, e, [tl EXCEPT !.inert = I])
<1>1. ASSUME NEW n, n \in {[tl EXCEPT !.needUi = A], [tl EXCEPT !.unknown = C], [tl EXCEPT !.inert = I],
                           [tl EXCEPT !.needActivity = B, !.unknown = C]}
      PROVE  Reduced(tl, e, n)
  <2>1. /\ n \in TimelineState
        /\ n.runs = tl.runs /\ n.text = tl.text /\ n.ui = tl.ui /\ n.activity = tl.activity
      BY <1>1 DEF TimelineState
  <2> QED BY <2>1, ReducedToItself
<1> QED BY <1>1

\* Threads.
LEMMA ThreadReduces ==
    ASSUME NEW tl \in TimelineState, NEW e \in Event
    PROVE  /\ e.kind = "STATE_SNAPSHOT" => Reduced(tl, e, applyThreadSnapshot(tl, e))
           /\ e.kind = "STATE_DELTA" => Reduced(tl, e, applyThreadDelta(tl, e))
<1>1. e.step \in Step /\ e.owner \in Step /\ tl.ui[e.step] \in Doc /\ tl.needUi \in SUBSET Step
    BY DEF Event, TimelineState
<1>2. ASSUME e.kind = "STATE_SNAPSHOT" PROVE Reduced(tl, e, applyThreadSnapshot(tl, e))
  <2>1. CASE e.step # e.owner
    <3>1. PICK A \in SUBSET Step : A = tl.needUi \cup {e.owner}
        BY <1>1
    <3>2. applyThreadSnapshot(tl, e) = [tl EXCEPT !.needUi = A]
        BY <2>1, <3>1 DEF applyThreadSnapshot
    <3>3. Reduced(tl, e, [tl EXCEPT !.needUi = A])
        BY <1>2, NotesReplaced
    <3> QED BY <3>2, <3>3
  <2>2. CASE e.step = e.owner
    <3>1. PICK A \in SUBSET Step : A = tl.needUi \ {e.owner}
        BY <1>1
    <3>2. PICK d \in Doc : d = [rev |-> e.rev, val |-> e.val]
        BY <1>1, NewDocs
    <3>3. applyThreadSnapshot(tl, e) = [tl EXCEPT !.ui[e.step] = d, !.needUi = A]
        BY <2>2, <3>1, <3>2, Zenon DEF applyThreadSnapshot
    <3>4. DocReduced(e, tl.ui[e.step], d, e.step)
        BY <1>2, <2>2, <3>2 DEF DocReduced
    <3>5. Reduced(tl, e, [tl EXCEPT !.ui[e.step] = d, !.needUi = A])
        BY <1>2, <2>2, <3>4, UiReplaced
    <3> QED BY <3>3, <3>5
  <2> QED BY <2>1, <2>2
<1>3. ASSUME e.kind = "STATE_DELTA" PROVE Reduced(tl, e, applyThreadDelta(tl, e))
  <2>1. CASE e.step \in tl.needUi
      BY <1>3, <2>1, ReducedToItself DEF applyThreadDelta
  <2>2. CASE e.step \notin tl.needUi /\ (e.step # e.owner \/ tl.ui[e.step] = NoDoc \/ tl.ui[e.step].rev # e.rev)
    <3>1. PICK A \in SUBSET Step : A = tl.needUi \cup {e.step}
        BY <1>1
    <3>2. applyThreadDelta(tl, e) = [tl EXCEPT !.needUi = A]
        BY <2>2, <3>1 DEF applyThreadDelta
    <3>3. Reduced(tl, e, [tl EXCEPT !.needUi = A])
        BY <1>3, NotesReplaced
    <3> QED BY <3>2, <3>3
  <2>3. CASE e.step \notin tl.needUi /\ ~ (e.step # e.owner \/ tl.ui[e.step] = NoDoc \/ tl.ui[e.step].rev # e.rev)
    <3>1. PICK d \in Doc : d = [rev |-> e.rev + 1, val |-> tl.ui[e.step].val + e.val]
        BY <1>1, NewDocs
    <3>2. applyThreadDelta(tl, e) = [tl EXCEPT !.ui[e.step] = d]
        BY <2>3, <3>1 DEF applyThreadDelta
    <3>3. [tl EXCEPT !.ui[e.step] = d] = [tl EXCEPT !.ui[e.step] = d, !.needUi = tl.needUi]
        BY ZenonT(60) DEF TimelineState
    <3>4. DocReduced(e, tl.ui[e.step], d, e.step)
        BY <1>3, <2>3, <3>1 DEF DocReduced
    <3>5. Reduced(tl, e, [tl EXCEPT !.ui[e.step] = d, !.needUi = tl.needUi])
        BY <1>1, <1>3, <2>3, <3>4, UiReplaced
    <3> QED BY <3>2, <3>3, <3>5
  <2> QED BY <2>1, <2>2, <2>3
<1> QED BY <1>2, <1>3

\* Activities.
LEMMA ActivityReduces ==
    ASSUME NEW tl \in TimelineState, NEW e \in Event
    PROVE  /\ e.kind = "ACTIVITY_SNAPSHOT" => Reduced(tl, e, applyActivitySnapshot(tl, e))
           /\ e.kind = "ACTIVITY_DELTA" => Reduced(tl, e, applyActivityDelta(tl, e))
<1>1. /\ e.step \in Step /\ e.owner \in Step /\ tl.activity[e.owner] \in Doc
      /\ tl.needActivity \in SUBSET Step /\ tl.unknown \in SUBSET Step
    BY DEF Event, TimelineState
<1>2. PICK A \in SUBSET Step : A = tl.needActivity \cup {e.owner}
    BY <1>1
<1>3. PICK B \in SUBSET Step : B = tl.needActivity \ {e.owner}
    BY <1>1
<1>4. PICK C \in SUBSET Step : C = tl.unknown \cup {e.owner}
    BY <1>1
<1>5. PICK D \in SUBSET Step : D = tl.unknown \ {e.owner}
    BY <1>1
<1>6. ASSUME e.kind = "ACTIVITY_SNAPSHOT" PROVE Reduced(tl, e, applyActivitySnapshot(tl, e))
  <2>1. CASE e.step # e.owner
    <3>1. applyActivitySnapshot(tl, e) = [tl EXCEPT !.unknown = C]
        BY <1>4, <2>1 DEF applyActivitySnapshot
    <3>2. Reduced(tl, e, [tl EXCEPT !.unknown = C])
        BY <1>6, NotesReplaced
    <3> QED BY <3>1, <3>2
  <2>2. CASE e.step = e.owner /\ e.rev < tl.activity[e.owner].rev
    <3>1. applyActivitySnapshot(tl, e) = [tl EXCEPT !.needActivity = A, !.unknown = D]
        BY <1>2, <1>5, <2>2, Zenon DEF applyActivitySnapshot
    <3>2. Reduced(tl, e, [tl EXCEPT !.needActivity = A, !.unknown = D])
        BY <1>6, NotesReplaced
    <3> QED BY <3>1, <3>2
  <2>3. CASE e.step = e.owner /\ ~ (e.rev < tl.activity[e.owner].rev)
    <3>1. PICK d \in Doc : d = [rev |-> e.rev, val |-> e.val]
        BY <1>1, NewDocs
    <3>2. applyActivitySnapshot(tl, e) =
             [tl EXCEPT !.activity[e.step] = d, !.needActivity = B, !.unknown = D]
        BY <1>3, <1>5, <2>3, <3>1, Zenon DEF applyActivitySnapshot
    <3>3. DocReduced(e, tl.activity[e.step], d, e.step)
        BY <1>6, <2>3, <3>1 DEF DocReduced
    <3>4. Reduced(tl, e, [tl EXCEPT !.activity[e.step] = d, !.needActivity = B, !.unknown = D])
        BY <1>6, <2>3, <3>3, ActivityReplaced
    <3> QED BY <3>2, <3>4
  <2> QED BY <2>1, <2>2, <2>3
<1>7. ASSUME e.kind = "ACTIVITY_DELTA" PROVE Reduced(tl, e, applyActivityDelta(tl, e))
  <2>1. CASE e.step # e.owner \/ e.owner \in tl.needActivity
    <3>1. applyActivityDelta(tl, e) = [tl EXCEPT !.unknown = D]
        BY <1>5, <2>1 DEF applyActivityDelta
    <3>2. Reduced(tl, e, [tl EXCEPT !.unknown = D])
        BY <1>7, NotesReplaced
    <3> QED BY <3>1, <3>2
  <2>2. CASE ~ (e.step # e.owner \/ e.owner \in tl.needActivity)
    <3> DEFINE known == [tl EXCEPT !.unknown = D]
    <3>1. /\ known.needActivity = tl.needActivity /\ known.activity = tl.activity
          /\ applyActivityDelta(tl, e) =
                IF tl.activity[e.owner].rev # e.rev THEN [known EXCEPT !.needActivity = A]
                ELSE [known EXCEPT !.activity[e.owner] =
                         [rev |-> e.rev + 1, val |-> tl.activity[e.owner].val + e.val]]
        BY <1>1, <1>2, <1>5, <2>2, ZenonT(60) DEF applyActivityDelta, TimelineState
    <3>2. CASE tl.activity[e.owner].rev # e.rev
      <4>1. applyActivityDelta(tl, e) = [known EXCEPT !.needActivity = A]
          BY <3>1, <3>2
      <4>2. [known EXCEPT !.needActivity = A] = [tl EXCEPT !.needActivity = A, !.unknown = D]
          BY ZenonT(60) DEF TimelineState
      <4>3. Reduced(tl, e, [tl EXCEPT !.needActivity = A, !.unknown = D])
          BY <1>7, NotesReplaced
      <4> QED BY <4>1, <4>2, <4>3
    <3>3. CASE tl.activity[e.owner].rev = e.rev
      <4>1. PICK d \in Doc : d = [rev |-> e.rev + 1, val |-> tl.activity[e.owner].val + e.val]
          BY <1>1, NewDocs
      <4>2. applyActivityDelta(tl, e) = [known EXCEPT !.activity[e.step] = d]
          BY <2>2, <3>1, <3>3, <4>1
      <4>3. [known EXCEPT !.activity[e.step] = d] =
               [tl EXCEPT !.activity[e.step] = d, !.needActivity = tl.needActivity, !.unknown = D]
          BY ZenonT(60) DEF TimelineState
      <4>4. DocReduced(e, tl.activity[e.step], d, e.step)
          BY <1>7, <2>2, <3>3, <4>1 DEF DocReduced
      <4>5. Reduced(tl, e, [tl EXCEPT !.activity[e.step] = d, !.needActivity = tl.needActivity,
                                      !.unknown = D])
          BY <1>1, <1>7, <2>2, <4>4, ActivityReplaced
      <4> QED BY <4>2, <4>3, <4>5
    <3> QED BY <3>2, <3>3
  <2> QED BY <2>1, <2>2
<1> QED BY <1>6, <1>7

\* Every envelope.
LEMMA EnvelopeReduces ==
    ASSUME NEW tl \in TimelineState, NEW e \in Event, NEW seq \in Nat
    PROVE  Reduced(tl, e, reduceEnvelope(tl, e, seq))
<1>1. CASE e.kind \in RunEventKind
  <2>1. reduceEnvelope(tl, e, seq) = reduceRun(tl, e, seq)
      BY <1>1 DEF reduceEnvelope, RunEventKind, TextEventKind
  <2> QED BY <1>1, <2>1, reduceRunReduces
<1>2. CASE e.kind \in TextEventKind
    BY <1>2, reduceTextReduces DEF reduceEnvelope, RunEventKind, TextEventKind
<1>3. CASE e.kind \in {"STATE_SNAPSHOT", "STATE_DELTA"}
    BY <1>3, ThreadReduces DEF reduceEnvelope, RunEventKind, TextEventKind
<1>4. CASE e.kind \in {"ACTIVITY_SNAPSHOT", "ACTIVITY_DELTA"}
    BY <1>4, ActivityReduces DEF reduceEnvelope, RunEventKind, TextEventKind
<1>5. CASE e.kind = "inert"
  <2>1. PICK I \in SUBSET Int : I = tl.inert \cup {seq}
    <3>1. tl.inert \in SUBSET Int /\ seq \in Int
        BY DEF TimelineState
    <3> QED BY <3>1
  <2>2. reduceEnvelope(tl, e, seq) = [tl EXCEPT !.inert = I]
      BY <1>5, <2>1 DEF reduceEnvelope, RunEventKind, TextEventKind
  <2>3. Reduced(tl, e, [tl EXCEPT !.inert = I])
      BY <1>5, NotesReplaced
  <2> QED BY <2>2, <2>3
<1>6. CASE e.kind \in {"message.created", "legacy"}
  <2>1. reduceEnvelope(tl, e, seq) = tl
      BY <1>6 DEF reduceEnvelope, RunEventKind, TextEventKind
  <2> QED BY <1>6, <2>1, ReducedToItself
<1> QED BY <1>1, <1>2, <1>3, <1>4, <1>5, <1>6 DEF Event, EventKind, RunEventKind, TextEventKind, DocEventKind

-----------------------------------------------------------------------------
(***************************************************************************)
(* The timeline of a log, row by row.                                      *)
(***************************************************************************)

\* What a row of a log does to the timeline of the rows before it.
ReadRow(tl, e, seq) == IF e.kind = "legacy" THEN tl ELSE reduceEnvelope(tl, e, seq)

ReadsRows(rows, shown) ==
    /\ shown \in [0 .. Len(rows) -> TimelineState]
    /\ shown[0] = initialChannelTimelineState
    /\ \A n \in 1 .. Len(rows) : shown[n] = ReadRow(shown[n - 1], rows[n], n - 1)

\* The empty timeline is a timeline.
LEMMA InitialTyped == initialChannelTimelineState \in TimelineState
<1>1. NoRun \in RunEntry /\ NoDoc \in Doc /\ <<>> \in Seq(Nat)
    BY EmptySeq DEF NoRun, NoDoc, RunEntry, Doc
<1> QED BY <1>1 DEF initialChannelTimelineState, TimelineState

\* A row of a log is read as an envelope.
LEMMA RowRead ==
    ASSUME NEW tl \in TimelineState, NEW e \in Event, NEW seq \in Nat
    PROVE  Reduced(tl, e, ReadRow(tl, e, seq)) /\ ReadRow(tl, e, seq) \in TimelineState
<1>1. CASE e.kind = "legacy"
    BY <1>1, ReducedToItself DEF ReadRow, Reduced
<1>2. CASE e.kind # "legacy"
    BY <1>2, EnvelopeReduces DEF ReadRow, Reduced
<1> QED BY <1>1, <1>2

\* The reducer reads a log from its first row to its last.
LEMMA ReducerReads ==
    ASSUME NEW rows \in Seq(Event)
    PROVE  \E shown : ReadsRows(rows, shown) /\ channelTimelineReducer(rows) = shown[Len(rows)]
<1> DEFINE N == Len(rows)
           G == [p \in (1 .. N) \X TimelineState |-> ReadRow(p[2], rows[p[1]], p[1] - 1)]
<1>0. N \in Nat /\ \A n \in 1 .. N : rows[n] \in Event
    BY ElementOfSeq, LenProperties
<1>1. G \in [(1 .. N) \X TimelineState -> TimelineState]
  <2>1. ASSUME NEW n \in 1 .. N, NEW tl \in TimelineState PROVE ReadRow(tl, rows[n], n - 1) \in TimelineState
      BY <1>0, RowRead
  <2> QED BY <2>1
<1>2. \A n \in 1 .. N, tl \in TimelineState : G[<<n, tl>>] = ReadRow(tl, rows[n], n - 1)
    OBVIOUS
<1>3. PICK f \in [0 .. N -> TimelineState] :
          f[0] = initialChannelTimelineState /\ \A n \in 1 .. N : f[n] = G[<<n, f[n - 1]>>]
  <2> HIDE DEF G, N
  <2>1. N \in Nat /\ initialChannelTimelineState \in TimelineState
      BY <1>0, InitialTyped
  <2>2. \E f : Goes(f, TimelineState, N, initialChannelTimelineState, G)
      BY <1>1, <2>1, RecursionExists
  <2> QED BY <2>2 DEF Goes
<1>4. \A n \in 1 .. N : f[n] = ReadRow(f[n - 1], rows[n], n - 1)
    BY <1>0, <1>2, <1>3
<1>5. f = [n \in 0 .. N |-> IF n = 0 THEN initialChannelTimelineState
                            ELSE IF rows[n].kind = "legacy" THEN f[n - 1]
                            ELSE reduceEnvelope(f[n - 1], rows[n], n - 1)]
    BY <1>0, <1>3, <1>4 DEF ReadRow
<1> DEFINE Unfolds(g) == g = [n \in 0 .. N |-> IF n = 0 THEN initialChannelTimelineState
                                              ELSE IF rows[n].kind = "legacy" THEN g[n - 1]
                                              ELSE reduceEnvelope(g[n - 1], rows[n], n - 1)]
           shown == CHOOSE g : Unfolds(g)
<1>6. channelTimelineReducer(rows) = shown[N]
    BY Zenon DEF channelTimelineReducer
<1>7. Unfolds(shown)
  <2>1. Unfolds(f)
      BY <1>5
  <2> HIDE DEF Unfolds
  <2> QED BY <2>1
<1> HIDE DEF shown, N
<1>8. shown[0] = initialChannelTimelineState
    BY <1>0, <1>7
<1>9. \A n \in 1 .. N : shown[n] = ReadRow(shown[n - 1], rows[n], n - 1)
    BY <1>0, <1>7 DEF ReadRow
<1>10. \A n \in 0 .. N : shown[n] = f[n]
  <2>1. shown[0] = f[0]
      BY <1>3, <1>8
  <2>2. \A n \in 1 .. N : shown[n - 1] = f[n - 1] => shown[n] = f[n]
      BY <1>4, <1>9
  <2>3. GoAlike(N, shown, f)
      BY <2>1, <2>2 DEF GoAlike
  <2> QED BY <1>0, <2>3, SameRecursion
<1>11. shown \in [0 .. N -> TimelineState]
    BY <1>3, <1>7, <1>10
<1> QED BY <1>6, <1>8, <1>9, <1>11 DEF ReadsRows, N

\* Nothing is shown of an empty log.
LEMMA NothingShown == channelTimelineReducer(<<>>) = initialChannelTimelineState
<1>1. <<>> \in Seq(Event) /\ Len(<<>>) = 0
    BY EmptySeq
<1> QED BY <1>1, ReducerReads DEF ReadsRows

\* A new row is read after all others.
LEMMA RowAppended ==
    ASSUME NEW rows \in Seq(Event), NEW e \in Event
    PROVE  /\ channelTimelineReducer(rows) \in TimelineState
           /\ channelTimelineReducer(Append(rows, e)) =
                 ReadRow(channelTimelineReducer(rows), e, Len(rows))
<1> DEFINE N == Len(rows)
<1>1. /\ Append(rows, e) \in Seq(Event) /\ Len(Append(rows, e)) = N + 1 /\ N \in Nat
      /\ \A n \in 1 .. N : Append(rows, e)[n] = rows[n]
      /\ Append(rows, e)[N + 1] = e
    BY AppendProperties, LenProperties
<1>2. PICK f : ReadsRows(rows, f) /\ channelTimelineReducer(rows) = f[N]
    BY ReducerReads
<1>3. PICK g : ReadsRows(Append(rows, e), g) /\ channelTimelineReducer(Append(rows, e)) = g[N + 1]
    BY <1>1, ReducerReads
<1> HIDE DEF N
<1>4. \A n \in 0 .. N : f[n] = g[n]
  <2>1. f[0] = g[0]
      BY <1>2, <1>3 DEF ReadsRows
  <2>2. ASSUME NEW n \in 1 .. N, f[n - 1] = g[n - 1] PROVE f[n] = g[n]
    <3>1. n \in 1 .. N + 1
        BY <1>1
    <3>2. f[n] = ReadRow(f[n - 1], rows[n], n - 1)
        BY <1>2 DEF ReadsRows, N
    <3>3. g[n] = ReadRow(g[n - 1], Append(rows, e)[n], n - 1)
        BY <1>1, <1>3, <3>1 DEF ReadsRows
    <3> QED BY <1>1, <2>2, <3>2, <3>3
  <2>3. N \in Nat
      BY <1>1
  <2>4. \A n \in 1 .. N : f[n - 1] = g[n - 1] => f[n] = g[n]
      BY <2>2
  <2>5. GoAlike(N, f, g)
      BY <2>1, <2>4 DEF GoAlike
  <2> QED BY <2>3, <2>5, SameRecursion
<1>5. N \in 0 .. N /\ N + 1 \in 1 .. N + 1 /\ (N + 1) - 1 = N
    BY <1>1
<1>6. g[N + 1] = ReadRow(g[N], e, N)
    BY <1>1, <1>3, <1>5 DEF ReadsRows
<1>7. f[N] \in TimelineState
    BY <1>2, <1>5 DEF ReadsRows, N
<1> QED BY <1>2, <1>3, <1>4, <1>5, <1>6, <1>7 DEF N

-----------------------------------------------------------------------------
(***************************************************************************)
(* The value of a document, patch by patch.                                *)
(***************************************************************************)

Values(ps, r, f) ==
    f \in [0 .. r -> Nat] /\ f[0] = 0 /\ \A n \in 1 .. r : f[n] = f[n - 1] + ps[n]

\* The value of a document is reached patch by patch.
LEMMA PatchedUnfolds ==
    ASSUME NEW ps \in Seq(Nat), NEW r \in 0 .. Len(ps)
    PROVE  \E f : Values(ps, r, f) /\ Patched(ps, r) = f[r]
<1>0. r \in Nat /\ \A n \in 1 .. r : n \in 1 .. Len(ps) /\ ps[n] \in Nat
    BY ElementOfSeq, LenProperties
<1> DEFINE G == [p \in (1 .. r) \X Nat |-> p[2] + ps[p[1]]]
<1>1. G \in [(1 .. r) \X Nat -> Nat] /\ \A n \in 1 .. r, v \in Nat : G[<<n, v>>] = v + ps[n]
  <2>1. \A n \in 1 .. r, v \in Nat : v + ps[n] \in Nat
      BY <1>0
  <2> QED BY <2>1
<1>2. PICK f : Goes(f, Nat, r, 0, G)
  <2> HIDE DEF G
  <2>1. 0 \in Nat
      OBVIOUS
  <2> QED BY <1>0, <1>1, <2>1, RecursionExists
<1>3. f \in [0 .. r -> Nat] /\ f[0] = 0
    BY <1>2 DEF Goes
<1>4. ASSUME NEW n \in 1 .. r PROVE f[n] = f[n - 1] + ps[n]
  <2>1. n - 1 \in 0 .. r /\ f[n - 1] \in Nat
      BY <1>0, <1>3
  <2>2. f[n] = G[<<n, f[n - 1]>>]
      BY <1>2 DEF Goes
  <2> HIDE DEF G
  <2> QED BY <1>1, <2>1, <2>2
<1> HIDE DEF G
<1>5. f = [n \in 0 .. r |-> IF n = 0 THEN 0 ELSE f[n - 1] + ps[n]]
    BY <1>0, <1>3, <1>4
<1> DEFINE Unfolds(g) == g = [n \in 0 .. r |-> IF n = 0 THEN 0 ELSE g[n - 1] + ps[n]]
           value == CHOOSE g : Unfolds(g)
<1>6. Patched(ps, r) = value[r]
    BY Zenon DEF Patched
<1>7. Unfolds(value)
  <2>1. Unfolds(f)
      BY <1>5
  <2> HIDE DEF Unfolds
  <2> QED BY <2>1
<1> HIDE DEF value
<1>8. value[0] = 0
    BY <1>0, <1>7
<1>9. \A n \in 1 .. r : value[n] = value[n - 1] + ps[n]
    BY <1>0, <1>7
<1>10. \A n \in 0 .. r : value[n] = f[n]
  <2>1. \A n \in 1 .. r : value[n - 1] = f[n - 1] => value[n] = f[n]
      BY <1>4, <1>9
  <2>2. value[0] = f[0]
      BY <1>3, <1>8
  <2>3. GoAlike(r, value, f)
      BY <2>1, <2>2 DEF GoAlike
  <2> QED BY <1>0, <2>3, SameRecursion
<1>11. value \in [0 .. r -> Nat]
    BY <1>3, <1>7, <1>10
<1> QED BY <1>6, <1>8, <1>9, <1>11 DEF Values

\* The value after some patches is settled by these patches.
LEMMA ValuesAgree ==
    ASSUME NEW ps, NEW qs, NEW r \in Nat, NEW q \in Nat, r <= q, SameUpTo(r, ps, qs),
           NEW f, NEW g, Values(ps, r, f), Values(qs, q, g)
    PROVE  f[r] = g[r]
<1>2. GoAlike(r, f, g)
    BY DEF Values, GoAlike, SameUpTo
<1>3. \A n \in 0 .. r : f[n] = g[n]
    BY <1>2, SameRecursion
<1>4. r \in 0 .. r
    OBVIOUS
<1> QED BY <1>3, <1>4

\* A patch adds to the value before it, and leaves the earlier values.
LEMMA PatchedBy ==
    ASSUME NEW ps \in Seq(Nat), NEW r \in 0 .. Len(ps)
    PROVE  /\ Patched(ps, r) \in Nat
           /\ r < Len(ps) => Patched(ps, r + 1) = Patched(ps, r) + ps[r + 1]
           /\ \A p \in Nat : Patched(Append(ps, p), r) = Patched(ps, r)
<1>1. r \in Nat /\ Len(ps) \in Nat
    BY LenProperties
<1>2. PICK f : Values(ps, r, f) /\ Patched(ps, r) = f[r]
    BY PatchedUnfolds
<1>3. f[r] \in Nat
    BY <1>1, <1>2 DEF Values
<1>4. ASSUME r < Len(ps) PROVE Patched(ps, r + 1) = Patched(ps, r) + ps[r + 1]
  <2>1. r + 1 \in 0 .. Len(ps) /\ r + 1 \in Nat /\ r <= r + 1 /\ r + 1 \in 1 .. r + 1 /\ (r + 1) - 1 = r
      BY <1>1, <1>4
  <2>2. PICK g : Values(ps, r + 1, g) /\ Patched(ps, r + 1) = g[r + 1]
      BY <2>1, PatchedUnfolds
  <2>3. f[r] = g[r]
    <3>1. SameUpTo(r, ps, ps)
        BY DEF SameUpTo
    <3> QED BY <1>1, <1>2, <2>1, <2>2, <3>1, ValuesAgree
  <2>4. g[r + 1] = g[r] + ps[r + 1]
      BY <2>1, <2>2 DEF Values
  <2> QED BY <1>2, <2>2, <2>3, <2>4
<1>5. ASSUME NEW p \in Nat PROVE Patched(Append(ps, p), r) = Patched(ps, r)
  <2> DEFINE qs == Append(ps, p)
  <2>1. qs \in Seq(Nat) /\ Len(qs) = Len(ps) + 1 /\ \A n \in 1 .. Len(ps) : qs[n] = ps[n]
      BY AppendProperties
  <2> HIDE DEF qs
  <2>2. r \in 0 .. Len(qs) /\ r <= r /\ \A n \in 1 .. r : ps[n] = qs[n]
      BY <1>1, <2>1
  <2>3. PICK g : Values(qs, r, g) /\ Patched(qs, r) = g[r]
      BY <2>1, <2>2, PatchedUnfolds
  <2>4. f[r] = g[r]
    <3>1. SameUpTo(r, ps, qs)
        BY <2>2 DEF SameUpTo
    <3> QED BY <1>1, <1>2, <2>2, <2>3, <3>1, ValuesAgree
  <2> QED BY <1>2, <2>3, <2>4 DEF qs
<1> QED BY <1>2, <1>3, <1>4, <1>5

-----------------------------------------------------------------------------
(***************************************************************************)
(* The text of a turn, event by event: the places of its pieces.           *)
(***************************************************************************)

Told(text, event, n) == IF event = "text.delta" THEN Append(text, n) ELSE text

Texts(events, k, f) ==
    f \in [0 .. k -> Seq(Nat)] /\ f[0] = <<>> /\ \A n \in 1 .. k : f[n] = Told(f[n - 1], events[n], n)

\* A text stays one when an event is told.
LEMMA ToldTyped ==
    ASSUME NEW text \in Seq(Nat), NEW event, NEW n \in Nat
    PROVE  Told(text, event, n) \in Seq(Nat)
BY AppendProperties DEF Told

\* The text of a turn is reached event by event.
LEMMA TextUnfolds ==
    ASSUME NEW events, NEW k \in Nat
    PROVE  \E f : Texts(events, k, f) /\ TextUpTo(events, k) = f[k]
<1> DEFINE G == [p \in (1 .. k) \X Seq(Nat) |-> Told(p[2], events[p[1]], p[1])]
<1>1. /\ G \in [(1 .. k) \X Seq(Nat) -> Seq(Nat)]
      /\ \A n \in 1 .. k, v \in Seq(Nat) : G[<<n, v>>] = Told(v, events[n], n)
  <2>1. ASSUME NEW n \in 1 .. k, NEW v \in Seq(Nat) PROVE Told(v, events[n], n) \in Seq(Nat)
      BY ToldTyped
  <2> QED BY <2>1
<1>2. PICK f : Goes(f, Seq(Nat), k, <<>>, G)
  <2> HIDE DEF G
  <2>1. <<>> \in Seq(Nat)
      BY EmptySeq
  <2> QED BY <1>1, <2>1, RecursionExists
<1>3. f \in [0 .. k -> Seq(Nat)] /\ f[0] = <<>>
    BY <1>2 DEF Goes
<1>4. ASSUME NEW n \in 1 .. k PROVE f[n] = Told(f[n - 1], events[n], n)
  <2>1. n - 1 \in 0 .. k /\ f[n - 1] \in Seq(Nat)
      BY <1>3
  <2>2. f[n] = G[<<n, f[n - 1]>>]
      BY <1>2 DEF Goes
  <2> HIDE DEF G
  <2> QED BY <1>1, <2>1, <2>2
<1> HIDE DEF G
<1>5. f = [n \in 0 .. k |-> IF n = 0 THEN <<>> ELSE IF events[n] = "text.delta" THEN Append(f[n - 1], n)
                            ELSE f[n - 1]]
  <2>1. \A n \in 0 .. k : f[n] = IF n = 0 THEN <<>> ELSE IF events[n] = "text.delta" THEN Append(f[n - 1], n)
                                  ELSE f[n - 1]
    <3> SUFFICES ASSUME NEW n \in 0 .. k, n # 0
                 PROVE  f[n] = IF events[n] = "text.delta" THEN Append(f[n - 1], n) ELSE f[n - 1]
        BY <1>3
    <3>1. n \in 1 .. k
        OBVIOUS
    <3> QED BY <1>4, <3>1, Zenon DEF Told
  <2>2. f = [n \in 0 .. k |-> f[n]]
      BY <1>3
  <2> QED BY <2>1, <2>2, Zenon
<1> DEFINE Unfolds(g) == g = [n \in 0 .. k |-> IF n = 0 THEN <<>>
                                              ELSE IF events[n] = "text.delta" THEN Append(g[n - 1], n)
                                              ELSE g[n - 1]]
           text == CHOOSE g : Unfolds(g)
<1>6. TextUpTo(events, k) = text[k]
    BY Zenon DEF TextUpTo
<1>7. Unfolds(text)
  <2>1. Unfolds(f)
      BY <1>5
  <2> HIDE DEF Unfolds
  <2> QED BY <2>1
<1> HIDE DEF text
<1>8. text[0] = <<>>
    BY <1>7
<1>9. ASSUME NEW n \in 1 .. k PROVE text[n] = Told(text[n - 1], events[n], n)
  <2>1. n \in 0 .. k /\ n # 0
      OBVIOUS
  <2> QED BY <1>7, <2>1, Zenon DEF Told
<1>10. \A n \in 0 .. k : text[n] = f[n]
  <2>1. \A n \in 1 .. k : text[n - 1] = f[n - 1] => text[n] = f[n]
      BY <1>4, <1>9
  <2>2. text[0] = f[0]
      BY <1>3, <1>8
  <2>3. GoAlike(k, text, f)
      BY <2>1, <2>2 DEF GoAlike
  <2> QED BY <2>3, SameRecursion
<1>11. text \in [0 .. k -> Seq(Nat)]
    BY <1>3, <1>7, <1>10
<1> QED BY <1>6, <1>8, <1>9, <1>11 DEF Texts

\* The text after some events is settled by these events.
LEMMA TextsAgree ==
    ASSUME NEW v, NEW w, NEW k \in Nat, NEW m \in Nat, k <= m, SameUpTo(k, v, w),
           NEW f, NEW g, Texts(v, k, f), Texts(w, m, g)
    PROVE  f[k] = g[k]
<1>2. GoAlike(k, f, g)
    BY DEF Texts, GoAlike, SameUpTo
<1>3. \A n \in 0 .. k : f[n] = g[n]
    BY <1>2, SameRecursion
<1>4. k \in 0 .. k
    OBVIOUS
<1> QED BY <1>3, <1>4

\* An event of text adds its place, another event nothing; later events do not matter.
LEMMA TextOf ==
    ASSUME NEW events, NEW k \in Nat
    PROVE  /\ TextUpTo(events, k) \in Seq(Nat)
           /\ TextUpTo(events, 0) = <<>>
           /\ TextUpTo(events, k + 1) = Told(TextUpTo(events, k), events[k + 1], k + 1)
           /\ \A w : (\A n \in 1 .. k : events[n] = w[n]) => TextUpTo(w, k) = TextUpTo(events, k)
<1>1. PICK f : Texts(events, k, f) /\ TextUpTo(events, k) = f[k]
    BY TextUnfolds
<1>2. f[k] \in Seq(Nat)
    BY <1>1 DEF Texts
<1>3. TextUpTo(events, 0) = <<>>
  <2>1. PICK g : Texts(events, 0, g) /\ TextUpTo(events, 0) = g[0]
      BY TextUnfolds
  <2> QED BY <2>1 DEF Texts
<1>4. TextUpTo(events, k + 1) = Told(TextUpTo(events, k), events[k + 1], k + 1)
  <2>1. k + 1 \in Nat /\ k <= k + 1 /\ k + 1 \in 1 .. k + 1 /\ (k + 1) - 1 = k
      OBVIOUS
  <2>2. PICK g : Texts(events, k + 1, g) /\ TextUpTo(events, k + 1) = g[k + 1]
      BY <2>1, TextUnfolds
  <2>3. f[k] = g[k]
    <3>1. SameUpTo(k, events, events)
        BY DEF SameUpTo
    <3> QED BY <1>1, <2>1, <2>2, <3>1, TextsAgree
  <2>4. g[k + 1] = Told(g[k], events[k + 1], k + 1)
      BY <2>1, <2>2 DEF Texts
  <2> QED BY <1>1, <2>2, <2>3, <2>4
<1>5. ASSUME NEW w, \A n \in 1 .. k : events[n] = w[n] PROVE TextUpTo(w, k) = TextUpTo(events, k)
  <2>1. PICK g : Texts(w, k, g) /\ TextUpTo(w, k) = g[k]
      BY TextUnfolds
  <2>2. SameUpTo(k, events, w) /\ k <= k
      BY <1>5 DEF SameUpTo
  <2>5. f[k] = g[k]
      BY <1>1, <2>1, <2>2, TextsAgree
  <2> QED BY <1>1, <2>1, <2>5
<1> QED BY <1>1, <1>2, <1>3, <1>4, <1>5

\* What was told is the beginning of what is told later.
LEMMA TextsArePrefixes ==
    ASSUME NEW events, NEW m \in Nat, NEW k \in 0 .. m
    PROVE  IsPrefix(TextUpTo(events, k), TextUpTo(events, m))
<1> DEFINE Starts(n) == /\ Len(TextUpTo(events, k)) <= Len(TextUpTo(events, n))
                        /\ \A i \in 1 .. Len(TextUpTo(events, k)) :
                              TextUpTo(events, n)[i] = TextUpTo(events, k)[i]
           S == {n \in 0 .. m : n >= k => Starts(n)}
<1>0. \A n \in Nat : /\ TextUpTo(events, n) \in Seq(Nat) /\ Len(TextUpTo(events, n)) \in Nat
    BY TextOf, LenProperties
<1>1. Starts(k)
    BY <1>0
<1>2. ASSUME NEW n \in S, n < m PROVE n + 1 \in S
  <2>1. n \in Nat /\ n + 1 \in 0 .. m
      BY <1>2
  <2>2. CASE n >= k
    <3>1. Starts(n)
        BY <1>2, <2>2
    <3>2. TextUpTo(events, n + 1) = Told(TextUpTo(events, n), events[n + 1], n + 1)
        BY <2>1, TextOf
    <3> DEFINE x == TextUpTo(events, n)
               y == TextUpTo(events, n + 1)
               z == TextUpTo(events, k)
    <3>3. x \in Seq(Nat) /\ Len(x) \in Nat /\ Len(y) \in Nat /\ Len(z) \in Nat
        BY <1>0, <2>1
    <3>4. y = x \/ y = Append(x, n + 1)
        BY <3>2 DEF Told
    <3> HIDE DEF x, y, z
    <3>5. Len(y) >= Len(x) /\ \A i \in 1 .. Len(x) : y[i] = x[i]
      <4>1. CASE y = x
          BY <3>3, <4>1
      <4>2. CASE y = Append(x, n + 1)
          BY <2>1, <3>3, <4>2, AppendProperties
      <4> QED BY <3>4, <4>1, <4>2
    <3>6. Len(z) <= Len(x) /\ \A i \in 1 .. Len(z) : x[i] = z[i]
        BY <3>1 DEF x, z
    <3>7. Len(z) <= Len(y) /\ \A i \in 1 .. Len(z) : y[i] = z[i]
        BY <3>3, <3>5, <3>6
    <3>8. Starts(n + 1)
        BY <3>7 DEF y, z
    <3> QED BY <2>1, <3>8
  <2>3. CASE ~ (n >= k)
    <3>1. n + 1 >= k => n + 1 = k
        BY <2>1, <2>3
    <3> QED BY <1>1, <2>1, <3>1
  <2> QED BY <2>2, <2>3
<1>3. 0 \in S
  <2>1. 0 >= k => k = 0
      OBVIOUS
  <2> QED BY <1>1, <2>1
<1>4. m \in S
  <2>1. S \in SUBSET (0 .. m)
      OBVIOUS
  <2> HIDE DEF S
  <2> QED BY <1>2, <1>3, <2>1, Reaches
<1>5. Starts(m)
    BY <1>4
<1>6. SubSeq(TextUpTo(events, k), 1, Len(TextUpTo(events, k))) =
         SubSeq(TextUpTo(events, m), 1, Len(TextUpTo(events, k)))
    BY <1>0, <1>5, SubSeqProperties, SeqEqual
<1> QED BY <1>5, <1>6 DEF IsPrefix

-----------------------------------------------------------------------------
(***************************************************************************)
(* Types of the log, of its producers and of the mirror.                   *)
(***************************************************************************)

Durable == [ingested : SUBSET Nat, state : {"streaming", "completed", "required_actions", "failed"},
            captured : BOOLEAN, artifacts : {"none", "published", "failed"}]
Streamer == [at : {"idle", "writing", "polling", "capture", "artifacts", "ingest", "ended", "aborted"},
             step : Step, seen : SUBSET Nat, event : Nat, open : BOOLEAN, finished : BOOLEAN,
             terminal : BOOLEAN, healthy : BOOLEAN, out : Seq(Event), failing : BOOLEAN]

ProducerTypes == patches \in [Step -> Seq(Nat)]
MirrorTypes ==
    /\ raw \in [Step -> Seq(RawKind)] /\ durable \in [Step -> Durable]
    /\ stream \in [Tab -> Streamer]

Shown == channelTimelineReducer(log)

\* What a caller's stream is at, over the provider's events w of its turn and what the
\* database holds of it: it has taken the events in order; what it waits to ingest or to write is
\* durable; and a piece of text waits to be written last, right after its event.
MirrorKind == RunEventKind \cup TextEventKind \cup {"inert"}
Writes(q, w, d, e, last) ==
    /\ e.step = q.step /\ e.kind \in MirrorKind
    /\ e.kind = "RUN_FINISHED" => d.state = "completed"
    /\ e.kind = "RUN_INTERRUPT" => d.captured = TRUE
    /\ e.kind \in {"RUN_FINISHED", "RUN_INTERRUPT", "RUN_ERROR"} => last
    /\ e.kind = "TEXT_MESSAGE_CONTENT" =>
          /\ last /\ e.val = q.event /\ q.event >= 1 /\ w[q.event] = "text.delta"
          /\ q.finished = FALSE /\ q.at = "writing"

WritesAll(q, w, d) == \A j \in 1 .. Len(q.out) : Writes(q, w, d, q.out[j], j = Len(q.out))

Sane(q, w, d) ==
    /\ q.seen = 1 .. q.event /\ q.event <= Len(w)
    /\ q.at = "idle" => q.event = 0 /\ q.healthy = TRUE /\ q.finished = FALSE /\ q.out = <<>>
    /\ q.at \in {"capture", "artifacts", "ingest"} => q.event >= 1
    /\ q.at \in {"capture", "artifacts"} => w[q.event] \in {"turn.done", "turn.done.required"}
    /\ q.at \in {"artifacts", "ingest"} /\ w[q.event] = "turn.done.required" => d.captured = TRUE
    /\ q.at = "ingest" => w[q.event] # "reasoning"
    /\ WritesAll(q, w, d)

\* A turn ends with its first terminal event, and its state is the outcome of that event.
TurnSane(w, d) ==
    /\ \A i \in 1 .. Len(w) : w[i] \in RawTerminal => i = Len(w)
    /\ d.state # "streaming" => /\ Len(w) >= 1 /\ w[Len(w)] \in RawTerminal
                                /\ d.state = evaluateTurnDoneOutcome(w[Len(w)])

MirrorInv ==
    /\ Step # {} /\ log \in Seq(Event) /\ ProducerTypes /\ MirrorTypes
    /\ \A s \in Step : TurnSane(raw[s], durable[s])
    /\ \A c \in Tab : Sane(stream[c], raw[StepOf(c)], durable[StepOf(c)])

OutcomeInv == \A s \in Step :
    /\ Shown.runs[s].status = "complete" => durable[s].state = "completed"
    /\ Shown.runs[s].status = "needs_input" => durable[s].captured = TRUE

\* The text shown of a step that one caller streams: what the events up to some place said,
\* and, while the caller still mirrors, up to the one it is at.
Unsaid(q) ==
    \/ q.at \in {"capture", "artifacts", "ingest"}
    \/ \E j \in 1 .. Len(q.out) : q.out[j].kind = "TEXT_MESSAGE_CONTENT"
Live(q) == q.healthy = TRUE /\ q.finished = FALSE /\ q.at \notin {"ended", "aborted"}
UpTo(q) == IF Unsaid(q) THEN q.event - 1 ELSE q.event
TextFollows(q, w, text) ==
    /\ \E k \in 0 .. Len(w) : text = TextUpTo(w, k)
    /\ Live(q) => text = TextUpTo(w, UpTo(q))
TextAt(s) ==
    /\ IsFiniteSet(Streaming(s))
    /\ Streaming(s) = {} => Shown.text[s] = <<>>
    /\ \A c \in Tab : Streaming(s) = {c} => TextFollows(stream[c], raw[s], Shown.text[s])
TextInv == mix = "mirror" => \A s \in Step : TextAt(s)

-----------------------------------------------------------------------------
(***************************************************************************)
(* A row is appended: what is shown moves by its envelope.                 *)
(***************************************************************************)

\* What is shown of a log is a timeline.
LEMMA ShownTyped ==
    ASSUME log \in Seq(Event)
    PROVE  Shown \in TimelineState
<1>1. Len(log) \in 0 .. Len(log)
    BY LenProperties
<1> QED BY <1>1, ReducerReads DEF ReadsRows, Shown

\* Without a new row nothing else is shown.
LEMMA ShownStays ==
    ASSUME log' = log
    PROVE  Shown' = Shown
BY DEF Shown

\* A new row is read as its envelope.
LEMMA ShownMoves ==
    ASSUME log \in Seq(Event), NEW e \in Event, log' = Append(log, e)
    PROVE  log' \in Seq(Event) /\ Reduced(Shown, e, Shown')
<1>1. log' \in Seq(Event) /\ Len(log) \in Nat
    BY AppendProperties, LenProperties
<1>2. Shown' = channelTimelineReducer(Append(log, e))
    BY DEF Shown
<1>3. Shown' = ReadRow(Shown, e, Len(log)) /\ Shown \in TimelineState
    BY <1>2, RowAppended DEF Shown
<1> QED BY <1>1, <1>3, RowRead

\* A row without a document.
LEMMA PlainIsEvent ==
    ASSUME NEW kind \in EventKind, NEW s \in Step
    PROVE  /\ Plain(kind, s) \in Event
           /\ Plain(kind, s).kind = kind /\ Plain(kind, s).step = s
BY DEF Plain, Event

\* Rows of the mixes without a mirror: none is the outcome of a run or a piece of text.
Silent(e) == e.kind \notin {"RUN_FINISHED", "RUN_INTERRUPT", "TEXT_MESSAGE_CONTENT"}

\* The step that rows of the other actors are about.
LEMMA TheStepIsOne ==
    ASSUME Step # {}
    PROVE  TheStep \in Step
BY DEF TheStep

\* Who follows the channel, and who writes for it to be followed, tells no outcome.
LEMMA FollowingRows ==
    ASSUME Step # {}, Following
    PROVE  log' = log \/ \E e \in Event : log' = Append(log, e) /\ Silent(e)
<1>1. CASE StreamStep
    BY <1>1, StreamStepLog
<1>2. CASE RecordRow
  <2>1. PICK kind \in {"message.created", "RUN_STARTED", "legacy"} : log' = Append(log, Plain(kind, TheStep))
      BY <1>2 DEF RecordRow, appendChannelEvent, appendComponentBrokerChannelProjectionInTx, InsertDurableEvent
  <2>2. kind \in EventKind
      BY DEF EventKind, RunEventKind
  <2>3. Plain(kind, TheStep) \in Event /\ Silent(Plain(kind, TheStep))
      BY <2>2, PlainIsEvent, TheStepIsOne DEF Silent
  <2> QED BY <2>1, <2>3
<1> QED BY <1>1, <1>2 DEF Following

\* Nor does a context that is built, or the message it is built for.
LEMMA InformingRows ==
    ASSUME Step # {}, Informing
    PROVE  log' = log \/ \E e \in Event : log' = Append(log, e) /\ Silent(e)
<1>1. CASE CursorStep
    BY <1>1 DEF CursorStep, SessionChanges, buildChannelContextForTurn, TurnCreated,
                advanceSessionDeliveryCursor, setSessionDeliveryCursor, logVars
<1>2. CASE appendChannelEvent(Plain("message.created", TheStep))
  <2>1. "message.created" \in EventKind
      BY DEF EventKind
  <2>2. Plain("message.created", TheStep) \in Event /\ Silent(Plain("message.created", TheStep))
      BY <2>1, PlainIsEvent, TheStepIsOne DEF Silent
  <2> QED BY <1>2, <2>2 DEF appendChannelEvent, InsertDurableEvent
<1> QED BY <1>1, <1>2 DEF Informing

-----------------------------------------------------------------------------
(***************************************************************************)
(* Documents.  A row about one holds what its producer had.                *)
(***************************************************************************)

\* What a row says of the document of its owner, by the producer's patches.
Truthful(e) ==
    /\ e.kind \in {"STATE_SNAPSHOT", "ACTIVITY_SNAPSHOT"} =>
          e.rev <= Len(patches[e.owner]) /\ e.val = Patched(patches[e.owner], e.rev)
    /\ e.kind \in {"STATE_DELTA", "ACTIVITY_DELTA"} =>
          e.rev < Len(patches[e.owner]) /\ e.val = patches[e.owner][e.rev + 1]

\* A producer records a document truthfully, whichever lane relays it.
LEMMA RecordedIsTruthful ==
    ASSUME ProducerTypes, NEW lane \in Step, NEW s \in Step, RecordDocument(lane, s)
    PROVE  /\ UNCHANGED patches
           /\ \E e \in Event : log' = Append(log, e) /\ Silent(e) /\ Truthful(e)
<1>1. PICK e : /\ log' = Append(log, e)
               /\ \/ e \in DocEvents({"STATE_SNAPSHOT", "ACTIVITY_SNAPSHOT"}, lane, s)
                  \/ e \in PatchEvents({"STATE_DELTA", "ACTIVITY_DELTA"}, lane, s)
                  \/ e \in {Plain("legacy", s), Plain("inert", s)}
    BY DEF RecordDocument, appendComponentBrokerChannelProjectionInTx, InsertDurableEvent,
           DocEvents, PatchEvents
<1> DEFINE ps == patches[s]
<1>2. ps \in Seq(Nat) /\ Len(ps) \in Nat
    BY LenProperties DEF ProducerTypes
<1> HIDE DEF ps
<1>3. ASSUME NEW k \in {"STATE_SNAPSHOT", "ACTIVITY_SNAPSHOT"}, NEW r \in 0 .. Len(ps),
             e = [kind |-> k, step |-> lane, owner |-> s, rev |-> r, val |-> Patched(ps, r)]
      PROVE  e \in Event /\ Silent(e) /\ Truthful(e)
  <2>1. Patched(ps, r) \in Nat /\ r \in Nat
      BY <1>2, PatchedBy
  <2>2. k \in EventKind
      BY DEF EventKind, DocEventKind
  <2>3. e \in Event
      BY <1>3, <2>1, <2>2, Zenon DEF Event
  <2>4. e.kind = k /\ e.owner = s /\ e.rev = r /\ e.val = Patched(ps, r)
      BY <1>3
  <2> QED BY <2>3, <2>4 DEF Silent, Truthful, ps
<1>4. ASSUME NEW k \in {"STATE_DELTA", "ACTIVITY_DELTA"}, NEW r \in 0 .. Len(ps) - 1,
             e = [kind |-> k, step |-> lane, owner |-> s, rev |-> r, val |-> ps[r + 1]]
      PROVE  e \in Event /\ Silent(e) /\ Truthful(e)
  <2>1. ps[r + 1] \in Nat /\ r \in Nat /\ r < Len(ps)
      BY <1>2, ElementOfSeq
  <2>2. k \in EventKind
      BY DEF EventKind, DocEventKind
  <2>3. e \in Event
      BY <1>4, <2>1, <2>2, Zenon DEF Event
  <2>4. e.kind = k /\ e.owner = s /\ e.rev = r /\ e.val = ps[r + 1]
      BY <1>4
  <2> QED BY <2>1, <2>3, <2>4 DEF Silent, Truthful, ps
<1>5. ASSUME e \in {Plain("legacy", s), Plain("inert", s)}
      PROVE  e \in Event /\ Silent(e) /\ Truthful(e)
  <2>1. "legacy" \in EventKind /\ "inert" \in EventKind
      BY DEF EventKind
  <2>2. e \in Event /\ e.kind \in {"legacy", "inert"}
      BY <1>5, <2>1, PlainIsEvent
  <2>3. e.kind = "legacy" \/ e.kind = "inert"
      BY <2>2
  <2>4. e.kind \notin {"STATE_SNAPSHOT", "ACTIVITY_SNAPSHOT", "STATE_DELTA", "ACTIVITY_DELTA"} /\ Silent(e)
      BY <2>3 DEF Silent
  <2>5. Truthful(e)
      BY <2>4, Zenon DEF Truthful
  <2> QED BY <2>2, <2>4, <2>5
<1>6. e \in Event /\ Silent(e) /\ Truthful(e)
  <2>1. CASE e \in DocEvents({"STATE_SNAPSHOT", "ACTIVITY_SNAPSHOT"}, lane, s)
    <3>1. \E k \in {"STATE_SNAPSHOT", "ACTIVITY_SNAPSHOT"}, r \in 0 .. Len(ps) :
             e = [kind |-> k, step |-> lane, owner |-> s, rev |-> r, val |-> Patched(ps, r)]
        BY <2>1 DEF DocEvents, Revision, ValueAt, ps
    <3> QED BY <1>3, <3>1
  <2>2. CASE e \in PatchEvents({"STATE_DELTA", "ACTIVITY_DELTA"}, lane, s)
    <3>1. \E k \in {"STATE_DELTA", "ACTIVITY_DELTA"}, r \in 0 .. Len(ps) - 1 :
             e = [kind |-> k, step |-> lane, owner |-> s, rev |-> r, val |-> ps[r + 1]]
        BY <2>2 DEF PatchEvents, Revision, ps
    <3> QED BY <1>4, <3>1
  <2> QED BY <1>1, <1>5, <2>1, <2>2
<1>7. UNCHANGED patches
    BY DEF RecordDocument
<1> QED BY <1>1, <1>6, <1>7

DocKnown(doc, ps) == doc.rev >= 0 => doc.rev <= Len(ps) /\ doc.val = Patched(ps, doc.rev)
DocsKnown == \A s \in Step : DocKnown(Shown.ui[s], patches[s]) /\ DocKnown(Shown.activity[s], patches[s])

\* The property is that what is shown is known.
LEMMA NeverGuessesKnows == NeverGuesses <=> (mix \in {"threads", "activities"} => DocsKnown)
BY Zenon DEF NeverGuesses, DocsKnown, DocKnown, Shown, Revision, ValueAt

\* A snapshot is what the producer had; a patch fits the revision shown.
LEMMA DocMoves ==
    ASSUME ProducerTypes, NEW s \in Step, NEW e \in Event, Truthful(e),
           NEW old \in Doc, NEW new \in Doc, DocKnown(old, patches[s]), DocReduced(e, old, new, s)
    PROVE  DocKnown(new, patches[s])
<1> DEFINE ps == patches[s]
<1>1. ps \in Seq(Nat) /\ Len(ps) \in Nat
    BY LenProperties DEF ProducerTypes
<1>2. e.rev \in Nat /\ e.val \in Nat /\ e.rev >= 0
    BY DEF Event
<1>3. CASE new = old
    BY <1>3
<1>4. CASE /\ e.owner = s /\ e.kind \in {"STATE_SNAPSHOT", "ACTIVITY_SNAPSHOT"}
           /\ new = [rev |-> e.rev, val |-> e.val]
  <2>1. e.rev <= Len(ps) /\ e.val = Patched(ps, e.rev)
      BY <1>4 DEF Truthful
  <2> HIDE DEF ps
  <2>2. new.rev = e.rev /\ new.val = e.val
      BY <1>4
  <2>3. DocKnown(new, ps)
      BY <2>1, <2>2 DEF DocKnown
  <2> QED BY <2>3 DEF ps
<1>5. CASE /\ e.owner = s /\ e.kind \in {"STATE_DELTA", "ACTIVITY_DELTA"} /\ old.rev = e.rev
           /\ new = [rev |-> e.rev + 1, val |-> old.val + e.val]
  <2>1. e.rev < Len(ps) /\ e.val = ps[e.rev + 1]
      BY <1>5 DEF Truthful
  <2>2. old.val = Patched(ps, e.rev)
      BY <1>2, <1>5 DEF DocKnown
  <2> HIDE DEF ps
  <2>3. e.rev \in 0 .. Len(ps) /\ e.rev + 1 <= Len(ps)
      BY <1>1, <1>2, <2>1
  <2>4. Patched(ps, e.rev + 1) = Patched(ps, e.rev) + ps[e.rev + 1]
      BY <1>1, <2>1, <2>3, PatchedBy
  <2>5. new.rev = e.rev + 1 /\ new.val = old.val + e.val
      BY <1>5
  <2>6. DocKnown(new, ps)
      BY <2>1, <2>2, <2>3, <2>4, <2>5 DEF DocKnown
  <2> QED BY <2>6 DEF ps
<1> QED BY <1>3, <1>4, <1>5 DEF DocReduced

\* A further patch leaves what was known.
LEMMA DocKept ==
    ASSUME NEW ps \in Seq(Nat), NEW p \in Nat, NEW doc \in Doc, DocKnown(doc, ps)
    PROVE  DocKnown(doc, Append(ps, p))
<1>1. Len(ps) \in Nat /\ Len(Append(ps, p)) = Len(ps) + 1
    BY LenProperties, AppendProperties
<1>2. CASE doc.rev >= 0
  <2>1. doc.rev \in Nat /\ doc.rev <= Len(ps) /\ doc.val = Patched(ps, doc.rev)
      BY <1>2 DEF DocKnown, Doc
  <2>2. doc.rev \in 0 .. Len(ps)
      BY <1>1, <2>1
  <2>3. Patched(Append(ps, p), doc.rev) = Patched(ps, doc.rev)
      BY <2>2, PatchedBy
  <2> QED BY <1>1, <2>1, <2>3 DEF DocKnown
<1> QED BY <1>2 DEF DocKnown

\* The producer patches its document.
LEMMA PatchingKeepsDocs ==
    ASSUME log \in Seq(Event), ProducerTypes, DocsKnown, NEW s \in Step, PatchDocument(s)
    PROVE  ProducerTypes' /\ DocsKnown' /\ log' = log
<1>1. PICK p \in {1, 2} : patches' = [patches EXCEPT ![s] = Append(@, p)]
    BY DEF PatchDocument
<1>2. log' = log /\ Shown' = Shown
    BY ShownStays DEF PatchDocument, logVars
<1>3. ASSUME NEW t \in Step PROVE patches[t] \in Seq(Nat) /\ patches'[t] \in {patches[t], Append(patches[t], p)}
    BY <1>1 DEF ProducerTypes
<1>4. patches' \in [Step -> Seq(Nat)]
  <2>1. ASSUME NEW t \in Step PROVE patches'[t] \in Seq(Nat)
    <3>1. p \in Nat
        OBVIOUS
    <3>2. Append(patches[t], p) \in Seq(Nat)
        BY <1>3, <3>1, AppendProperties
    <3> QED BY <1>3, <3>2
  <2>2. patches' = [t \in Step |-> patches'[t]]
      BY <1>1 DEF ProducerTypes
  <2> QED BY <2>1, <2>2
<1>5. ASSUME NEW t \in Step, NEW doc \in Doc, DocKnown(doc, patches[t]) PROVE DocKnown(doc, patches'[t])
  <2>1. p \in Nat
      OBVIOUS
  <2> QED BY <1>3, <1>5, <2>1, DocKept
<1>6. \A t \in Step : Shown.ui[t] \in Doc /\ Shown.activity[t] \in Doc
    BY ShownTyped DEF TimelineState
<1>7. DocsKnown'
    BY <1>2, <1>5, <1>6 DEF DocsKnown
<1> QED BY <1>2, <1>4, <1>7 DEF ProducerTypes

\* A row about a document is read.
LEMMA RecordingKeepsDocs ==
    ASSUME log \in Seq(Event), ProducerTypes, DocsKnown, NEW lane \in Step, NEW s \in Step,
           RecordDocument(lane, s)
    PROVE  ProducerTypes' /\ DocsKnown' /\ \E e \in Event : log' = Append(log, e) /\ Silent(e)
<1>1. UNCHANGED patches
    BY RecordedIsTruthful
<1>2. PICK e \in Event : log' = Append(log, e) /\ Silent(e) /\ Truthful(e)
    BY RecordedIsTruthful
<1>3. Reduced(Shown, e, Shown') /\ Shown \in TimelineState
    BY <1>2, ShownMoves, ShownTyped
<1>4. \A t \in Step : /\ Shown.ui[t] \in Doc /\ Shown.activity[t] \in Doc
                      /\ Shown'.ui[t] \in Doc /\ Shown'.activity[t] \in Doc
                      /\ DocReduced(e, Shown.ui[t], Shown'.ui[t], t)
                      /\ DocReduced(e, Shown.activity[t], Shown'.activity[t], t)
    BY <1>3 DEF Reduced, TimelineState
<1>5. ASSUME NEW t \in Step
      PROVE  DocKnown(Shown'.ui[t], patches[t]) /\ DocKnown(Shown'.activity[t], patches[t])
    BY <1>2, <1>4, DocMoves DEF DocsKnown
<1>6. DocsKnown'
    BY <1>1, <1>5 DEF DocsKnown
<1> QED BY <1>1, <1>2, <1>6 DEF ProducerTypes

\* So a producer keeps what is shown known.
LEMMA ProducingKeepsDocs ==
    ASSUME Step # {}, log \in Seq(Event), ProducerTypes, Producing, mix \in {"threads", "activities"} => DocsKnown
    PROVE  /\ ProducerTypes' /\ (mix \in {"threads", "activities"} => DocsKnown)'
           /\ log' = log \/ \E e \in Event : log' = Append(log, e) /\ Silent(e)
<1>1. mix \in {"threads", "activities"} /\ mix' = mix /\ DocsKnown
    BY DEF Producing
<1>2. CASE PatchDocument(TheStep)
    BY <1>1, <1>2, PatchingKeepsDocs, TheStepIsOne
<1>3. CASE \E lane \in Step : RecordDocument(lane, TheStep)
    BY <1>1, <1>3, RecordingKeepsDocs, TheStepIsOne
<1> QED BY <1>2, <1>3 DEF Producing

-----------------------------------------------------------------------------
(***************************************************************************)
(* A caller moves: from q to p, over the provider's events w of its turn,  *)
(* while what is durable of the turn goes from d0 to d.                    *)
(***************************************************************************)

Caller(q, w, d) ==
    q \in Streamer /\ w \in Seq(RawKind) /\ d \in Durable /\ TurnSane(w, d) /\ Sane(q, w, d)

DurableGrows(d0, d) ==
    (d0.state # "streaming" => d.state = d0.state) /\ (d0.captured = TRUE => d.captured = TRUE)

Moved(q, p, w, d0, d) ==
    /\ p \in Streamer /\ d \in Durable /\ p.step = q.step /\ p.at # "idle"
    /\ DurableGrows(d0, d) /\ TurnSane(w, d) /\ Sane(p, w, d)

SaysNoMore(q, p, w) ==
    \A text \in Seq(Nat) : TextFollows(q, w, text) => TextFollows(p, w, text)
Says(q, p, w, v) ==
    \A text \in Seq(Nat) : TextFollows(q, w, text) => TextFollows(p, w, Append(text, v))

\* A caller that is over, or mirrors no more, says no more.
LEMMA OverSaysNoMore ==
    ASSUME NEW q, NEW p, NEW w, ~ Live(p)
    PROVE  SaysNoMore(q, p, w)
BY DEF SaysNoMore, TextFollows

\* A caller up to the same text says no more.
LEMMA SameSaysNoMore ==
    ASSUME NEW q, NEW p, NEW w, Live(p) => Live(q) /\ TextUpTo(w, UpTo(p)) = TextUpTo(w, UpTo(q))
    PROVE  SaysNoMore(q, p, w)
BY DEF SaysNoMore, TextFollows

\* What is durable may stay as it is.
LEMMA DurableIsKept == \A d : DurableGrows(d, d)
BY DEF DurableGrows

Prepares(q, p) == p = [q EXCEPT !.at = "writing", !.out = <<Plain("RUN_STARTED", q.step)>>]

\* A caller prepares its run.
LEMMA Prepared ==
    ASSUME NEW q, NEW p, NEW w, NEW d, Caller(q, w, d), q.at = "idle", Prepares(q, p)
    PROVE  Moved(q, p, w, d, d) /\ SaysNoMore(q, p, w)
<1> DEFINE e == Plain("RUN_STARTED", q.step)
<1>1. q.step \in Step /\ "RUN_STARTED" \in EventKind
    BY DEF Caller, Streamer, EventKind, RunEventKind
<1>2. e \in Event /\ e.kind = "RUN_STARTED" /\ e.step = q.step
    BY <1>1, PlainIsEvent
<1> HIDE DEF e
<1>3. <<e>> \in Seq(Event) /\ Len(<<e>>) = 1 /\ <<e>>[1] = e
    BY <1>2
<1> DEFINE out == <<e>>
<1> HIDE DEF out
<1>4. p = [q EXCEPT !.at = "writing", !.out = out]
    BY DEF out, e, Prepares
<1>5. /\ p \in Streamer /\ p.at = "writing" /\ p.out = out /\ p.step = q.step /\ p.event = q.event
      /\ p.seen = q.seen /\ p.finished = q.finished /\ p.healthy = q.healthy
    BY <1>3, <1>4 DEF Caller, Streamer, out
<1>6. \A j \in 1 .. Len(p.out) : j = 1 /\ p.out[j] = e
    BY <1>3, <1>5 DEF out
<1>7. q.event = 0 /\ q.healthy = TRUE /\ q.finished = FALSE /\ q.out = <<>>
    BY DEF Caller, Sane
<1>8. WritesAll(p, w, d)
    BY <1>2, <1>5, <1>6 DEF WritesAll, Writes, MirrorKind, RunEventKind
<1>9. Sane(p, w, d)
    BY <1>5, <1>8 DEF Caller, Sane
<1>10. ~ Unsaid(p) /\ ~ Unsaid(q)
    BY <1>2, <1>5, <1>6, <1>7 DEF Unsaid
<1>11. Live(q) /\ UpTo(p) = UpTo(q)
    BY <1>5, <1>7, <1>10 DEF Live, UpTo
<1> QED BY <1>5, <1>9, <1>11, SameSaysNoMore, DurableIsKept DEF Moved, Caller

\* Nothing is left to write of a text piece unless the caller is writing.
LEMMA PieceWaitsToBeWritten ==
    ASSUME NEW q, NEW w, NEW d, Sane(q, w, d), q.at # "writing"
    PROVE  \A j \in 1 .. Len(q.out) : q.out[j].kind # "TEXT_MESSAGE_CONTENT"
BY DEF Sane, Writes, WritesAll

\* What waits stays as it was when the caller goes on with the same event.
LEMMA SameToWrite ==
    ASSUME NEW q, NEW p, NEW w, NEW d0, NEW d, Sane(q, w, d0), q.at # "writing",
           p.out = q.out, p.step = q.step, DurableGrows(d0, d)
    PROVE  WritesAll(p, w, d)
BY DEF Sane, Writes, WritesAll, DurableGrows

Polls(q, p, w) ==
    p = [q EXCEPT !.seen  = q.seen \cup {q.event + 1},
                  !.event = q.event + 1,
                  !.at    = IF w[q.event + 1] = "reasoning" THEN "polling"
                            ELSE IF w[q.event + 1] \in {"turn.done", "turn.done.required"} THEN "capture"
                            ELSE "ingest"]

\* It takes the next event of the provider.
LEMMA Polled ==
    ASSUME NEW q, NEW p, NEW w, NEW d, Caller(q, w, d), q.at = "polling",
           q.event < Len(w), Polls(q, p, w)
    PROVE  Moved(q, p, w, d, d) /\ SaysNoMore(q, p, w)
<1> DEFINE i == q.event + 1
           at == IF w[i] = "reasoning" THEN "polling"
                 ELSE IF w[i] \in {"turn.done", "turn.done.required"} THEN "capture" ELSE "ingest"
           seen == q.seen \cup {i}
<1>1. q.event \in Nat /\ i \in Nat /\ i >= 1 /\ i <= Len(w) /\ Len(w) \in Nat /\ i - 1 = q.event
    BY LenProperties DEF Caller, Streamer
<1>2. q.seen = 1 .. q.event /\ seen = 1 .. i /\ seen \in SUBSET Nat
  <2>1. q.seen = 1 .. q.event
      BY DEF Caller, Sane
  <2> QED BY <1>1, <2>1
<1>3. at \in {"polling", "capture", "ingest"}
    OBVIOUS
<1>4. p = [q EXCEPT !.seen = seen, !.event = i, !.at = at]
    BY DEF Polls
<1>5. /\ at = "polling" => w[i] = "reasoning"
      /\ at = "capture" => w[i] \in {"turn.done", "turn.done.required"}
      /\ at = "ingest" => w[i] # "reasoning" /\ w[i] \notin {"turn.done", "turn.done.required"}
    OBVIOUS
<1> HIDE DEF i, at, seen
<1>6. /\ p \in Streamer /\ p.at = at /\ p.out = q.out /\ p.step = q.step /\ p.event = i
      /\ p.seen = seen /\ p.finished = q.finished /\ p.healthy = q.healthy
    BY <1>1, <1>2, <1>3, <1>4 DEF Caller, Streamer
<1>7. Sane(q, w, d) /\ TurnSane(w, d) /\ q \in Streamer /\ d \in Durable
    BY DEF Caller
<1>8. WritesAll(p, w, d)
  <2>1. DurableGrows(d, d) /\ q.at # "writing"
      BY DurableIsKept
  <2>2. p.out = q.out /\ p.step = q.step /\ Sane(q, w, d)
      BY <1>6, <1>7
  <2> QED BY <2>1, <2>2, SameToWrite
<1>9. Sane(p, w, d)
    BY <1>1, <1>2, <1>3, <1>5, <1>6, <1>8 DEF Sane
<1>10. ~ Unsaid(q) /\ (Unsaid(p) <=> at # "polling")
    BY <1>3, <1>6, <1>7, PieceWaitsToBeWritten DEF Unsaid
<1>11. TextUpTo(w, UpTo(p)) = TextUpTo(w, UpTo(q))
  <2>1. CASE at = "polling"
    <3>1. UpTo(p) = i /\ UpTo(q) = q.event
        BY <1>6, <1>10, <2>1 DEF UpTo
    <3>2. TextUpTo(w, i) = Told(TextUpTo(w, q.event), w[i], i)
        BY <1>1, TextOf DEF i
    <3> QED BY <1>5, <2>1, <3>1, <3>2 DEF Told
  <2>2. CASE at # "polling"
      BY <1>1, <1>6, <1>10, <2>2 DEF UpTo
  <2> QED BY <2>1, <2>2
<1>12. Live(p) => Live(q)
    BY <1>6 DEF Live
<1>13. SaysNoMore(q, p, w)
    BY <1>11, <1>12, SameSaysNoMore
<1> QED BY <1>3, <1>6, <1>7, <1>9, <1>13, DurableIsKept DEF Moved

\* It captures the required actions, and settles the artifacts.
LEMMA Settled ==
    ASSUME NEW q, NEW p, NEW w, NEW d0, NEW d, Caller(q, w, d0), d \in Durable,
           d.state = d0.state, d0.captured = TRUE => d.captured = TRUE,
           \/ /\ q.at = "capture" /\ p = [q EXCEPT !.at = "artifacts"]
              /\ w[q.event] = "turn.done.required" => d.captured = TRUE
           \/ q.at = "artifacts" /\ p = [q EXCEPT !.at = "ingest"]
    PROVE  Moved(q, p, w, d0, d) /\ SaysNoMore(q, p, w)
<1>1. Sane(q, w, d0) /\ TurnSane(w, d0) /\ q \in Streamer
    BY DEF Caller
<1>2. PICK at \in {"artifacts", "ingest"} :
          /\ p = [q EXCEPT !.at = at]
          /\ at = "artifacts" => q.at = "capture" /\ (w[q.event] = "turn.done.required" => d.captured = TRUE)
          /\ at = "ingest" => q.at = "artifacts"
    OBVIOUS
<1>3. /\ p \in Streamer /\ p.at = at /\ p.out = q.out /\ p.step = q.step /\ p.event = q.event
      /\ p.seen = q.seen /\ p.finished = q.finished /\ p.healthy = q.healthy
    BY <1>1, <1>2 DEF Streamer
<1>4. DurableGrows(d0, d) /\ TurnSane(w, d)
    BY <1>1 DEF DurableGrows, TurnSane
<1>5. q.at \in {"capture", "artifacts"} /\ q.at # "writing"
    BY <1>2
<1>6. WritesAll(p, w, d)
    BY <1>1, <1>3, <1>4, <1>5, SameToWrite
<1>7. q.event >= 1 /\ w[q.event] \in {"turn.done", "turn.done.required"} /\ q.seen = 1 .. q.event /\ q.event <= Len(w)
    BY <1>1, <1>5 DEF Sane
<1>8. w[q.event] = "turn.done.required" => d.captured = TRUE
    BY <1>1, <1>2 DEF Sane
<1>9. Sane(p, w, d)
    BY <1>2, <1>3, <1>6, <1>7, <1>8 DEF Sane
<1>10. UpTo(p) = UpTo(q) /\ (Live(p) => Live(q))
    BY <1>3, <1>5 DEF UpTo, Unsaid, Live
<1>11. SaysNoMore(q, p, w)
    BY <1>10, SameSaysNoMore
<1> QED BY <1>3, <1>4, <1>9, <1>11 DEF Moved

\* What the adapter makes of an event of kind k: at most one piece of text, of that event, and at most
\* one terminal row, of that outcome; either comes last.
MapsTo(q, k, out) ==
    /\ \A j \in 1 .. Len(out) :
          /\ out[j].step = q.step /\ out[j].kind \in MirrorKind
          /\ out[j].kind = "RUN_FINISHED" => k = "turn.done"
          /\ out[j].kind = "RUN_INTERRUPT" => k = "turn.done.required"
          /\ out[j].kind \in {"RUN_FINISHED", "RUN_INTERRUPT", "RUN_ERROR"} => j = Len(out)
          /\ out[j].kind = "TEXT_MESSAGE_CONTENT" =>
                j = Len(out) /\ out[j].val = q.event /\ k = "text.delta" /\ q.finished = FALSE
    /\ k = "text.delta" /\ q.finished = FALSE =>
          \E j \in 1 .. Len(out) : out[j].kind = "TEXT_MESSAGE_CONTENT"

Ingests(q, p, w, out, open) ==
    p = [q EXCEPT !.out = out, !.open = open,
                  !.finished = IF w[q.event] \in RawTerminal THEN TRUE ELSE q.finished,
                  !.at = "writing"]

\* It ingests an event and maps it.
LEMMA Ingested ==
    ASSUME NEW q, NEW p, NEW w, NEW d0, NEW d, NEW out \in Seq(Event), NEW open \in BOOLEAN,
           Caller(q, w, d0), q.at = "ingest", d \in Durable, d.captured = d0.captured,
           d.state = IF d0.state = "streaming" THEN evaluateTurnDoneOutcome(w[q.event]) ELSE d0.state,
           MapsTo(q, w[q.event], out),
           Ingests(q, p, w, out, open)
    PROVE  Moved(q, p, w, d0, d) /\ SaysNoMore(q, p, w)
<1> DEFINE k == w[q.event]
           finished == IF k \in RawTerminal THEN TRUE ELSE q.finished
<1>1. Sane(q, w, d0) /\ TurnSane(w, d0) /\ q \in Streamer /\ w \in Seq(RawKind) /\ d0 \in Durable
    BY DEF Caller
<1>2. finished \in BOOLEAN /\ (finished = FALSE => q.finished = FALSE)
    BY <1>1 DEF Streamer
<1>3. p = [q EXCEPT !.out = out, !.open = open, !.finished = finished, !.at = "writing"]
    BY DEF Ingests
<1>4. finished = FALSE => k \notin RawTerminal
    OBVIOUS
<1> HIDE DEF finished
<1>5. /\ p \in Streamer /\ p.at = "writing" /\ p.out = out /\ p.step = q.step /\ p.event = q.event
      /\ p.seen = q.seen /\ p.finished = finished /\ p.healthy = q.healthy
    BY <1>1, <1>2, <1>3 DEF Streamer
<1>6. /\ q.event \in Nat /\ q.event >= 1 /\ q.event <= Len(w) /\ Len(w) \in Nat
      /\ q.seen = 1 .. q.event /\ k # "reasoning"
      /\ k = "turn.done.required" => d0.captured = TRUE
    BY <1>1, LenProperties DEF Sane, Streamer
<1>7. q.event \in 1 .. Len(w) /\ k \in RawKind
    BY <1>1, <1>6, ElementOfSeq
<1>8. k \in RawTerminal => q.event = Len(w)
    BY <1>1, <1>7 DEF TurnSane
<1>9. k \in RawTerminal => d.state = evaluateTurnDoneOutcome(k)
    BY <1>1, <1>8 DEF TurnSane
<1>10. k = "turn.done" => d.state = "completed"
    BY <1>9 DEF RawTerminal, evaluateTurnDoneOutcome
<1>11. TurnSane(w, d)
  <2>1. CASE d0.state = "streaming" /\ k \notin RawTerminal
    <3>1. d.state = "streaming"
        BY <1>7, <2>1 DEF RawTerminal, evaluateTurnDoneOutcome
    <3> QED BY <1>1, <3>1 DEF TurnSane
  <2>2. CASE d0.state = "streaming" /\ k \in RawTerminal
      BY <1>1, <1>6, <1>8, <1>9, <2>2 DEF TurnSane
  <2>3. CASE d0.state # "streaming"
    <3>1. d.state = d0.state
        BY <2>3
    <3> QED BY <1>1, <2>3, <3>1 DEF TurnSane
  <2> QED BY <2>1, <2>2, <2>3
<1>12. DurableGrows(d0, d)
    BY DEF DurableGrows
<1> HIDE DEF k
<1>13. MapsTo(q, k, out)
    BY DEF k
<1>14. WritesAll(p, w, d)
  <2> SUFFICES ASSUME NEW j \in 1 .. Len(out) PROVE Writes(p, w, d, out[j], j = Len(out))
      BY <1>5 DEF WritesAll
  <2>1. /\ out[j].step = q.step /\ out[j].kind \in MirrorKind
        /\ out[j].kind = "RUN_FINISHED" => k = "turn.done"
        /\ out[j].kind = "RUN_INTERRUPT" => k = "turn.done.required"
        /\ out[j].kind \in {"RUN_FINISHED", "RUN_INTERRUPT", "RUN_ERROR"} => j = Len(out)
        /\ out[j].kind = "TEXT_MESSAGE_CONTENT" =>
              j = Len(out) /\ out[j].val = q.event /\ k = "text.delta" /\ q.finished = FALSE
      BY <1>13 DEF MapsTo
  <2>2. k = "text.delta" /\ q.finished = FALSE => p.finished = FALSE
    <3>1. "text.delta" \notin RawTerminal
        BY DEF RawTerminal
    <3> QED BY <1>5, <3>1 DEF finished, k
  <2> QED BY <1>5, <1>6, <1>10, <2>1, <2>2 DEF Writes, k
<1>15. Sane(p, w, d)
    BY <1>5, <1>6, <1>14 DEF Sane
<1>16. Live(p) => Live(q) /\ TextUpTo(w, UpTo(p)) = TextUpTo(w, UpTo(q))
  <2> SUFFICES ASSUME Live(p) PROVE Live(q) /\ TextUpTo(w, UpTo(p)) = TextUpTo(w, UpTo(q))
      OBVIOUS
  <2>1. q.finished = FALSE /\ Live(q)
      BY <1>2, <1>5 DEF Live
  <2>2. UpTo(q) = q.event - 1
      BY DEF UpTo, Unsaid
  <2>3. CASE k = "text.delta"
    <3>1. Unsaid(p)
        BY <1>5, <1>13, <2>1, <2>3 DEF MapsTo, Unsaid
    <3> QED BY <1>5, <2>1, <2>2, <3>1 DEF UpTo
  <2>4. CASE k # "text.delta"
    <3>1. ~ Unsaid(p)
        BY <1>5, <1>13, <2>4 DEF MapsTo, Unsaid
    <3>2. q.event - 1 \in Nat /\ (q.event - 1) + 1 = q.event
        BY <1>6
    <3>3. TextUpTo(w, q.event) = Told(TextUpTo(w, q.event - 1), w[q.event], q.event)
        BY <3>2, TextOf
    <3>4. TextUpTo(w, q.event) = TextUpTo(w, q.event - 1)
        BY <2>4, <3>3 DEF Told, k
    <3> QED BY <1>5, <2>1, <2>2, <3>1, <3>4 DEF UpTo
  <2> QED BY <2>3, <2>4
<1>17. SaysNoMore(q, p, w)
    BY <1>16, SameSaysNoMore
<1> QED BY <1>5, <1>11, <1>12, <1>15, <1>17 DEF Moved

\* A row of the caller q, which is then at p.
RowOf(q, p, w, d, e) ==
    /\ e.step = q.step
    /\ e.kind = "RUN_FINISHED" => d.state = "completed"
    /\ e.kind = "RUN_INTERRUPT" => d.captured = TRUE
    /\ e.kind = "TEXT_MESSAGE_CONTENT" => Says(q, p, w, e.val)
    /\ e.kind # "TEXT_MESSAGE_CONTENT" => SaysNoMore(q, p, w)

Advances(q, p, terminal, healthy) ==
    p = [q EXCEPT !.out = Tail(q.out), !.terminal = terminal, !.healthy = healthy,
                  !.at = IF Terminal(Head(q.out)) THEN "ended"
                         ELSE IF Tail(q.out) = <<>> THEN "polling" ELSE "writing"]

\* It writes the first row that waits; its mirror stays as it is or stops.
LEMMA Wrote ==
    ASSUME NEW q, NEW p, NEW w, NEW d, NEW terminal \in BOOLEAN, NEW healthy \in BOOLEAN,
           Caller(q, w, d), q.at = "writing", q.out # <<>>, healthy = TRUE => q.healthy = TRUE,
           Advances(q, p, terminal, healthy)
    PROVE  /\ Moved(q, p, w, d, d) /\ Head(q.out) \in Event
           /\ q.healthy = TRUE => RowOf(q, p, w, d, Head(q.out))
           /\ healthy = FALSE => SaysNoMore(q, p, w)
<1> DEFINE e == Head(q.out)
           rest == Tail(q.out)
           at == IF Terminal(e) THEN "ended" ELSE IF rest = <<>> THEN "polling" ELSE "writing"
<1>1. Sane(q, w, d) /\ TurnSane(w, d) /\ q \in Streamer /\ d \in Durable
    BY DEF Caller
<1>2. q.out \in Seq(Event) /\ Len(q.out) \in Nat /\ Len(q.out) >= 1
    BY <1>1, LenProperties, EmptySeq DEF Streamer
<1>3. /\ rest \in Seq(Event) /\ Len(rest) = Len(q.out) - 1 /\ e = q.out[1] /\ e \in Event
      /\ \A j \in 1 .. Len(rest) : rest[j] = q.out[j + 1]
    BY <1>2, HeadTailProperties, ElementOfSeq, EmptySeq
<1>4. p = [q EXCEPT !.out = rest, !.terminal = terminal, !.healthy = healthy, !.at = at]
    BY DEF Advances
<1>5. /\ at \in {"ended", "polling", "writing"} /\ (at = "polling" => rest = <<>>)
      /\ (at # "ended" => ~ Terminal(e)) /\ (rest # <<>> /\ ~ Terminal(e) => at = "writing")
    OBVIOUS
<1> HIDE DEF e, rest, at
<1>6. /\ p \in Streamer /\ p.at = at /\ p.out = rest /\ p.step = q.step /\ p.event = q.event
      /\ p.seen = q.seen /\ p.finished = q.finished /\ p.healthy = healthy
    BY <1>1, <1>3, <1>4, <1>5 DEF Streamer
<1>7. Writes(q, w, d, e, 1 = Len(q.out))
  <2>1. 1 \in 1 .. Len(q.out) /\ WritesAll(q, w, d)
      BY <1>1, <1>2 DEF Sane
  <2>2. Writes(q, w, d, q.out[1], 1 = Len(q.out))
      BY <2>1, Zenon DEF WritesAll
  <2> QED BY <1>3, <2>2, Zenon
<1>8. \A j \in 1 .. Len(rest) : Writes(q, w, d, rest[j], j = Len(rest))
  <2> SUFFICES ASSUME NEW j \in 1 .. Len(rest) PROVE Writes(q, w, d, rest[j], j = Len(rest))
      OBVIOUS
  <2>1. j + 1 \in 1 .. Len(q.out) /\ (j + 1 = Len(q.out) <=> j = Len(rest)) /\ rest[j] = q.out[j + 1]
      BY <1>2, <1>3
  <2>2. Writes(q, w, d, q.out[j + 1], j + 1 = Len(q.out))
      BY <1>1, <2>1 DEF Sane, WritesAll
  <2> QED BY <2>1, <2>2 DEF Writes
<1>9. ASSUME NEW j \in 1 .. Len(rest) PROVE ~ Terminal(e) /\ e.kind # "TEXT_MESSAGE_CONTENT" /\ at = "writing"
  <2>1. 1 # Len(q.out) /\ rest # <<>>
      BY <1>2, <1>3, EmptySeq
  <2>2. ~ Terminal(e) /\ e.kind # "TEXT_MESSAGE_CONTENT"
      BY <1>7, <2>1 DEF Writes, Terminal
  <2> QED BY <1>5, <2>1, <2>2
<1>10. WritesAll(p, w, d)
  <2> SUFFICES ASSUME NEW j \in 1 .. Len(rest) PROVE Writes(p, w, d, rest[j], j = Len(rest))
      BY <1>6 DEF WritesAll
  <2> QED BY <1>6, <1>8, <1>9 DEF Writes
<1>11. Sane(p, w, d)
    BY <1>1, <1>5, <1>6, <1>10 DEF Sane
<1>12. Moved(q, p, w, d, d)
    BY <1>1, <1>5, <1>6, <1>11, DurableIsKept DEF Moved
<1>13. ASSUME e.kind = "TEXT_MESSAGE_CONTENT", q.healthy = TRUE PROVE Says(q, p, w, e.val)
  <2>1. /\ e.val = q.event /\ q.event >= 1 /\ w[q.event] = "text.delta" /\ q.finished = FALSE
        /\ 1 = Len(q.out)
      BY <1>7, <1>13 DEF Writes
  <2>2. rest = <<>> /\ Len(rest) = 0
      BY <1>3, <2>1, EmptySeq
  <2>3. at = "polling"
      BY <1>5, <1>13, <2>2 DEF Terminal, at
  <2>4. Unsaid(q)
      BY <1>2, <1>3, <1>13 DEF Unsaid
  <2>5. ~ Unsaid(p)
      BY <1>6, <2>2, <2>3 DEF Unsaid
  <2>6. UpTo(q) = q.event - 1 /\ UpTo(p) = q.event
      BY <1>6, <2>4, <2>5 DEF UpTo
  <2>7. q.event \in Nat /\ q.event - 1 \in Nat /\ (q.event - 1) + 1 = q.event /\ q.event <= Len(w)
      BY <1>1, <2>1 DEF Streamer, Sane
  <2>8. TextUpTo(w, q.event) = Append(TextUpTo(w, q.event - 1), e.val)
    <3>1. TextUpTo(w, q.event) = Told(TextUpTo(w, q.event - 1), w[q.event], q.event)
        BY <2>7, TextOf
    <3> QED BY <2>1, <3>1 DEF Told
  <2> SUFFICES ASSUME NEW text \in Seq(Nat), TextFollows(q, w, text)
               PROVE  TextFollows(p, w, Append(text, e.val))
      BY DEF Says
  <2>9. Live(q)
      BY <1>13, <2>1 DEF Live
  <2>10. text = TextUpTo(w, q.event - 1)
      BY <2>6, <2>9 DEF TextFollows
  <2>11. q.event \in 0 .. Len(w)
      BY <2>7
  <2> QED BY <2>6, <2>8, <2>10, <2>11 DEF TextFollows
<1>14. ASSUME e.kind # "TEXT_MESSAGE_CONTENT" PROVE SaysNoMore(q, p, w)
  <2> SUFFICES ASSUME Live(p) PROVE SaysNoMore(q, p, w)
      BY OverSaysNoMore
  <2>1. healthy = TRUE /\ q.finished = FALSE
      BY <1>6 DEF Live
  <2>2. Live(q)
      BY <2>1 DEF Live
  <2>3. ASSUME NEW j \in 1 .. Len(q.out), q.out[j].kind = "TEXT_MESSAGE_CONTENT"
        PROVE  \E i \in 1 .. Len(rest) : rest[i].kind = "TEXT_MESSAGE_CONTENT"
    <3>1. j # 1 /\ j - 1 \in 1 .. Len(rest) /\ (j - 1) + 1 = j
        BY <1>2, <1>3, <1>14, <2>3
    <3>2. rest[j - 1] = q.out[j]
        BY <1>3, <3>1
    <3> QED BY <2>3, <3>1, <3>2
  <2>4. ASSUME NEW i \in 1 .. Len(rest), rest[i].kind = "TEXT_MESSAGE_CONTENT"
        PROVE  \E j \in 1 .. Len(q.out) : q.out[j].kind = "TEXT_MESSAGE_CONTENT"
      BY <1>2, <1>3, <2>4
  <2>5. Unsaid(p) <=> Unsaid(q)
      BY <1>5, <1>6, <2>3, <2>4 DEF Unsaid
  <2>6. UpTo(p) = UpTo(q)
      BY <1>6, <2>5 DEF UpTo
  <2> QED BY <2>2, <2>6, SameSaysNoMore
<1>15. healthy = FALSE => SaysNoMore(q, p, w)
    BY <1>6, OverSaysNoMore DEF Live
<1>16. q.healthy = TRUE => RowOf(q, p, w, d, e)
    BY <1>7, <1>13, <1>14 DEF RowOf, Writes
<1> QED BY <1>3, <1>12, <1>15, <1>16 DEF e

\* Nothing waits to be written.
LEMMA Written ==
    ASSUME NEW q, NEW p, NEW w, NEW d, Caller(q, w, d), q.at = "writing", q.out = <<>>,
           p = [q EXCEPT !.at = "polling"]
    PROVE  Moved(q, p, w, d, d) /\ SaysNoMore(q, p, w)
<1>1. Sane(q, w, d) /\ TurnSane(w, d) /\ q \in Streamer /\ d \in Durable
    BY DEF Caller
<1>2. /\ p \in Streamer /\ p.at = "polling" /\ p.out = q.out /\ p.step = q.step /\ p.event = q.event
      /\ p.seen = q.seen /\ p.finished = q.finished /\ p.healthy = q.healthy
    BY <1>1 DEF Streamer
<1>3. \A j \in 1 .. Len(q.out) : FALSE
    BY EmptySeq
<1>4. Sane(p, w, d)
    BY <1>1, <1>2, <1>3 DEF Sane, WritesAll
<1>5. UpTo(p) = UpTo(q) /\ (Live(p) => Live(q))
    BY <1>2, <1>3 DEF UpTo, Unsaid, Live
<1>6. SaysNoMore(q, p, w)
    BY <1>5, SameSaysNoMore
<1> QED BY <1>1, <1>2, <1>4, <1>6, DurableIsKept DEF Moved

\* A call throws: the caller is over, or has the error of its run left to write.
FailureRows(q, out) ==
    \A j \in 1 .. Len(out) :
       /\ out[j].step = q.step /\ out[j].kind \in {"TEXT_MESSAGE_END", "RUN_ERROR"}
       /\ out[j].kind = "RUN_ERROR" => j = Len(out)
Fails(q, p) ==
    \/ \E at \in {"ended", "aborted"}, terminal \in BOOLEAN :
          p = [q EXCEPT !.at = at, !.terminal = terminal, !.out = <<>>]
    \/ \E out \in Seq(Event) :
          /\ FailureRows(q, out)
          /\ p = [q EXCEPT !.at = "writing", !.failing = TRUE, !.terminal = TRUE, !.finished = TRUE,
                           !.open = FALSE, !.out = out]

\* Then it says no more.
LEMMA Thrown ==
    ASSUME NEW q, NEW p, NEW w, NEW d, Caller(q, w, d), q.at # "idle", Fails(q, p)
    PROVE  Moved(q, p, w, d, d) /\ SaysNoMore(q, p, w)
<1>1. Sane(q, w, d) /\ TurnSane(w, d) /\ q \in Streamer /\ d \in Durable
    BY DEF Caller
<1>2. CASE \E at \in {"ended", "aborted"}, terminal \in BOOLEAN :
              p = [q EXCEPT !.at = at, !.terminal = terminal, !.out = <<>>]
  <2>1. <<>> \in Seq(Event) /\ \A j \in 1 .. Len(<<>>) : FALSE
      BY EmptySeq
  <2>2. /\ p \in Streamer /\ p.at \in {"ended", "aborted"} /\ p.out = <<>> /\ p.step = q.step
        /\ p.event = q.event /\ p.seen = q.seen
      BY <1>1, <1>2, <2>1 DEF Streamer
  <2>3. Sane(p, w, d)
      BY <1>1, <2>1, <2>2 DEF Sane, WritesAll
  <2>4. ~ Live(p)
      BY <2>2 DEF Live
  <2> QED BY <1>1, <2>2, <2>3, <2>4, OverSaysNoMore, DurableIsKept DEF Moved
<1>3. ASSUME NEW out \in Seq(Event), FailureRows(q, out),
             p = [q EXCEPT !.at = "writing", !.failing = TRUE, !.terminal = TRUE, !.finished = TRUE,
                           !.open = FALSE, !.out = out]
      PROVE  Moved(q, p, w, d, d) /\ SaysNoMore(q, p, w)
  <2>1. /\ p \in Streamer /\ p.at = "writing" /\ p.out = out /\ p.step = q.step
        /\ p.event = q.event /\ p.seen = q.seen /\ p.finished = TRUE
      BY <1>1, <1>3 DEF Streamer
  <2>2. WritesAll(p, w, d)
    <3>1. ASSUME NEW j \in 1 .. Len(p.out) PROVE Writes(p, w, d, p.out[j], j = Len(p.out))
      <4>1. /\ p.out[j].step = p.step /\ p.out[j].kind \in {"TEXT_MESSAGE_END", "RUN_ERROR"}
            /\ p.out[j].kind = "RUN_ERROR" => j = Len(p.out)
          BY <1>3, <2>1 DEF FailureRows
      <4> QED BY <4>1 DEF Writes, MirrorKind, RunEventKind, TextEventKind
    <3> QED BY <3>1 DEF WritesAll
  <2>3. Sane(p, w, d)
      BY <1>1, <2>1, <2>2 DEF Sane
  <2>4. ~ Live(p)
      BY <2>1 DEF Live
  <2> QED BY <1>1, <2>1, <2>3, <2>4, OverSaysNoMore, DurableIsKept DEF Moved
<1>4. CASE \E out \in Seq(Event) :
              /\ FailureRows(q, out)
              /\ p = [q EXCEPT !.at = "writing", !.failing = TRUE, !.terminal = TRUE, !.finished = TRUE,
                               !.open = FALSE, !.out = out]
    BY <1>3, <1>4, Zenon
<1> QED BY <1>2, <1>4, Zenon DEF Fails

-----------------------------------------------------------------------------
(***************************************************************************)
(* The actions of a caller, each of which moves it.                        *)
(***************************************************************************)

CallerMoves(c, p, d) ==
    /\ raw' = raw /\ stream' = [stream EXCEPT ![c] = p]
    /\ durable' = [durable EXCEPT ![StepOf(c)] = d]
    /\ Moved(stream[c], p, raw[StepOf(c)], durable[StepOf(c)], d)
    /\ \/ log' = log /\ SaysNoMore(stream[c], p, raw[StepOf(c)])
       \/ \E e \in Event : log' = Append(log, e) /\ RowOf(stream[c], p, raw[StepOf(c)], d, e)

\* A caller by the invariant.
LEMMA CallerAt ==
    ASSUME MirrorInv, NEW c \in Tab
    PROVE  /\ Caller(stream[c], raw[StepOf(c)], durable[StepOf(c)])
           /\ StepOf(c) \in Step /\ StepOf(c) = stream[c].step
<1>1. StepOf(c) \in Step /\ StepOf(c) = stream[c].step
    BY DEF MirrorInv, MirrorTypes, Streamer, StepOf
<1> QED BY <1>1 DEF MirrorInv, MirrorTypes, Caller

\* An action that leaves what is durable leaves that of its turn.
LEMMA SameDurable ==
    ASSUME MirrorInv, NEW c \in Tab, durable' = durable
    PROVE  durable' = [durable EXCEPT ![StepOf(c)] = durable[StepOf(c)]]
BY DEF MirrorInv, MirrorTypes

\* prepareRun.
LEMMA prepareRunMoves ==
    ASSUME MirrorInv, NEW c \in Tab, prepareRun(c)
    PROVE  \E p, d : CallerMoves(c, p, d)
<1> DEFINE q == stream[c]
           p == [q EXCEPT !.at = "writing", !.out = <<Plain("RUN_STARTED", q.step)>>]
           d == durable[StepOf(c)]
<1>1. StepOf(c) = q.step /\ q.at = "idle" /\ Caller(q, raw[StepOf(c)], d)
    BY CallerAt DEF prepareRun
<1>2. stream' = [stream EXCEPT ![c] = p]
    BY <1>1 DEF prepareRun
<1>3. raw' = raw /\ durable' = durable /\ log' = log
    BY DEF prepareRun, logVars
<1>4. Moved(q, p, raw[StepOf(c)], d, d) /\ SaysNoMore(q, p, raw[StepOf(c)])
  <2>1. Prepares(q, p)
      BY DEF Prepares
  <2> HIDE DEF p, q, d
  <2> QED BY <1>1, <2>1, Prepared
<1> HIDE DEF p
<1>5. CallerMoves(c, p, d)
    BY <1>2, <1>3, <1>4, SameDurable DEF CallerMoves
<1> QED BY <1>5

\* The loop goes back to polling.
LEMMA NothingToWriteMoves ==
    ASSUME MirrorInv, NEW c \in Tab, NothingToWrite(c)
    PROVE  \E p, d : CallerMoves(c, p, d)
<1> DEFINE q == stream[c]
           p == [q EXCEPT !.at = "polling"]
           d == durable[StepOf(c)]
<1>1. q.at = "writing" /\ q.out = <<>> /\ Caller(q, raw[StepOf(c)], d)
    BY CallerAt DEF NothingToWrite
<1>2. stream' = [stream EXCEPT ![c] = p]
    BY <1>1 DEF NothingToWrite
<1>3. raw' = raw /\ durable' = durable /\ log' = log
    BY DEF NothingToWrite, logVars
<1>4. Moved(q, p, raw[StepOf(c)], d, d) /\ SaysNoMore(q, p, raw[StepOf(c)])
    BY <1>1, Written
<1> HIDE DEF p
<1>5. CallerMoves(c, p, d)
    BY <1>2, <1>3, <1>4, SameDurable DEF CallerMoves
<1> QED BY <1>5

\* The poll takes the event after the last one it took.
LEMMA pollTrueForgeTurnEventsMoves ==
    ASSUME MirrorInv, NEW c \in Tab, pollTrueForgeTurnEvents(c)
    PROVE  \E p, d : CallerMoves(c, p, d)
<1> DEFINE q == stream[c]
           w == raw[StepOf(c)]
           d == durable[StepOf(c)]
           i == Min(Unseen(c))
           p == [q EXCEPT !.seen  = q.seen \cup {q.event + 1},
                          !.event = q.event + 1,
                          !.at    = IF w[q.event + 1] = "reasoning" THEN "polling"
                                    ELSE IF w[q.event + 1] \in {"turn.done", "turn.done.required"} THEN "capture"
                                    ELSE "ingest"]
<1>1. q.at = "polling" /\ Unseen(c) # {} /\ Caller(q, w, d)
    BY CallerAt DEF pollTrueForgeTurnEvents
<1>2. /\ q.seen = 1 .. q.event /\ q.event <= Len(w) /\ q.event \in Nat /\ Len(w) \in Nat
      /\ DOMAIN w = 1 .. Len(w)
    BY <1>1, LenProperties DEF Caller, Sane, Streamer
<1>3. Unseen(c) = q.event + 1 .. Len(w)
  <2>1. Unseen(c) = {x \in 1 .. Len(w) : x \notin 1 .. q.event}
      BY <1>2 DEF Unseen
  <2> QED BY <1>2, <2>1
<1>4. q.event < Len(w) /\ i = q.event + 1
  <2>1. q.event < Len(w)
      BY <1>1, <1>2, <1>3
  <2>2. q.event + 1 \in Unseen(c) /\ \A y \in Unseen(c) : q.event + 1 <= y
      BY <1>2, <1>3, <2>1
  <2>3. \E x \in Unseen(c) : \A y \in Unseen(c) : x <= y
      BY <2>2
  <2>4. i \in Unseen(c) /\ \A y \in Unseen(c) : i <= y
      BY <2>3 DEF Min
  <2> QED BY <1>2, <1>3, <2>1, <2>2, <2>4
<1>5. stream' = [stream EXCEPT ![c] = p]
  <2>1. stream' = [stream EXCEPT
              ![c].seen  = @ \cup {i},
              ![c].event = i,
              ![c].at    = IF w[i] = "reasoning" THEN "polling"
                           ELSE IF w[i] \in {"turn.done", "turn.done.required"} THEN "capture"
                           ELSE "ingest"]
      BY Zenon DEF pollTrueForgeTurnEvents, shouldDiscardTrueForgeEventType
  <2> HIDE DEF i, w
  <2> QED BY <1>4, <2>1
<1>6. raw' = raw /\ durable' = durable /\ log' = log
    BY DEF pollTrueForgeTurnEvents, logVars
<1>7. Moved(q, p, w, d, d) /\ SaysNoMore(q, p, w)
  <2>1. Polls(q, p, w)
      BY DEF Polls
  <2> HIDE DEF p, q, w, d
  <2> QED BY <1>1, <1>4, <2>1, Polled
<1> HIDE DEF p
<1>8. CallerMoves(c, p, d)
    BY <1>5, <1>6, <1>7, SameDurable DEF CallerMoves
<1> QED BY <1>8

\* The capture of the required actions.
LEMMA captureTrueForgeRequiredActionsMoves ==
    ASSUME MirrorInv, NEW c \in Tab, captureTrueForgeRequiredActions(c)
    PROVE  \E p, d : CallerMoves(c, p, d)
<1> DEFINE q == stream[c]
           w == raw[StepOf(c)]
           d0 == durable[StepOf(c)]
           captured == IF w[q.event] = "turn.done.required" THEN TRUE ELSE d0.captured
           p == [q EXCEPT !.at = "artifacts"]
           d == [d0 EXCEPT !.captured = captured]
<1>1. q.at = "capture" /\ Caller(q, w, d0) /\ d0 \in Durable
    BY CallerAt DEF captureTrueForgeRequiredActions, Caller
<1>2. captured \in BOOLEAN /\ (w[q.event] = "turn.done.required" => captured = TRUE)
      /\ (d0.captured = TRUE => captured = TRUE)
    BY <1>1 DEF Durable
<1>3. captured = (d0.captured \/ Kind(c) = "turn.done.required")
  <2>1. d0.captured \in BOOLEAN
      BY <1>1 DEF Durable
  <2>2. Kind(c) = w[q.event]
      BY DEF Kind
  <2> QED BY <2>1, <2>2, Zenon
<1> HIDE DEF captured
<1>4. d \in Durable /\ d.state = d0.state /\ d.captured = captured
    BY <1>1, <1>2 DEF Durable
<1>5. stream' = [stream EXCEPT ![c] = p]
    BY DEF captureTrueForgeRequiredActions
<1>6. durable' = [durable EXCEPT ![StepOf(c)] = d]
  <2>1. durable' = [durable EXCEPT ![StepOf(c)].captured = durable[StepOf(c)].captured \/ Kind(c) = "turn.done.required"]
      BY Zenon DEF captureTrueForgeRequiredActions
  <2> QED BY <1>3, <2>1, Zenon
<1>7. raw' = raw /\ log' = log
    BY DEF captureTrueForgeRequiredActions, logVars
<1>8. Moved(q, p, w, d0, d) /\ SaysNoMore(q, p, w)
  <2>1. p = [q EXCEPT !.at = "artifacts"]
      OBVIOUS
  <2> HIDE DEF p, q, w, d, d0
  <2> QED BY <1>1, <1>2, <1>4, <2>1, Settled
<1> HIDE DEF p, d
<1>9. CallerMoves(c, p, d)
    BY <1>5, <1>6, <1>7, <1>8 DEF CallerMoves
<1> QED BY <1>9

\* The artifacts are published, or their failure is noted.
LEMMA settlingArtifactsMoves ==
    ASSUME MirrorInv, NEW c \in Tab,
           persistAgUiSandboxArtifacts(c) \/ recordAgUiArtifactProjectionFailure(c)
    PROVE  \E p, d : CallerMoves(c, p, d)
<1> DEFINE q == stream[c]
           w == raw[StepOf(c)]
           d0 == durable[StepOf(c)]
           p == [q EXCEPT !.at = "ingest"]
<1>1. q.at = "artifacts" /\ Caller(q, w, d0) /\ d0 \in Durable
    BY CallerAt DEF persistAgUiSandboxArtifacts, recordAgUiArtifactProjectionFailure, Caller
<1>2. PICK a \in {"published", "failed"} : durable' = [durable EXCEPT ![StepOf(c)].artifacts = a]
  <2>1. CASE persistAgUiSandboxArtifacts(c)
      BY <2>1 DEF persistAgUiSandboxArtifacts
  <2>2. CASE recordAgUiArtifactProjectionFailure(c)
    <3>1. durable' = [durable EXCEPT ![StepOf(c)].artifacts =
                         IF durable[StepOf(c)].artifacts = "published" THEN durable[StepOf(c)].artifacts
                         ELSE "failed"]
        BY <2>2, Zenon DEF recordAgUiArtifactProjectionFailure
    <3>2. CASE durable[StepOf(c)].artifacts = "published"
        BY <3>1, <3>2
    <3>3. CASE durable[StepOf(c)].artifacts # "published"
        BY <3>1, <3>3
    <3> QED BY <3>2, <3>3
  <2> QED BY <2>1, <2>2
<1> DEFINE d == [d0 EXCEPT !.artifacts = a]
<1>3. d \in Durable /\ d.state = d0.state /\ d.captured = d0.captured
    BY <1>1 DEF Durable
<1>4. stream' = [stream EXCEPT ![c] = p]
    BY DEF persistAgUiSandboxArtifacts, recordAgUiArtifactProjectionFailure
<1>5. durable' = [durable EXCEPT ![StepOf(c)] = d]
    BY <1>2, Zenon
<1>6. raw' = raw /\ log' = log
    BY DEF persistAgUiSandboxArtifacts, recordAgUiArtifactProjectionFailure, logVars
<1>7. Moved(q, p, w, d0, d) /\ SaysNoMore(q, p, w)
  <2>1. p = [q EXCEPT !.at = "ingest"]
      OBVIOUS
  <2> HIDE DEF p, q, w, d, d0
  <2> QED BY <1>1, <1>3, <2>1, Settled
<1> HIDE DEF p, d
<1>8. CallerMoves(c, p, d)
    BY <1>4, <1>5, <1>6, <1>7 DEF CallerMoves
<1> QED BY <1>8

NoneOrOne(rows, x) == rows = <<>> \/ rows = <<x>>

\* A row, possibly after one that opens or closes the message.
LEMMA LastOfRows ==
    ASSUME NEW x \in Event, NEW e \in Event, NEW first, NoneOrOne(first, x)
    PROVE  /\ Append(first, e) \in Seq(Event)
           /\ \A j \in 1 .. Len(Append(first, e)) :
                 \/ j = Len(Append(first, e)) /\ Append(first, e)[j] = e
                 \/ j # Len(Append(first, e)) /\ Append(first, e)[j] = x
           /\ \E j \in 1 .. Len(Append(first, e)) : Append(first, e)[j] = e
<1>0. \A rows \in Seq(Event) :
         /\ Append(rows, e) \in Seq(Event) /\ Len(Append(rows, e)) = Len(rows) + 1
         /\ \A j \in 1 .. Len(rows) : Append(rows, e)[j] = rows[j]
         /\ Append(rows, e)[Len(rows) + 1] = e
    BY AppendProperties
<1>1. CASE first = <<>>
  <2>1. Append(first, e) \in Seq(Event) /\ Len(Append(first, e)) = 1 /\ Append(first, e)[1] = e
      BY <1>1, EmptySeq, AppendProperties
  <2> QED BY <2>1
<1>2. CASE first = <<x>>
  <2>1. first \in Seq(Event) /\ Len(first) = 1 /\ first[1] = x
      BY <1>2
  <2>2. /\ Append(first, e) \in Seq(Event) /\ Len(Append(first, e)) = 2
        /\ Append(first, e)[1] = x /\ Append(first, e)[2] = e
    <3>1. /\ Append(first, e) \in Seq(Event) /\ Len(Append(first, e)) = Len(first) + 1
          /\ \A j \in 1 .. Len(first) : Append(first, e)[j] = first[j]
          /\ Append(first, e)[Len(first) + 1] = e
        BY <1>0, <2>1
    <3> QED BY <2>1, <3>1
  <2> QED BY <2>2
<1> QED BY <1>1, <1>2 DEF NoneOrOne

\* One row, or none.
LEMMA OneRowAtMost ==
    ASSUME NEW x \in Event, NEW rows, NoneOrOne(rows, x)
    PROVE  rows \in Seq(Event) /\ \A j \in 1 .. Len(rows) : rows[j] = x
<1>1. CASE rows = <<>>
    BY <1>1, EmptySeq
<1>2. CASE rows = <<x>>
    BY <1>2
<1> QED BY <1>1, <1>2 DEF NoneOrOne

\* The adapter.
LEMMA MapsAsSaid ==
    ASSUME MirrorInv, NEW c \in Tab, raw[StepOf(c)][stream[c].event] \in RawKind \ {"reasoning"}
    PROVE  /\ mapTrueForgeEvent(c, StepOf(c), stream[c].event) \in Seq(Event)
           /\ MapsTo(stream[c], raw[StepOf(c)][stream[c].event],
                     mapTrueForgeEvent(c, StepOf(c), stream[c].event))
<1> DEFINE s == StepOf(c)
           q == stream[c]
           i == q.event
           k == raw[s][i]
           out == mapTrueForgeEvent(c, s, i)
           E == Plain("TEXT_MESSAGE_END", s)
           S == Plain("TEXT_MESSAGE_START", s)
           C == Content(s, i)
<1>1. s \in Step /\ s = q.step /\ q \in Streamer /\ i \in Nat /\ q.finished \in BOOLEAN
    BY CallerAt DEF Caller, Streamer
<1>2. \A kind \in MirrorKind : /\ Plain(kind, s) \in Event /\ Plain(kind, s).kind = kind
                               /\ Plain(kind, s).step = s
  <2>1. \A kind \in MirrorKind : kind \in EventKind
      BY DEF MirrorKind, EventKind
  <2> QED BY <1>1, <2>1, PlainIsEvent
<1>3. {"TEXT_MESSAGE_END", "TEXT_MESSAGE_START", "TEXT_MESSAGE_CONTENT", "inert", "RUN_FINISHED",
       "RUN_INTERRUPT", "RUN_ERROR"} \subseteq MirrorKind
    BY DEF MirrorKind, RunEventKind, TextEventKind
<1>4. C \in Event /\ C.kind = "TEXT_MESSAGE_CONTENT" /\ C.step = s /\ C.val = i
  <2>1. Plain("TEXT_MESSAGE_CONTENT", s) \in Event /\ Plain("TEXT_MESSAGE_CONTENT", s).kind = "TEXT_MESSAGE_CONTENT"
        /\ Plain("TEXT_MESSAGE_CONTENT", s).step = s
      BY <1>2, <1>3
  <2> QED BY <1>1, <2>1 DEF Content, Event
<1>5. NoneOrOne(EndText(c, s), E) /\ NoneOrOne(StartText(c, s), S)
    BY DEF EndText, StartText, NoneOrOne
<1>6. E \in Event /\ E.kind = "TEXT_MESSAGE_END" /\ E.step = s /\ S \in Event /\ S.kind = "TEXT_MESSAGE_START" /\ S.step = s
    BY <1>2, <1>3
<1> HIDE DEF E, S, C
<1>7. CASE q.finished = TRUE
  <2>1. out = <<>>
      BY <1>7, Zenon DEF mapTrueForgeEvent
  <2>2. \A j \in 1 .. Len(out) : FALSE
      BY <2>1, EmptySeq
  <2> HIDE DEF out
  <2>3. out \in Seq(Event)
      BY <2>1, EmptySeq
  <2>4. MapsTo(q, k, out)
      BY <1>7, <2>2 DEF MapsTo
  <2> QED BY <2>3, <2>4 DEF out
<1>8. ASSUME q.finished = FALSE
      PROVE  /\ k = "text.start" => out = StartText(c, s)
             /\ k = "text.delta" => out = Append(StartText(c, s), C)
             /\ k = "text.end" => out = EndText(c, s)
             /\ k = "tool" => out = <<Plain("inert", s)>>
             /\ k = "turn.done" => out = Append(EndText(c, s), Plain("RUN_FINISHED", s))
             /\ k = "turn.done.required" => out = Append(EndText(c, s), Plain("RUN_INTERRUPT", s))
             /\ k = "turn.error" => out = Append(EndText(c, s), Plain("RUN_ERROR", s))
    BY <1>8 DEF mapTrueForgeEvent, C
<1> HIDE DEF out, k
<1>10. ASSUME q.finished = FALSE, k \in {"text.start", "text.end", "tool"}
       PROVE  out \in Seq(Event) /\ MapsTo(q, k, out)
  <2>1. PICK x \in {E, S, Plain("inert", s)} : NoneOrOne(out, x)
      BY <1>5, <1>8, <1>10 DEF NoneOrOne
  <2>2. x \in Event /\ x.kind \in {"TEXT_MESSAGE_START", "TEXT_MESSAGE_END", "inert"} /\ x.step = s
      BY <1>2, <1>3, <1>6, <2>1
  <2>3. out \in Seq(Event) /\ \A j \in 1 .. Len(out) : out[j] = x
      BY <2>1, <2>2, OneRowAtMost
  <2>4. x.kind \in MirrorKind
      BY <1>3, <2>2
  <2> QED BY <1>1, <1>10, <2>2, <2>3, <2>4 DEF MapsTo
<1>11. ASSUME q.finished = FALSE, k = "text.delta"
       PROVE  out \in Seq(Event) /\ MapsTo(q, k, out)
  <2>1. /\ out \in Seq(Event)
        /\ \A j \in 1 .. Len(out) : (j = Len(out) /\ out[j] = C) \/ (j # Len(out) /\ out[j] = S)
        /\ \E j \in 1 .. Len(out) : out[j] = C
    <3>1. NoneOrOne(StartText(c, s), S) /\ S \in Event /\ C \in Event
        BY <1>4, <1>5, <1>6
    <3>2. out = Append(StartText(c, s), C)
        BY <1>8, <1>11
    <3> HIDE DEF s
    <3> QED BY <3>1, <3>2, LastOfRows
  <2> QED BY <1>1, <1>3, <1>4, <1>6, <1>11, <2>1 DEF MapsTo
<1>12. ASSUME q.finished = FALSE, k \in {"turn.done", "turn.done.required", "turn.error"}
       PROVE  out \in Seq(Event) /\ MapsTo(q, k, out)
  <2>1. PICK e \in Event :
           /\ out = Append(EndText(c, s), e) /\ e.step = s
           /\ e.kind \in {"RUN_FINISHED", "RUN_INTERRUPT", "RUN_ERROR"}
           /\ e.kind = "RUN_FINISHED" => k = "turn.done"
           /\ e.kind = "RUN_INTERRUPT" => k = "turn.done.required"
      BY <1>2, <1>3, <1>8, <1>12
  <2>2. /\ out \in Seq(Event)
        /\ \A j \in 1 .. Len(out) : (j = Len(out) /\ out[j] = e) \/ (j # Len(out) /\ out[j] = E)
    <3>1. NoneOrOne(EndText(c, s), E) /\ E \in Event
        BY <1>5, <1>6
    <3> HIDE DEF s
    <3> QED BY <2>1, <3>1, LastOfRows
  <2> QED BY <1>1, <1>3, <1>6, <1>12, <2>1, <2>2 DEF MapsTo
<1>13. k \in RawKind \ {"reasoning"}
    BY DEF k
<1> QED BY <1>1, <1>7, <1>10, <1>11, <1>12, <1>13 DEF RawKind, out, k

\* The ingestion of an event and its mapping.
LEMMA ingestAndMapMoves ==
    ASSUME MirrorInv, NEW c \in Tab, ingestAndMap(c)
    PROVE  \E p, d : CallerMoves(c, p, d)
<1> DEFINE q == stream[c]
           s == StepOf(c)
           w == raw[s]
           d0 == durable[s]
           k == w[q.event]
           out == mapTrueForgeEvent(c, s, q.event)
           open == CASE k \in {"text.start", "text.delta"} -> TRUE
                     [] k = "text.end" \/ k \in RawTerminal -> FALSE
                     [] OTHER -> q.open
           finished == IF k \in RawTerminal THEN TRUE ELSE q.finished
           ingested == d0.ingested \cup {q.event}
           state == IF d0.state = "streaming" THEN evaluateTurnDoneOutcome(k) ELSE d0.state
           p == [q EXCEPT !.out = out, !.open = open, !.finished = finished, !.at = "writing"]
           d == [d0 EXCEPT !.ingested = ingested, !.state = state]
<1>1. q.at = "ingest" /\ Caller(q, w, d0) /\ q \in Streamer /\ w \in Seq(RawKind) /\ d0 \in Durable
    BY CallerAt DEF ingestAndMap, Caller
<1>2. q.event \in 1 .. Len(w) /\ q.event \in Nat /\ k # "reasoning"
    BY <1>1, LenProperties DEF Caller, Sane, Streamer
<1>3. k \in RawKind \ {"reasoning"}
    BY <1>1, <1>2, ElementOfSeq
<1>4. out \in Seq(Event) /\ MapsTo(q, k, out)
    BY <1>3, MapsAsSaid
<1>5. open \in BOOLEAN
  <2>1. q.open \in BOOLEAN
      BY <1>1 DEF Streamer
  <2>2. CASE k \in {"text.start", "text.delta"}
      BY <2>2 DEF RawTerminal
  <2>3. CASE k = "text.end" \/ k \in RawTerminal
      BY <2>3 DEF RawTerminal
  <2>4. CASE k \notin {"text.start", "text.delta"} /\ k # "text.end" /\ k \notin RawTerminal
      BY <2>1, <2>4
  <2> QED BY <2>2, <2>3, <2>4
<1>6. finished = (q.finished \/ k \in RawTerminal)
  <2>1. q.finished \in BOOLEAN
      BY <1>1 DEF Streamer
  <2> HIDE DEF k
  <2> QED BY <2>1, Zenon
<1>7. stream' = [stream EXCEPT ![c] = p]
  <2>1. stream' = [stream EXCEPT ![c].out = out, ![c].open = open,
                                 ![c].finished = q.finished \/ k \in RawTerminal, ![c].at = "writing"]
      BY Zenon DEF ingestAndMap
  <2> HIDE DEF out, open, finished, k
  <2> QED BY <1>6, <2>1, Zenon
<1>8. durable' = [durable EXCEPT ![s] = d]
  <2>1. durable' = [durable EXCEPT ![s].ingested = ingested, ![s].state = state]
      BY Zenon DEF ingestAndMap, IngestDurably
  <2> HIDE DEF ingested, state
  <2> QED BY <2>1, Zenon
<1>9. raw' = raw /\ log' = log
    BY DEF ingestAndMap, logVars
<1>10. state \in {"streaming", "completed", "required_actions", "failed"} /\ ingested \in SUBSET Nat
  <2>1. evaluateTurnDoneOutcome(k) \in {"streaming", "completed", "required_actions", "failed"}
      BY DEF evaluateTurnDoneOutcome
  <2>2. d0.state \in {"streaming", "completed", "required_actions", "failed"} /\ d0.ingested \in SUBSET Nat
      BY <1>1 DEF Durable
  <2> QED BY <1>2, <2>1, <2>2
<1> HIDE DEF ingested
<1>11. d \in Durable /\ d.state = state /\ d.captured = d0.captured
  <2> HIDE DEF state
  <2> QED BY <1>1, <1>10 DEF Durable
<1>12. Moved(q, p, w, d0, d) /\ SaysNoMore(q, p, w)
  <2>1. Ingests(q, p, w, out, open)
      BY DEF Ingests
  <2>2. d.state = IF d0.state = "streaming" THEN evaluateTurnDoneOutcome(w[q.event]) ELSE d0.state
      BY <1>11
  <2>3. MapsTo(q, w[q.event], out)
      BY <1>4
  <2> HIDE DEF p, q, w, d, d0, out, open, k, state
  <2> QED BY <1>1, <1>4, <1>5, <1>11, <2>1, <2>2, <2>3, Ingested
<1> HIDE DEF p, d
<1>13. CallerMoves(c, p, d)
    BY <1>7, <1>8, <1>9, <1>12 DEF CallerMoves
<1> QED BY <1>13

\* What AfterWrite makes of a caller.
LEMMA AfterWriteAdvances ==
    ASSUME MirrorInv, NEW c \in Tab
    PROVE  \E terminal \in BOOLEAN :
              /\ Advances(stream[c], AfterWrite(c), terminal, stream[c].healthy)
              /\ Advances(stream[c], [AfterWrite(c) EXCEPT !.healthy = FALSE], terminal, FALSE)
<1> DEFINE q == stream[c]
           e == Head(q.out)
           rest == Tail(q.out)
           at == IF Terminal(e) THEN "ended" ELSE IF rest = <<>> THEN "polling" ELSE "writing"
           terminal == IF Terminal(e) THEN TRUE ELSE q.terminal
<1>1. q \in Streamer /\ q.terminal \in BOOLEAN
    BY CallerAt DEF Caller, Streamer
<1>2. terminal \in BOOLEAN /\ terminal = (q.terminal \/ Terminal(e))
    BY <1>1, Zenon DEF Terminal
<1>3. AfterWrite(c) = [q EXCEPT !.out = rest, !.terminal = terminal, !.at = at]
  <2>1. AfterWrite(c) = [q EXCEPT !.out = rest, !.terminal = q.terminal \/ Terminal(e), !.at = at]
      BY Zenon DEF AfterWrite
  <2> HIDE DEF terminal, at, rest
  <2> QED BY <1>2, <2>1, Zenon
<1> HIDE DEF q, rest, at, terminal
<1>4. AfterWrite(c) = [q EXCEPT !.out = rest, !.terminal = terminal, !.healthy = q.healthy, !.at = at]
    BY <1>1, <1>3 DEF Streamer
<1>5. [AfterWrite(c) EXCEPT !.healthy = FALSE] =
         [q EXCEPT !.out = rest, !.terminal = terminal, !.healthy = FALSE, !.at = at]
    BY <1>1, <1>3 DEF Streamer
<1> QED BY <1>2, <1>4, <1>5 DEF Advances, q, rest, at

\* A row is written, and mirrored while the mirror is healthy.
LEMMA writeEventMoves ==
    ASSUME MirrorInv, NEW c \in Tab, writeEvent(c)
    PROVE  \E p, d : CallerMoves(c, p, d)
<1> DEFINE q == stream[c]
           w == raw[StepOf(c)]
           d == durable[StepOf(c)]
           p == AfterWrite(c)
<1>1. q.at = "writing" /\ q.out # <<>> /\ Caller(q, w, d) /\ q.healthy \in BOOLEAN
    BY CallerAt DEF writeEvent, Caller, Streamer
<1>2. PICK terminal \in BOOLEAN : Advances(q, p, terminal, q.healthy)
    BY AfterWriteAdvances
<1>3. raw' = raw /\ durable' = durable /\ stream' = [stream EXCEPT ![c] = p]
    BY DEF writeEvent
<1>4. q.healthy = TRUE => log' = Append(log, Head(q.out))
    BY Zenon DEF writeEvent, appendChannelEvent, InsertDurableEvent
<1>5. q.healthy = FALSE => log' = log
    BY Zenon DEF writeEvent, logVars
<1> HIDE DEF p, w, d, q
<1>6. /\ Moved(q, p, w, d, d) /\ Head(q.out) \in Event
      /\ q.healthy = TRUE => RowOf(q, p, w, d, Head(q.out))
      /\ q.healthy = FALSE => SaysNoMore(q, p, w)
    BY <1>1, <1>2, Wrote
<1>7. \/ log' = log /\ SaysNoMore(q, p, w)
      \/ \E e \in Event : log' = Append(log, e) /\ RowOf(q, p, w, d, e)
    BY <1>1, <1>4, <1>5, <1>6
<1>8. CallerMoves(c, p, d)
    BY <1>3, <1>6, <1>7, SameDurable DEF CallerMoves, q, w, d
<1> QED BY <1>8

\* The append is refused, and the mirror stops.
LEMMA MirrorRefusesMoves ==
    ASSUME MirrorInv, NEW c \in Tab, MirrorRefuses(c)
    PROVE  \E p, d : CallerMoves(c, p, d)
<1> DEFINE q == stream[c]
           w == raw[StepOf(c)]
           d == durable[StepOf(c)]
           p == [AfterWrite(c) EXCEPT !.healthy = FALSE]
<1>1. q.at = "writing" /\ q.out # <<>> /\ Caller(q, w, d)
    BY CallerAt DEF MirrorRefuses
<1>2. PICK terminal \in BOOLEAN : Advances(q, p, terminal, FALSE)
    BY AfterWriteAdvances
<1>3. raw' = raw /\ durable' = durable /\ stream' = [stream EXCEPT ![c] = p] /\ log' = log
    BY DEF MirrorRefuses, logVars
<1> HIDE DEF p, w, d, q
<1>4. Moved(q, p, w, d, d) /\ SaysNoMore(q, p, w)
    BY <1>1, <1>2, Wrote
<1>5. CallerMoves(c, p, d)
    BY <1>3, <1>4, SameDurable DEF CallerMoves, q, w, d
<1> QED BY <1>5

\* A call throws.
LEMMA CallThrowsMoves ==
    ASSUME MirrorInv, NEW c \in Tab, CallThrows(c)
    PROVE  \E p, d : CallerMoves(c, p, d)
<1> DEFINE q == stream[c]
           s == StepOf(c)
           w == raw[s]
           d == durable[s]
           p == writeTerminalError(c)
           E == Plain("TEXT_MESSAGE_END", s)
           R == Plain("RUN_ERROR", s)
           out == Append(EndText(c, s), R)
<1>1. q.at # "idle" /\ Caller(q, w, d) /\ q \in Streamer /\ q.terminal \in BOOLEAN /\ s \in Step /\ s = q.step
    BY CallerAt DEF CallThrows, Caller, Streamer
<1>2. raw' = raw /\ durable' = durable /\ stream' = [stream EXCEPT ![c] = p] /\ log' = log
    BY DEF CallThrows, logVars
<1>3. "TEXT_MESSAGE_END" \in EventKind /\ "RUN_ERROR" \in EventKind
    BY DEF EventKind, RunEventKind, TextEventKind
<1>4. /\ E \in Event /\ E.kind = "TEXT_MESSAGE_END" /\ E.step = s
      /\ R \in Event /\ R.kind = "RUN_ERROR" /\ R.step = s
    BY <1>1, <1>3, PlainIsEvent
<1>5. NoneOrOne(EndText(c, s), E)
    BY DEF EndText, NoneOrOne
<1> HIDE DEF E, R
<1>6. /\ out \in Seq(Event)
      /\ \A j \in 1 .. Len(out) : (j = Len(out) /\ out[j] = R) \/ (j # Len(out) /\ out[j] = E)
    BY <1>4, <1>5, LastOfRows
<1> HIDE DEF out
<1>7. FailureRows(q, out)
    BY <1>1, <1>4, <1>6 DEF FailureRows
<1>8. Fails(q, p)
  <2>1. \/ p = [q EXCEPT !.at = "aborted", !.out = <<>>]
        \/ p = [q EXCEPT !.at = "ended", !.out = <<>>, !.terminal = TRUE]
        \/ p = [q EXCEPT !.at = "writing", !.failing = TRUE, !.terminal = TRUE, !.finished = TRUE,
                         !.open = FALSE, !.out = out]
      BY Zenon DEF writeTerminalError, out, R
  <2>2. p = [q EXCEPT !.at = "aborted", !.out = <<>>] =>
           p = [q EXCEPT !.at = "aborted", !.terminal = q.terminal, !.out = <<>>]
      BY <1>1 DEF Streamer
  <2>3. p = [q EXCEPT !.at = "ended", !.out = <<>>, !.terminal = TRUE] =>
           p = [q EXCEPT !.at = "ended", !.terminal = TRUE, !.out = <<>>]
      BY <1>1 DEF Streamer
  <2> HIDE DEF p, q
  <2>4. CASE \/ p = [q EXCEPT !.at = "aborted", !.terminal = q.terminal, !.out = <<>>]
             \/ p = [q EXCEPT !.at = "ended", !.terminal = TRUE, !.out = <<>>]
      BY <1>1, <2>4, Zenon DEF Fails
  <2>5. CASE p = [q EXCEPT !.at = "writing", !.failing = TRUE, !.terminal = TRUE, !.finished = TRUE,
                           !.open = FALSE, !.out = out]
      BY <1>6, <1>7, <2>5, Zenon DEF Fails
  <2> QED BY <2>1, <2>2, <2>3, <2>4, <2>5
<1> HIDE DEF p, w, d, q
<1>9. Moved(q, p, w, d, d) /\ SaysNoMore(q, p, w)
    BY <1>1, <1>8, Thrown
<1>10. CallerMoves(c, p, d)
    BY <1>2, <1>9, SameDurable DEF CallerMoves, q, w, d
<1> QED BY <1>10

\* The provider goes on with a turn that has not ended, or a caller moves.
LEMMA MirrorMoves ==
    ASSUME MirrorInv, MirrorStep
    PROVE  \/ \E c \in Tab : ProviderEmits(StepOf(c))
           \/ \E c \in Tab : \E p, d : CallerMoves(c, p, d)
BY prepareRunMoves, pollTrueForgeTurnEventsMoves, captureTrueForgeRequiredActionsMoves,
   settlingArtifactsMoves, ingestAndMapMoves, writeEventMoves, NothingToWriteMoves,
   MirrorRefusesMoves, CallThrowsMoves DEF MirrorStep

-----------------------------------------------------------------------------
(***************************************************************************)
(* A caller moves: what holds of the others and of the turns.              *)
(***************************************************************************)

\* What is durable of a turn only grows, which the callers that stream it do not mind.
LEMMA SaneKept ==
    ASSUME NEW q, NEW w, NEW d0, NEW d, Sane(q, w, d0), DurableGrows(d0, d)
    PROVE  Sane(q, w, d)
<1>1. WritesAll(q, w, d)
    BY DEF Sane, WritesAll, Writes, DurableGrows
<1>2. d0.captured = TRUE => d.captured = TRUE
    BY DEF DurableGrows
<1> QED BY <1>1, <1>2, Zenon DEF Sane

\* The provider's events only grow, which nobody minds.
LEMMA SaneLonger ==
    ASSUME NEW q \in Streamer, NEW w \in Seq(RawKind), NEW k \in RawKind, NEW d, Sane(q, w, d)
    PROVE  Sane(q, Append(w, k), d)
<1> DEFINE v == Append(w, k)
<1>1. Len(v) = Len(w) + 1 /\ Len(w) \in Nat /\ \A i \in 1 .. Len(w) : v[i] = w[i]
    BY LenProperties, AppendProperties
<1>2. q.event \in Nat /\ q.event <= Len(w)
    BY DEF Streamer, Sane
<1>3. q.event >= 1 => v[q.event] = w[q.event]
    BY <1>1, <1>2
<1> HIDE DEF v
<1>4. WritesAll(q, v, d)
    BY <1>3 DEF Sane, WritesAll, Writes
<1>5. q.event <= Len(v)
    BY <1>1, <1>2
<1>6. Sane(q, v, d)
    BY <1>3, <1>4, <1>5 DEF Sane
<1> QED BY <1>6 DEF v

\* A turn that has not ended may go on.
LEMMA TurnSaneLonger ==
    ASSUME NEW w \in Seq(RawKind), NEW k \in RawKind, NEW d, TurnSane(w, d),
           \A i \in 1 .. Len(w) : w[i] \notin RawTerminal
    PROVE  TurnSane(Append(w, k), d)
<1>1. /\ Len(Append(w, k)) = Len(w) + 1 /\ Len(w) \in Nat
      /\ \A i \in 1 .. Len(w) : Append(w, k)[i] = w[i]
    BY LenProperties, AppendProperties
<1>2. d.state = "streaming"
  <2> SUFFICES ASSUME d.state # "streaming" PROVE FALSE
      OBVIOUS
  <2>1. Len(w) >= 1 /\ w[Len(w)] \in RawTerminal
      BY DEF TurnSane
  <2> QED BY <1>1, <2>1
<1>3. \A i \in 1 .. Len(w) + 1 : Append(w, k)[i] \in RawTerminal => i = Len(w) + 1
    BY <1>1
<1> QED BY <1>1, <1>2, <1>3 DEF TurnSane

\* What the provider changes.
LEMMA EmittingFields ==
    ASSUME MirrorInv, NEW c \in Tab, ProviderEmits(StepOf(c))
    PROVE  \E k \in RawKind :
              /\ raw' = [raw EXCEPT ![StepOf(c)] = Append(raw[StepOf(c)], k)]
              /\ \A i \in 1 .. Len(raw[StepOf(c)]) : raw[StepOf(c)][i] \notin RawTerminal
              /\ UNCHANGED <<durable, stream, log>>
<1>1. StepOf(c) \in Step /\ raw[StepOf(c)] \in Seq(RawKind)
    BY CallerAt DEF Caller
<1>2. DOMAIN raw[StepOf(c)] = 1 .. Len(raw[StepOf(c)])
    BY <1>1, LenProperties
<1> QED BY <1>2 DEF ProviderEmits, logVars

\* The provider goes on, which the invariant of the callers survives.
LEMMA EmittingKeeps ==
    ASSUME MirrorInv, NEW c \in Tab, ProviderEmits(StepOf(c)), UNCHANGED patches
    PROVE  MirrorInv'
<1> DEFINE s == StepOf(c)
           w == raw[s]
<1>1. PICK k \in RawKind :
         /\ raw' = [raw EXCEPT ![s] = Append(w, k)]
         /\ \A i \in 1 .. Len(w) : w[i] \notin RawTerminal
         /\ UNCHANGED <<durable, stream, log>>
    BY EmittingFields
<1>2. s \in Step /\ w \in Seq(RawKind) /\ raw \in [Step -> Seq(RawKind)]
    BY CallerAt DEF MirrorInv, MirrorTypes
<1>3. \A t \in Step : raw'[t] = IF t = s THEN Append(w, k) ELSE raw[t]
    BY <1>1, <1>2
<1>4. Append(w, k) \in Seq(RawKind)
    BY <1>2, AppendProperties
<1>5. raw' \in [Step -> Seq(RawKind)]
    BY <1>1, <1>2, <1>4
<1> HIDE DEF s, w
<1>6. MirrorTypes'
    BY <1>1, <1>5 DEF MirrorInv, MirrorTypes
<1>7. ASSUME NEW t \in Step PROVE TurnSane(raw'[t], durable'[t])
  <2>1. TurnSane(raw[t], durable[t])
      BY DEF MirrorInv
  <2>2. CASE t = s
      BY <1>1, <1>2, <1>3, <2>1, <2>2, TurnSaneLonger DEF w
  <2>3. CASE t # s
      BY <1>1, <1>3, <2>1, <2>3
  <2> QED BY <2>2, <2>3
<1>8. ASSUME NEW b \in Tab PROVE Sane(stream'[b], raw'[stream'[b].step], durable'[stream'[b].step])
  <2>1. /\ Sane(stream[b], raw[stream[b].step], durable[stream[b].step])
        /\ stream[b] \in Streamer /\ stream[b].step \in Step
      BY CallerAt DEF Caller
  <2>2. stream' = stream /\ durable' = durable
      BY <1>1
  <2>3. CASE stream[b].step = s
    <3>1. Sane(stream[b], Append(w, k), durable[s])
        BY <1>2, <2>1, <2>3, SaneLonger DEF w
    <3> QED BY <1>2, <1>3, <2>2, <2>3, <3>1
  <2>4. CASE stream[b].step # s
      BY <1>3, <2>1, <2>2, <2>4
  <2> QED BY <2>3, <2>4
<1>9. \A b \in Tab : StepOf(b)' = stream'[b].step
    BY DEF StepOf
<1>10. log' = log /\ Step # {} /\ log \in Seq(Event) /\ ProducerTypes
    BY <1>1 DEF MirrorInv
<1> QED BY <1>6, <1>7, <1>8, <1>9, <1>10 DEF MirrorInv, ProducerTypes, StepOf

\* The rows stay events when a caller moves.
LEMMA CallerMovesLog ==
    ASSUME MirrorInv, NEW c \in Tab, NEW p, NEW d, CallerMoves(c, p, d)
    PROVE  log' \in Seq(Event)
BY AppendProperties DEF CallerMoves, MirrorInv

\* The invariant of the callers survives a move of one of them.
LEMMA CallerMovesKeeps ==
    ASSUME MirrorInv, NEW c \in Tab, NEW p, NEW d, CallerMoves(c, p, d), UNCHANGED patches
    PROVE  MirrorInv'
<1> DEFINE s == StepOf(c)
           q == stream[c]
           w == raw[s]
           d0 == durable[s]
<1>1. s \in Step /\ s = q.step /\ Moved(q, p, w, d0, d) /\ raw' = raw
    BY CallerAt DEF CallerMoves
<1>2. /\ stream' = [stream EXCEPT ![c] = p] /\ stream \in [Tab -> Streamer]
      /\ durable' = [durable EXCEPT ![s] = d] /\ durable \in [Step -> Durable]
      /\ raw \in [Step -> Seq(RawKind)]
    BY DEF CallerMoves, MirrorInv, MirrorTypes
<1>3. /\ p \in Streamer /\ d \in Durable /\ p.step = s /\ DurableGrows(d0, d)
      /\ TurnSane(w, d) /\ Sane(p, w, d)
    BY <1>1 DEF Moved
<1>4. /\ \A b \in Tab : stream'[b] = IF b = c THEN p ELSE stream[b]
      /\ \A t \in Step : durable'[t] = IF t = s THEN d ELSE durable[t]
    BY <1>1, <1>2
<1>5. MirrorTypes'
  <2>1. stream' \in [Tab -> Streamer] /\ durable' \in [Step -> Durable]
      BY <1>2, <1>3
  <2> QED BY <1>1, <1>2, <2>1 DEF MirrorTypes
<1> HIDE DEF s, q, w, d0
<1>6. ASSUME NEW t \in Step PROVE TurnSane(raw'[t], durable'[t])
  <2>1. TurnSane(raw[t], durable[t])
      BY DEF MirrorInv
  <2> QED BY <1>1, <1>3, <1>4, <2>1 DEF w
<1>7. ASSUME NEW b \in Tab PROVE Sane(stream'[b], raw'[stream'[b].step], durable'[stream'[b].step])
  <2>1. Sane(stream[b], raw[stream[b].step], durable[stream[b].step]) /\ stream[b].step \in Step
      BY CallerAt DEF Caller
  <2>2. CASE b = c
      BY <1>1, <1>3, <1>4, <2>2 DEF w
  <2>3. CASE b # c /\ stream[b].step = s
    <3>1. Sane(stream[b], w, d)
        BY <1>3, <2>1, <2>3, SaneKept DEF w, d0
    <3> QED BY <1>1, <1>4, <2>3, <3>1 DEF w
  <2>4. CASE b # c /\ stream[b].step # s
      BY <1>1, <1>4, <2>1, <2>4
  <2> QED BY <2>2, <2>3, <2>4
<1>8. \A b \in Tab : StepOf(b)' = stream'[b].step
    BY DEF StepOf
<1>9. log' \in Seq(Event) /\ Step # {} /\ ProducerTypes
    BY CallerMovesLog DEF MirrorInv
<1> QED BY <1>5, <1>6, <1>7, <1>8, <1>9 DEF MirrorInv, ProducerTypes, StepOf

-----------------------------------------------------------------------------
(***************************************************************************)
(* Outcomes.  A row that tells one was written after it was durable.       *)
(***************************************************************************)

Outcome(entry, d) ==
    /\ entry.status = "complete" => d.state = "completed"
    /\ entry.status = "needs_input" => d.captured = TRUE

\* An outcome that is durable stays so.
LEMMA OutcomeKept ==
    ASSUME NEW entry, NEW d0, NEW d, Outcome(entry, d0), DurableGrows(d0, d)
    PROVE  Outcome(entry, d)
BY DEF Outcome, DurableGrows

\* The invariant, entry by entry.
LEMMA OutcomeInvIs == OutcomeInv <=> \A s \in Step : Outcome(Shown.runs[s], durable[s])
BY DEF OutcomeInv, Outcome

\* A row of a caller tells an outcome only after it is durable.
LEMMA CallerMovesOutcomes ==
    ASSUME MirrorInv, OutcomeInv, NEW c \in Tab, NEW p, NEW d, CallerMoves(c, p, d)
    PROVE  OutcomeInv'
<1> DEFINE s == StepOf(c)
           d0 == durable[s]
<1>1. s \in Step /\ s = stream[c].step
    BY CallerAt
<1>2. DurableGrows(d0, d) /\ \A t \in Step : durable'[t] = IF t = s THEN d ELSE durable[t]
    BY <1>1 DEF CallerMoves, Moved, MirrorInv, MirrorTypes
<1> HIDE DEF s, d0
<1>3. ASSUME NEW t \in Step PROVE Outcome(Shown.runs[t], durable'[t])
  <2>1. Outcome(Shown.runs[t], durable[t])
      BY OutcomeInvIs
  <2> QED BY <1>2, <2>1, OutcomeKept DEF d0
<1>4. ASSUME NEW t \in Step PROVE Outcome(Shown'.runs[t], durable'[t])
  <2>1. CASE log' = log
      BY <1>3, <2>1, ShownStays
  <2>2. CASE log' # log
    <3>1. PICK e \in Event : /\ log' = Append(log, e)
                             /\ RowOf(stream[c], p, raw[StepOf(c)], d, e)
        BY <2>2 DEF CallerMoves
    <3>2. RunReduced(Shown, e, Shown', t)
      <4>1. Reduced(Shown, e, Shown')
          BY <3>1, ShownMoves DEF MirrorInv
      <4> QED BY <4>1 DEF Reduced
    <3>3. CASE Shown'.runs[t] = Shown.runs[t]
        BY <1>3, <3>3
    <3>4. CASE /\ e.step = t
               /\ Shown'.runs[t].status = "complete" => e.kind = "RUN_FINISHED"
               /\ Shown'.runs[t].status = "needs_input" => e.kind = "RUN_INTERRUPT"
      <4>1. t = s /\ durable'[t] = d
          BY <1>1, <1>2, <3>1, <3>4 DEF RowOf
      <4> QED BY <3>1, <3>4, <4>1 DEF RowOf, Outcome
    <3> QED BY <3>2, <3>3, <3>4 DEF RunReduced
  <2> QED BY <2>1, <2>2
<1> QED BY <1>4 DEF OutcomeInv, Outcome

\* The rows of the other actors tell no outcome.
LEMMA SilentOutcomes ==
    ASSUME MirrorInv, OutcomeInv, UNCHANGED durable,
           log' = log \/ \E e \in Event : log' = Append(log, e) /\ Silent(e)
    PROVE  OutcomeInv'
<1>1. ASSUME NEW t \in Step PROVE Outcome(Shown'.runs[t], durable[t])
  <2>0. Outcome(Shown.runs[t], durable[t])
      BY OutcomeInvIs
  <2>1. CASE log' = log
      BY <2>0, <2>1, ShownStays
  <2>2. CASE log' # log
    <3>1. PICK e \in Event : log' = Append(log, e) /\ Silent(e)
        BY <2>2
    <3>2. RunReduced(Shown, e, Shown', t)
      <4>1. Reduced(Shown, e, Shown')
          BY <3>1, ShownMoves DEF MirrorInv
      <4> QED BY <4>1 DEF Reduced
    <3> QED BY <2>0, <3>1, <3>2 DEF RunReduced, Silent, Outcome
  <2> QED BY <2>1, <2>2
<1> QED BY <1>1 DEF OutcomeInv, Outcome

-----------------------------------------------------------------------------
(***************************************************************************)
(* Text.  While one caller streams a turn, what is shown follows what that *)
(* caller has taken.                                                       *)
(***************************************************************************)

\* A caller that has not begun has said nothing.
LEMMA IdleFollows ==
    ASSUME NEW q, NEW w \in Seq(RawKind), NEW d, Sane(q, w, d), q.at = "idle"
    PROVE  TextFollows(q, w, <<>>)
<1>1. q.event = 0 /\ q.out = <<>> /\ Len(w) \in Nat
    BY LenProperties DEF Sane
<1>2. \A j \in 1 .. Len(q.out) : FALSE
    BY <1>1, EmptySeq
<1>3. UpTo(q) = 0 /\ TextUpTo(w, 0) = <<>>
    BY <1>1, <1>2, TextOf DEF UpTo, Unsaid
<1> QED BY <1>1, <1>3 DEF TextFollows

\* What follows the events so far follows more of them.
LEMMA FollowsLonger ==
    ASSUME NEW q \in Streamer, NEW w \in Seq(RawKind), NEW k \in RawKind, NEW d, Sane(q, w, d),
           NEW text, TextFollows(q, w, text)
    PROVE  TextFollows(q, Append(w, k), text)
<1> DEFINE v == Append(w, k)
<1>1. Len(v) = Len(w) + 1 /\ Len(w) \in Nat /\ \A i \in 1 .. Len(w) : v[i] = w[i]
    BY LenProperties, AppendProperties
<1> HIDE DEF v
<1>2. ASSUME NEW n \in 0 .. Len(w) PROVE TextUpTo(v, n) = TextUpTo(w, n)
  <2>1. n \in Nat /\ \A i \in 1 .. n : w[i] = v[i]
      BY <1>1
  <2> QED BY <2>1, TextOf
<1>3. UpTo(q) \in 0 .. Len(w)
  <2>1. q.event \in Nat /\ q.event <= Len(w)
      BY DEF Streamer, Sane
  <2>2. Unsaid(q) => q.event >= 1
      BY DEF Unsaid, Sane, WritesAll, Writes
  <2> QED BY <1>1, <2>1, <2>2 DEF UpTo
<1>4. \E n \in 0 .. Len(v) : text = TextUpTo(v, n)
  <2>1. PICK n \in 0 .. Len(w) : text = TextUpTo(w, n)
      BY DEF TextFollows
  <2> QED BY <1>1, <1>2, <2>1
<1>5. Live(q) => text = TextUpTo(v, UpTo(q))
    BY <1>2, <1>3 DEF TextFollows
<1>6. TextFollows(q, v, text)
    BY <1>4, <1>5 DEF TextFollows
<1> QED BY <1>6 DEF v

\* The provider goes on: the text shown is still the beginning of its text.
LEMMA EmittingText ==
    ASSUME MirrorInv, NEW c \in Tab, ProviderEmits(StepOf(c)), NEW t \in Step, TextAt(t)
    PROVE  TextAt(t)'
<1> DEFINE s == StepOf(c)
           w == raw[s]
<1>1. PICK k \in RawKind :
         /\ raw' = [raw EXCEPT ![s] = Append(w, k)]
         /\ UNCHANGED <<durable, stream, log>>
    BY EmittingFields
<1>2. s \in Step /\ w \in Seq(RawKind) /\ raw \in [Step -> Seq(RawKind)]
    BY CallerAt DEF MirrorInv, MirrorTypes
<1>3. raw'[t] = IF t = s THEN Append(w, k) ELSE raw[t]
    BY <1>1, <1>2
<1>4. Streaming(t)' = Streaming(t) /\ Shown' = Shown /\ stream' = stream
    BY <1>1, ShownStays DEF Streaming
<1> HIDE DEF s, w
<1>5. ASSUME NEW b \in Tab, Streaming(t) = {b} PROVE TextFollows(stream[b], raw'[t], Shown.text[t])
  <2>1. TextFollows(stream[b], raw[t], Shown.text[t])
      BY <1>5 DEF TextAt
  <2>2. stream[b].step = t
      BY <1>5 DEF Streaming
  <2>3. stream[b] \in Streamer /\ Sane(stream[b], raw[t], durable[t])
      BY <2>2, CallerAt DEF Caller
  <2>4. CASE t = s
      BY <1>2, <1>3, <2>1, <2>3, <2>4, FollowsLonger DEF w
  <2>5. CASE t # s
      BY <1>3, <2>1, <2>5
  <2> QED BY <2>4, <2>5
<1> QED BY <1>4, <1>5 DEF TextAt

\* Nobody streams another step than before, but the caller that moves.
LEMMA CallerMovesStreaming ==
    ASSUME MirrorInv, NEW c \in Tab, NEW p, NEW d, CallerMoves(c, p, d), NEW t \in Step
    PROVE  Streaming(t)' = IF t = StepOf(c) THEN Streaming(t) \cup {c} ELSE Streaming(t)
<1>1. stream[c].step = StepOf(c) /\ p.step = stream[c].step /\ p.at # "idle"
    BY CallerAt DEF CallerMoves, Moved
<1>2. \A b \in Tab : stream'[b] = IF b = c THEN p ELSE stream[b]
    BY DEF CallerMoves, MirrorInv, MirrorTypes
<1>3. Streaming(t)' = {b \in Tab : stream'[b].step = t /\ stream'[b].at # "idle"}
    BY DEF Streaming
<1> QED BY <1>1, <1>2, <1>3 DEF Streaming

\* What a row of a caller adds to the text of its step, and to no other.
LEMMA CallerMovesTexts ==
    ASSUME MirrorInv, NEW c \in Tab, NEW p, NEW d, CallerMoves(c, p, d)
    PROVE  /\ \A t \in Step : t # StepOf(c) => Shown'.text[t] = Shown.text[t]
           /\ TextFollows(stream[c], raw[StepOf(c)], Shown.text[StepOf(c)]) =>
                 TextFollows(p, raw[StepOf(c)], Shown'.text[StepOf(c)])
<1> DEFINE s == StepOf(c)
           q == stream[c]
           w == raw[s]
<1>1. s \in Step /\ s = q.step
    BY CallerAt
<1>2. Shown \in TimelineState /\ Shown.text[s] \in Seq(Nat)
  <2>1. Shown \in TimelineState
      BY ShownTyped DEF MirrorInv
  <2> QED BY <1>1, <2>1 DEF TimelineState
<1> HIDE DEF s, q, w
<1>3. CASE log' = log /\ SaysNoMore(q, p, w)
  <2>1. Shown' = Shown
      BY <1>3, ShownStays
  <2> QED BY <1>2, <1>3, <2>1 DEF SaysNoMore, s, q, w
<1>4. ASSUME NEW e \in Event, log' = Append(log, e), RowOf(q, p, w, d, e)
      PROVE  /\ \A t \in Step : t # s => Shown'.text[t] = Shown.text[t]
             /\ TextFollows(q, w, Shown.text[s]) => TextFollows(p, w, Shown'.text[s])
  <2>1. \A t \in Step : TextReduced(Shown, e, Shown', t)
    <3>1. Reduced(Shown, e, Shown')
        BY <1>4, ShownMoves DEF MirrorInv
    <3> QED BY <3>1 DEF Reduced
  <2>2. e.step = s
      BY <1>1, <1>4 DEF RowOf
  <2>3. \A t \in Step : t # s => Shown'.text[t] = Shown.text[t]
      BY <2>1, <2>2 DEF TextReduced
  <2>4. CASE e.kind = "TEXT_MESSAGE_CONTENT"
    <3>1. Shown'.text[s] = Append(Shown.text[s], e.val)
        BY <1>1, <2>1, <2>2, <2>4 DEF TextReduced
    <3>2. Says(q, p, w, e.val)
        BY <1>4, <2>4 DEF RowOf
    <3> QED BY <1>2, <2>3, <3>1, <3>2 DEF Says
  <2>5. CASE e.kind # "TEXT_MESSAGE_CONTENT"
    <3>1. Shown'.text[s] = Shown.text[s]
        BY <1>1, <2>1, <2>5 DEF TextReduced
    <3>2. SaysNoMore(q, p, w)
        BY <1>4, <2>5 DEF RowOf
    <3> QED BY <1>2, <2>3, <3>1, <3>2 DEF SaysNoMore
  <2> QED BY <2>4, <2>5
<1>5. \/ log' = log /\ SaysNoMore(q, p, w)
      \/ \E e \in Event : log' = Append(log, e) /\ RowOf(q, p, w, d, e)
    BY DEF CallerMoves, q, w, s
<1>6. CASE \E e \in Event : log' = Append(log, e) /\ RowOf(q, p, w, d, e)
    BY <1>4, <1>6 DEF s, q, w
<1> QED BY <1>3, <1>5, <1>6

\* A caller moves: the text shown of its step follows it, that of others stays.
LEMMA CallerMovesText ==
    ASSUME MirrorInv, NEW c \in Tab, NEW p, NEW d, CallerMoves(c, p, d), NEW t \in Step, TextAt(t)
    PROVE  TextAt(t)'
<1> DEFINE s == StepOf(c)
<1>1. s \in Step /\ s = stream[c].step
    BY CallerAt
<1>2. Streaming(t)' = IF t = s THEN Streaming(t) \cup {c} ELSE Streaming(t)
    BY CallerMovesStreaming
<1>3. /\ raw' = raw
      /\ \A b \in Tab : stream'[b] = IF b = c THEN p ELSE stream[b]
    BY DEF CallerMoves, MirrorInv, MirrorTypes
<1>4. IsFiniteSet(Streaming(t)')
  <2>1. IsFiniteSet(Streaming(t))
      BY DEF TextAt
  <2> QED BY <1>2, <2>1, FS_AddElement
<1>5. CASE t # s
  <2>1. Shown'.text[t] = Shown.text[t]
      BY <1>5, CallerMovesTexts
  <2>2. ASSUME NEW b \in Tab, Streaming(t) = {b} PROVE TextFollows(stream'[b], raw'[t], Shown'.text[t])
    <3>1. stream[b].step = t
        BY <2>2 DEF Streaming
    <3>2. stream'[b] = stream[b]
        BY <1>1, <1>3, <1>5, <3>1
    <3> QED BY <1>3, <2>1, <2>2, <3>2 DEF TextAt
  <2>3. Streaming(t)' = Streaming(t)
      BY <1>2, <1>5
  <2> QED BY <1>4, <2>1, <2>2, <2>3 DEF TextAt
<1>6. CASE t = s
  <2>1. ASSUME NEW b \in Tab, Streaming(t)' = {b} PROVE b = c /\ TextFollows(stream'[c], raw'[t], Shown'.text[t])
    <3>1. b = c /\ Streaming(t) \subseteq {c}
        BY <1>2, <1>6, <2>1
    <3>2. TextFollows(stream[c], raw[t], Shown.text[t])
      <4>1. CASE Streaming(t) = {c}
          BY <4>1 DEF TextAt
      <4>2. CASE Streaming(t) = {}
        <5>1. stream[c].at = "idle"
            BY <1>1, <1>6, <4>2 DEF Streaming
        <5>2. Sane(stream[c], raw[t], durable[t]) /\ raw[t] \in Seq(RawKind)
            BY <1>6, CallerAt DEF Caller
        <5>3. Shown.text[t] = <<>>
            BY <4>2 DEF TextAt
        <5> QED BY <5>1, <5>2, <5>3, IdleFollows
      <4> QED BY <3>1, <4>1, <4>2
    <3>3. TextFollows(p, raw[t], Shown'.text[t])
        BY <1>6, <3>2, CallerMovesTexts
    <3> QED BY <1>3, <3>1, <3>3
  <2>2. c \in Streaming(t)'
      BY <1>2, <1>6
  <2> QED BY <1>4, <2>1, <2>2 DEF TextAt
<1> QED BY <1>5, <1>6

-----------------------------------------------------------------------------
(***************************************************************************)
(* All of it together, step by step.                                       *)
(***************************************************************************)

ShownInv ==
    /\ MirrorInv /\ OutcomeInv /\ TextInv
    /\ mix \in {"threads", "activities"} => DocsKnown

\* In the beginning nothing is shown and nobody streams.
LEMMA InitShown ==
    ASSUME Step # {}, Init
    PROVE  ShownInv
<1>1. /\ log = <<>> /\ raw = [s \in Step |-> <<>>] /\ durable = [s \in Step |-> NewTurn]
      /\ stream = [c \in Tab |-> Idle(TheStep)] /\ patches = [s \in Step |-> <<>>]
    BY DEF Init, InitLog, InitMirror, TheStep
<1>2. log \in Seq(Event) /\ Shown = initialChannelTimelineState
    BY <1>1, EmptySeq, NothingShown DEF Shown
<1>3. /\ \A s \in Step : Shown.runs[s].status = "none" /\ Shown.text[s] = <<>>
      /\ \A s \in Step : Shown.ui[s].rev = -1 /\ Shown.activity[s].rev = -1
    BY <1>2 DEF initialChannelTimelineState, NoRun, NoDoc
<1>4. TheStep \in Step /\ Idle(TheStep) \in Streamer
  <2>1. TheStep \in Step /\ <<>> \in Seq(Event) /\ {} \in SUBSET Nat /\ 0 \in Nat
      BY TheStepIsOne, EmptySeq
  <2> QED BY <2>1 DEF Idle, Streamer
<1>5. NewTurn \in Durable /\ <<>> \in Seq(RawKind) /\ <<>> \in Seq(Nat) /\ Len(<<>>) = 0
    BY EmptySeq DEF NewTurn, Durable
<1>6. MirrorTypes /\ ProducerTypes
    BY <1>1, <1>4, <1>5 DEF MirrorTypes, ProducerTypes
<1>7. \A i \in 1 .. Len(<<>>) : FALSE
    BY <1>5
<1>8. \A s \in Step : TurnSane(raw[s], durable[s])
  <2>1. TurnSane(<<>>, NewTurn)
      BY <1>7 DEF TurnSane, NewTurn
  <2> QED BY <1>1, <2>1
<1>9. \A c \in Tab : StepOf(c) = TheStep /\ Sane(stream[c], raw[StepOf(c)], durable[StepOf(c)])
  <2>1. /\ Idle(TheStep).step = TheStep /\ Idle(TheStep).at = "idle" /\ Idle(TheStep).event = 0
        /\ Idle(TheStep).seen = {} /\ Idle(TheStep).out = <<>> /\ Idle(TheStep).healthy = TRUE
        /\ Idle(TheStep).finished = FALSE
      BY DEF Idle
  <2>2. {} = 1 .. 0
      OBVIOUS
  <2>3. Sane(Idle(TheStep), <<>>, NewTurn)
      BY <1>5, <1>7, <2>1, <2>2 DEF Sane, WritesAll
  <2> QED BY <1>1, <1>4, <2>1, <2>3 DEF StepOf
<1>10. \A s \in Step : Streaming(s) = {}
  <2>1. \A c \in Tab : stream[c].at = "idle"
      BY <1>1 DEF Idle
  <2> QED BY <2>1 DEF Streaming
<1>11. TextInv
    BY <1>3, <1>10, FS_EmptySet DEF TextInv, TextAt
<1>12. DocsKnown
    BY <1>3 DEF DocsKnown, DocKnown
<1> QED BY <1>2, <1>3, <1>6, <1>8, <1>9, <1>11, <1>12 DEF ShownInv, MirrorInv, OutcomeInv

\* A step that leaves the mirror alone and tells no outcome.
LEMMA OthersKeepMirror ==
    ASSUME MirrorInv, ProducerTypes', UNCHANGED mirrorVars,
           log' = log \/ \E e \in Event : log' = Append(log, e) /\ Silent(e)
    PROVE  MirrorInv'
<1>1. log' \in Seq(Event)
    BY ShownMoves DEF MirrorInv
<1>2. raw' = raw /\ durable' = durable /\ stream' = stream
    BY DEF mirrorVars
<1> QED BY <1>1, <1>2 DEF MirrorInv, MirrorTypes, StepOf

\* Every step keeps the invariant.
LEMMA StepShown ==
    ASSUME ShownInv, [Next]_vars
    PROVE  ShownInv'
<1>0. MirrorInv /\ Step # {} /\ log \in Seq(Event) /\ ProducerTypes /\ OutcomeInv /\ TextInv
    BY DEF ShownInv, MirrorInv
<1>1. CASE Following \/ Informing
  <2>1. log' = log \/ \E e \in Event : log' = Append(log, e) /\ Silent(e)
      BY <1>0, <1>1, FollowingRows, InformingRows
  <2>2. UNCHANGED mirrorVars /\ patches' = patches /\ mix' = mix /\ mix \in {"stream", "messages", "context"}
      BY <1>1 DEF Following, Informing, docVars
  <2>3. ProducerTypes' /\ durable' = durable
      BY <1>0, <2>2 DEF ProducerTypes, mirrorVars
  <2>4. MirrorInv' /\ OutcomeInv'
      BY <1>0, <2>1, <2>2, <2>3, OthersKeepMirror, SilentOutcomes
  <2> QED BY <2>2, <2>4 DEF ShownInv, TextInv
<1>2. CASE Producing
  <2>1. /\ ProducerTypes' /\ (mix \in {"threads", "activities"} => DocsKnown)'
        /\ log' = log \/ \E e \in Event : log' = Append(log, e) /\ Silent(e)
      BY <1>0, <1>2, ProducingKeepsDocs DEF ShownInv
  <2>2. UNCHANGED mirrorVars /\ mix' = mix /\ mix \in {"threads", "activities"}
      BY <1>2 DEF Producing
  <2>3. durable' = durable
      BY <2>2 DEF mirrorVars
  <2>4. MirrorInv' /\ OutcomeInv'
      BY <1>0, <2>1, <2>2, <2>3, OthersKeepMirror, SilentOutcomes
  <2> QED BY <2>1, <2>2, <2>4 DEF ShownInv, TextInv
<1>3. CASE Mirroring
  <2>1. MirrorStep /\ UNCHANGED patches /\ mix' = mix /\ mix = "mirror"
      BY <1>3 DEF Mirroring, docVars
  <2>2. \A t \in Step : TextAt(t)
      BY <1>0, <2>1 DEF TextInv
  <2>3. MirrorInv' /\ OutcomeInv' /\ \A t \in Step : TextAt(t)'
    <3>1. ASSUME NEW c \in Tab, ProviderEmits(StepOf(c)) PROVE MirrorInv' /\ OutcomeInv' /\ \A t \in Step : TextAt(t)'
      <4>1. UNCHANGED <<durable, stream, log>>
          BY <1>0, <3>1, EmittingFields
      <4>2. MirrorInv' /\ OutcomeInv'
          BY <1>0, <2>1, <3>1, <4>1, EmittingKeeps, SilentOutcomes
      <4>3. \A t \in Step : TextAt(t)'
          BY <1>0, <2>2, <3>1, EmittingText
      <4> QED BY <4>2, <4>3
    <3>2. ASSUME NEW c \in Tab, NEW p, NEW d, CallerMoves(c, p, d)
          PROVE  MirrorInv' /\ OutcomeInv' /\ \A t \in Step : TextAt(t)'
      <4>1. MirrorInv' /\ OutcomeInv'
          BY <1>0, <2>1, <3>2, CallerMovesKeeps, CallerMovesOutcomes
      <4>2. \A t \in Step : TextAt(t)'
          BY <1>0, <2>2, <3>2, CallerMovesText
      <4> QED BY <4>1, <4>2
    <3> QED BY <1>0, <2>1, <3>1, <3>2, MirrorMoves
  <2>4. TextInv'
      BY <2>3 DEF TextInv
  <2> QED BY <2>1, <2>3, <2>4 DEF ShownInv
<1>4. CASE UNCHANGED vars
  <2>1. /\ log' = log /\ raw' = raw /\ durable' = durable /\ stream' = stream /\ patches' = patches
        /\ mix' = mix /\ UNCHANGED mirrorVars
      BY <1>4 DEF vars, mirrorVars
  <2>2. Shown' = Shown
      BY <2>1, ShownStays
  <2>3. MirrorInv' /\ OutcomeInv'
    <3>1. ProducerTypes'
        BY <1>0, <2>1 DEF ProducerTypes
    <3> QED BY <1>0, <2>1, <3>1, OthersKeepMirror, SilentOutcomes
  <2>4. TextInv' /\ (mix \in {"threads", "activities"} => DocsKnown)'
      BY <1>0, <2>1, <2>2 DEF ShownInv, TextInv, TextAt, Streaming, DocsKnown
  <2> QED BY <2>3, <2>4 DEF ShownInv
<1> QED BY <1>1, <1>2, <1>3, <1>4 DEF Next

\* What a finite set with at most one member is.
LEMMA AtMostOne ==
    ASSUME NEW S, IsFiniteSet(S), Cardinality(S) <= 1
    PROVE  S = {} \/ \E x : S = {x}
<1>1. Cardinality(S) \in Nat
    BY FS_CardinalityType
<1>2. Cardinality(S) = 0 \/ Cardinality(S) = 1
    BY <1>1
<1> QED BY <1>2, FS_EmptySet, FS_Singleton

\* The invariant gives the three properties.
LEMMA ShownHolds ==
    ASSUME ShownInv
    PROVE  ShownOutcomeIsDurable /\ ShownTextIsTheProviders /\ NeverGuesses
<1>1. MirrorInv /\ OutcomeInv /\ TextInv
    BY DEF ShownInv
<1>2. ShownOutcomeIsDurable
  <2>1. \A s \in Step : /\ Shown.runs[s].status = "complete" => durable[s].state = "completed"
                        /\ Shown.runs[s].status = "needs_input" => durable[s].captured
      BY <1>1, Zenon DEF OutcomeInv
  <2> QED BY <2>1, Zenon DEF ShownOutcomeIsDurable, Shown
<1>3. ASSUME mix = "mirror", NEW s \in Step, Cardinality(Streaming(s)) <= 1
      PROVE  IsPrefix(Shown.text[s], ProviderText(s))
  <2>1. TextAt(s) /\ raw[s] \in Seq(RawKind) /\ Len(raw[s]) \in Nat
      BY <1>1, <1>3, LenProperties DEF TextInv, MirrorInv, MirrorTypes
  <2>2. \E k \in 0 .. Len(raw[s]) : Shown.text[s] = TextUpTo(raw[s], k)
    <3>1. CASE Streaming(s) = {}
        BY <2>1, <3>1, TextOf DEF TextAt
    <3>2. CASE Streaming(s) # {}
      <4>1. PICK c : Streaming(s) = {c}
          BY <1>3, <2>1, <3>2, AtMostOne DEF TextAt
      <4>2. c \in Tab
          BY <4>1 DEF Streaming
      <4> QED BY <2>1, <4>1, <4>2 DEF TextAt, TextFollows
    <3> QED BY <3>1, <3>2
  <2> QED BY <2>1, <2>2, TextsArePrefixes DEF ProviderText
<1>4. ShownTextIsTheProviders
    BY <1>3, Zenon DEF ShownTextIsTheProviders, Shown
<1>5. NeverGuesses
    BY NeverGuessesKnows DEF ShownInv
<1> QED BY <1>2, <1>4, <1>5

\* Without steps there is nothing to show.
LEMMA NoStepShowsNothing ==
    ASSUME Step = {}
    PROVE  ShownOutcomeIsDurable /\ ShownTextIsTheProviders /\ NeverGuesses
BY DEF ShownOutcomeIsDurable, ShownTextIsTheProviders, NeverGuesses

\* Whatever the interleaving, what is shown is what the timeline's rows say of the producers.
LEMMA ShownAlways == Spec => [](ShownOutcomeIsDurable /\ ShownTextIsTheProviders /\ NeverGuesses)
<1>1. ASSUME Step # {} PROVE Spec => [](ShownOutcomeIsDurable /\ ShownTextIsTheProviders /\ NeverGuesses)
  <2>1. Init => ShownInv
      BY <1>1, InitShown
  <2>2. ShownInv /\ [Next]_vars => ShownInv'
      BY StepShown
  <2>3. ShownInv => ShownOutcomeIsDurable /\ ShownTextIsTheProviders /\ NeverGuesses
      BY ShownHolds
  <2> QED BY <2>1, <2>2, <2>3, PTL DEF Spec
<1>2. ASSUME Step = {} PROVE Spec => [](ShownOutcomeIsDurable /\ ShownTextIsTheProviders /\ NeverGuesses)
  <2>1. ShownOutcomeIsDurable /\ ShownTextIsTheProviders /\ NeverGuesses
      BY <1>2, NoStepShowsNothing
  <2> QED BY <2>1, PTL
<1> QED BY <1>1, <1>2

(* An outcome on the screen is never ahead of the database: the row that     *)
(* tells it was put behind the ingestion of the provider's terminal event,   *)
(* and a pause's behind the capture of its required actions.                 *)
THEOREM OutcomesAreDurable == Spec => []ShownOutcomeIsDurable
BY ShownAlways, PTL

(* As long as one caller streams a turn, the text on the screen is the       *)
(* beginning of the provider's, whatever fails in between.                   *)
THEOREM TextIsTheProviders == Spec => []ShownTextIsTheProviders
BY ShownAlways, PTL

(* A document on the screen is one its producer had at the revision shown,   *)
(* whatever rows about it are lost, late, repeated or relayed.               *)
THEOREM DocumentsAreNotGuessed == Spec => []NeverGuesses
BY ShownAlways, PTL
=============================================================================
