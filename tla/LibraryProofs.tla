---------------------------- MODULE LibraryProofs ----------------------------
(***************************************************************************)
(* What Library promises, for every value of the constants.  Its parts     *)
(* share no state: each has an inductive invariant of its own, kept by its *)
(* own steps and left alone by everybody else's.                           *)
(***************************************************************************)
EXTENDS Library, FiniteSetTheorems, TLAPS

-----------------------------------------------------------------------------
(***************************************************************************)
(* The watchdog.  A timer finds its watch by the turn alone, so the watch  *)
(* of a timer must be the turn's watch now, and the numbers of the watches *)
(* already cancelled must not come back: numbers only grow.                *)
(***************************************************************************)

WatchNumbers ==
    /\ watches \in Nat
    /\ watch \in [Turn -> [n : Nat, tokens : Nat, calls : SUBSET ToolId]]
    /\ \A t \in Turn : watch[t].n <= watches

TimersKnowTheirWatch == \A x \in timers : x.t \in Turn /\ x.by = watch[x.t].n /\ x.by > 0

CancelledOnce ==
    /\ \A c \in cancels : c.t \in Turn /\ c.n \in 1..watches /\ c.n # watch[c.t].n
    /\ \A c, d \in cancels : c.t = d.t /\ c.n = d.n => c = d

WatchInv == WatchNumbers /\ TimersKnowTheirWatch /\ CancelledOnce

\* What the watchdog does to the watch of one turn: nothing of account, a new watch under the
\* next number, its end, or its end with a cancellation.
WatchGoesOn(t) ==
    /\ watch'[t].n = watch[t].n /\ watches' = watches /\ cancels' = cancels
    /\ \A x \in timers' : x \in timers \/ (x.t = t /\ x.by = watch[t].n)
    /\ watch[t].n > 0

WatchStarts(t) ==
    /\ watch[t].n = 0 /\ watches' = watches + 1 /\ watch'[t].n = watches + 1 /\ cancels' = cancels
    /\ \A x \in timers' : x \in timers \/ (x.t = t /\ x.by = watches + 1)

WatchEnds(t) ==
    /\ watch'[t].n = 0 /\ watches' = watches
    /\ timers' \subseteq timers /\ \A x \in timers' : x.t # t
    /\ \/ cancels' = cancels
       \/ \E c : /\ cancels' = cancels \cup {c} /\ c.t = t /\ c.n = watch[t].n /\ watch[t].n > 0

\* Whatever happens to the watch of one turn in one of these ways, the invariant survives.
LEMMA WatchMovesKeep ==
    ASSUME WatchInv, NEW t \in Turn,
           watch' \in [Turn -> [n : Nat, tokens : Nat, calls : SUBSET ToolId]],
           \A u \in Turn \ {t} : watch'[u] = watch[u],
           WatchGoesOn(t) \/ WatchStarts(t) \/ WatchEnds(t)
    PROVE  WatchInv'
<1>1. watches' \in Nat /\ watches <= watches'
    BY DEF WatchInv, WatchNumbers, WatchGoesOn, WatchStarts, WatchEnds
<1>2. WatchNumbers'
    BY <1>1 DEF WatchInv, WatchNumbers, WatchGoesOn, WatchStarts, WatchEnds
<1>3. TimersKnowTheirWatch'
    BY DEF WatchInv, WatchNumbers, TimersKnowTheirWatch, WatchGoesOn, WatchStarts, WatchEnds
<1>4. ASSUME NEW c \in cancels' PROVE c.t \in Turn /\ c.n \in 1..watches' /\ c.n # watch'[c.t].n
    BY <1>1 DEF WatchInv, WatchNumbers, CancelledOnce, WatchGoesOn, WatchStarts, WatchEnds
<1>5. ASSUME NEW c \in cancels', NEW d \in cancels', c.t = d.t, c.n = d.n PROVE c = d
    BY <1>5 DEF WatchInv, CancelledOnce, WatchGoesOn, WatchStarts, WatchEnds
<1> QED BY <1>2, <1>3, <1>4, <1>5 DEF WatchInv, CancelledOnce

\* A callback ends the watch it finds with one cancellation.
LEMMA ExceedEnds ==
    ASSUME WatchInv, NEW t \in Turn, Watched(t), NEW reason, NEW fired,
           exceed(t, reason, fired), watches' = watches
    PROVE  WatchInv'
<1> DEFINE c == [t |-> t, n |-> watch[t].n, reason |-> reason]
<1>1. c.t = t /\ c.n = watch[t].n /\ cancels' = cancels \cup {c}
    BY DEF exceed
<1> HIDE DEF c
<1>2. watch' \in [Turn -> [n : Nat, tokens : Nat, calls : SUBSET ToolId]] /\ watch'[t].n = 0
      /\ \A u \in Turn \ {t} : watch'[u] = watch[u]
    BY DEF exceed, WatchInv, WatchNumbers, Unwatched
<1>3. WatchEnds(t)
    BY <1>1, <1>2 DEF WatchEnds, exceed, TimersOf, Watched, WatchInv, WatchNumbers
<1> QED BY <1>2, <1>3, WatchMovesKeep

\* The watchdog's steps keep its invariant.
LEMMA WatchStepKeeps == ASSUME WatchInv, WatchStep PROVE WatchInv'
<1> USE WatchLimits
<1>1. ASSUME NEW t \in Turn, startRun(t) PROVE WatchInv'
  <2>1. watch' \in [Turn -> [n : Nat, tokens : Nat, calls : SUBSET ToolId]]
        /\ \A u \in Turn \ {t} : watch'[u] = watch[u]
      BY <1>1 DEF startRun, WatchInv, WatchNumbers, Unwatched
  <2>2. WatchStarts(t)
      BY <1>1 DEF startRun, WatchInv, WatchNumbers, Watched, WatchStarts, Unwatched
  <2> QED BY <2>1, <2>2, WatchMovesKeep
<1>2. ASSUME NEW t \in Turn, ObserveTurnEnd(t) PROVE WatchInv'
  <2>1. watch' \in [Turn -> [n : Nat, tokens : Nat, calls : SUBSET ToolId]]
        /\ \A u \in Turn \ {t} : watch'[u] = watch[u]
      BY <1>2 DEF ObserveTurnEnd, finishRun, WatchInv, WatchNumbers, Unwatched
  <2>2. WatchEnds(t)
      BY <1>2 DEF ObserveTurnEnd, finishRun, WatchInv, WatchNumbers, WatchEnds, Unwatched, TimersOf
  <2> QED BY <2>1, <2>2, WatchMovesKeep
<1>3. ASSUME NEW t \in Turn, NEW tokens \in 0..MaxTokens + 1, ObserveTokens(t, tokens)
      PROVE  WatchInv'
  <2>1. CASE tokens > MaxTokens BY <1>3, <2>1, ExceedEnds DEF ObserveTokens
  <2>2. CASE ~ tokens > MaxTokens
    <3>1. watch' \in [Turn -> [n : Nat, tokens : Nat, calls : SUBSET ToolId]]
          /\ watch'[t].n = watch[t].n /\ \A u \in Turn \ {t} : watch'[u] = watch[u]
        BY <1>3, <2>2 DEF ObserveTokens, WatchInv, WatchNumbers
    <3>2. WatchGoesOn(t) BY <1>3, <2>2, <3>1 DEF ObserveTokens, Watched, WatchGoesOn
    <3> QED BY <3>1, <3>2, WatchMovesKeep
  <2> QED BY <2>1, <2>2
<1>4. ASSUME NEW t \in Turn, NEW c \in ToolId, ObserveToolCall(t, c) PROVE WatchInv'
  <2>1. CASE Cardinality(watch[t].calls) + 1 > MaxToolCalls
      BY <1>4, <2>1, ExceedEnds DEF ObserveToolCall
  <2>2. CASE ~ (Cardinality(watch[t].calls) + 1 > MaxToolCalls)
    <3>1. watch' \in [Turn -> [n : Nat, tokens : Nat, calls : SUBSET ToolId]]
          /\ watch'[t].n = watch[t].n /\ \A u \in Turn \ {t} : watch'[u] = watch[u]
        BY <1>4, <2>2 DEF ObserveToolCall, WatchInv, WatchNumbers
    <3>2. WatchGoesOn(t) BY <1>4, <2>2, <3>1 DEF ObserveToolCall, Watched, WatchGoesOn
    <3> QED BY <3>1, <3>2, WatchMovesKeep
  <2> QED BY <2>1, <2>2
<1>5. ASSUME NEW t \in Turn, NEW c \in ToolId, ObserveToolResponse(t, c) PROVE WatchInv'
  <2>1. WatchGoesOn(t) /\ watch' = watch
      BY <1>5 DEF ObserveToolResponse, WatchGoesOn, Watched
  <2> QED BY <2>1, WatchMovesKeep DEF WatchInv, WatchNumbers
<1>6. ASSUME NEW x \in timers, TimerFires(x) PROVE WatchInv'
  <2>1. x.t \in Turn /\ Watched(x.t)
      BY DEF WatchInv, WatchNumbers, TimersKnowTheirWatch, Watched
  <2> QED BY <1>6, <2>1, ExceedEnds DEF TimerFires
<1>7. ASSUME StopWatchdog PROVE WatchInv'
  <2>1. /\ watch' = [t \in Turn |-> Unwatched] /\ watches' = watches /\ cancels' = cancels
        /\ timers' = {}
      BY <1>7 DEF StopWatchdog, TimersOf, WatchInv, TimersKnowTheirWatch
  <2> QED BY <2>1 DEF WatchInv, WatchNumbers, TimersKnowTheirWatch, CancelledOnce, Unwatched
<1> QED BY <1>1, <1>2, <1>3, <1>4, <1>5, <1>6, <1>7 DEF WatchStep

\* A timer can only end the watch that armed it, and a watch asks for one cancellation at most,
\* although a turn may be watched again and again (finishRun, exceed, the timers by turn id).
THEOREM TimersFindTheirWatch == Spec => []TimersDieWithTheirWatch
<1>1. Init => WatchInv
    BY DEF Init, WatchInit, WatchInv, WatchNumbers, TimersKnowTheirWatch, CancelledOnce, Unwatched
<1>2. WatchInv /\ [Next]_vars => WatchInv'
  <2>1. ASSUME WatchInv, UNCHANGED watchVars PROVE WatchInv'
      BY <2>1 DEF watchVars, WatchInv, WatchNumbers, TimersKnowTheirWatch, CancelledOnce
  <2> QED BY <2>1, WatchStepKeeps DEF Next, vars
<1>3. WatchInv => TimersDieWithTheirWatch
    BY DEF WatchInv, TimersKnowTheirWatch, CancelledOnce, TimersDieWithTheirWatch
<1> QED BY <1>1, <1>2, <1>3, PTL DEF Spec

-----------------------------------------------------------------------------
(***************************************************************************)
(* The deterministic write.  Before a write is settled its proposal is     *)
(* still allowed, so the count must say which dispatches may still cost    *)
(* one more: only the one under way, and the first that did not throw.     *)
(***************************************************************************)

Threw == {r \in ToolCall : tcall[r].kind = "write" /\ tcall[r].outcome = "threw"}

\* A write whose provider call came back, and which is not settled yet.
Unsettled(r) == tcall[r].kind = "write" /\ tcall[r].pc \in {"settle", "reconcile"} /\ tcall[r].outcome # "threw"

ToolTypes ==
    /\ effects \in Nat
    /\ proposal \in ProposalRow
    /\ tcall \in [ToolCall -> ToolCallRow]

\* A call has an outcome only once it has called the provider, and a kind once it has begun.
OutcomesFollowCalls ==
    \A r \in ToolCall : /\ tcall[r].pc \in {"new", "preflight", "gate", "invoke"} => tcall[r].outcome = "none"
                        /\ tcall[r].pc \in {"gate", "reconcile"} => tcall[r].kind = "write"
                        /\ tcall[r].pc = "reconcile" => tcall[r].outcome # "threw"

OneWriter ==
    \A r, q \in ToolCall :
        /\ tcall[r].kind = "write" /\ tcall[r].pc \notin {"new", "done"}
        /\ tcall[q].kind = "write" /\ tcall[q].pc \notin {"new", "done"}
        => r = q

\* A write that goes ahead was approved, and the approval is still unspent.
ApprovedToInvoke ==
    /\ \A r \in ToolCall : tcall[r].kind = "write" /\ tcall[r].pc = "invoke"
                              => proposal.state = "allowed" /\ proposal.decision = "allow"
    /\ effects > 0 => proposal.decision = "allow" /\ proposal.state # "proposed"

EffectsAreCounted ==
    /\ effects <= 1 + Cardinality(Threw)
    /\ proposal.state = "allowed" /\ (\A r \in ToolCall : ~ Unsettled(r)) => effects <= Cardinality(Threw)

DoneIsSeen == \A r \in ToolCall : tcall[r].ans = "reconciled_succeeded" => before \/ effects > 0

ToolInv ==
    /\ ToolTypes /\ OutcomesFollowCalls /\ OneWriter
    /\ ApprovedToInvoke /\ EffectsAreCounted /\ DoneIsSeen

\* The calls that threw are finitely many, and their number is one.
LEMMA ThrewIsFinite == IsFiniteSet(Threw) /\ Cardinality(Threw) \in Nat
<1>1. IsFiniteSet(Threw) BY ToolCallsAreFinite, FS_Subset DEF Threw
<1> QED BY <1>1, FS_CardinalityType

\* One more call that threw counts once.
LEMMA ThrewGrows ==
    ASSUME NEW r \in ToolCall, r \notin Threw, Threw' = Threw \cup {r}
    PROVE  Cardinality(Threw') = Cardinality(Threw) + 1
BY ThrewIsFinite, FS_AddElement

\* A step that moves one call without calling the provider, and the proposal at most to a state
\* in which nothing is allowed any more.
LEMMA SettlingKeeps ==
    ASSUME ToolInv, NEW r \in ToolCall, NEW q \in ToolCallRow,
           effects' = effects, before' = before,
           tcall' = [tcall EXCEPT ![r] = q],
           q.kind = tcall[r].kind \/ tcall[r].pc = "new",
           q.outcome = tcall[r].outcome,
           q.pc \in {"new", "preflight", "gate", "invoke"} => q.outcome = "none",
           q.pc \in {"gate", "reconcile"} => q.kind = "write",
           q.pc = "reconcile" => q.outcome # "threw",
           q.kind = "write" /\ q.pc \notin {"new", "done"}
              => (tcall[r].kind = "write" /\ tcall[r].pc \notin {"new", "done"}) \/ ~ Writing,
           q.kind = "write" /\ q.pc = "invoke" => proposal.state = "allowed" /\ proposal.decision = "allow",
           q.ans = "reconciled_succeeded" => before \/ effects > 0,
           \/ /\ proposal' = proposal
              /\ Unsettled(r) => (q.kind = "write" /\ q.pc \in {"settle", "reconcile"} /\ q.outcome # "threw")
           \/ /\ proposal' \in ProposalRow /\ proposal'.decision = proposal.decision
              /\ proposal'.state \notin {"proposed", "allowed"}
              /\ tcall[r].kind = "write" /\ tcall[r].pc \notin {"new", "done"}
              /\ q.pc = "done"
    PROVE  ToolInv'
<1>1. /\ tcall' \in [ToolCall -> ToolCallRow] /\ tcall'[r] = q
      /\ \A p \in ToolCall \ {r} : tcall'[p] = tcall[p]
    BY DEF ToolInv, ToolTypes
<1>2. Threw' = Threw
    BY <1>1 DEF Threw, ToolInv, OutcomesFollowCalls
<1>3. ToolTypes' /\ OutcomesFollowCalls' /\ DoneIsSeen'
    BY <1>1 DEF ToolInv, ToolTypes, OutcomesFollowCalls, DoneIsSeen
<1>4. OneWriter'
    BY <1>1 DEF ToolInv, OneWriter, Writing
<1>5. ApprovedToInvoke'
    BY <1>1 DEF ToolInv, ApprovedToInvoke, OneWriter
<1>6. EffectsAreCounted'
  <2>1. effects' <= 1 + Cardinality(Threw')
      BY <1>2 DEF ToolInv, EffectsAreCounted
  <2>2. ASSUME proposal'.state = "allowed", \A p \in ToolCall : ~ Unsettled(p)'
        PROVE  proposal.state = "allowed" /\ \A p \in ToolCall : ~ Unsettled(p)
      BY <1>1, <2>2 DEF Unsettled
  <2> QED BY <1>2, <2>1, <2>2 DEF ToolInv, EffectsAreCounted
<1> QED BY <1>3, <1>4, <1>5, <1>6 DEF ToolInv

\* The provider call of a read changes nothing that counts.
LEMMA ReadKeeps ==
    ASSUME ToolInv, NEW r \in ToolCall, tcall[r].kind # "write", invokeViaTrueForge(r)
    PROVE  ToolInv'
<1>1. PICK outcome \in {"succeeded", "failed", "unknown", "auth", "threw"} :
         tcall' = [tcall EXCEPT ![r].pc = "settle", ![r].outcome = outcome]
    BY DEF invokeViaTrueForge
<1>2. effects' = effects /\ proposal' = proposal /\ before' = before
    BY DEF invokeViaTrueForge
<1>3. /\ tcall' \in [ToolCall -> ToolCallRow] /\ tcall'[r].kind = tcall[r].kind /\ tcall'[r].pc = "settle"
      /\ tcall'[r].ans = tcall[r].ans
      /\ \A p \in ToolCall \ {r} : tcall'[p] = tcall[p]
    BY ZenonT(60), <1>1 DEF ToolInv, ToolTypes, ToolCallRow
<1>4. Threw' = Threw /\ \A p \in ToolCall : Unsettled(p)' = Unsettled(p)
    BY <1>3 DEF Threw, Unsettled
<1>5. ToolTypes' /\ OutcomesFollowCalls' /\ OneWriter' /\ ApprovedToInvoke' /\ DoneIsSeen'
    BY <1>2, <1>3 DEF ToolInv, ToolTypes, OutcomesFollowCalls, OneWriter, ApprovedToInvoke, DoneIsSeen
<1> QED BY <1>2, <1>4, <1>5 DEF ToolInv, EffectsAreCounted

\* The provider call of a write: the only writer, under an approval that is still unspent.
LEMMA WriteKeeps ==
    ASSUME ToolInv, NEW r \in ToolCall, tcall[r].kind = "write", invokeViaTrueForge(r)
    PROVE  ToolInv'
<1>1. PICK outcome \in {"succeeded", "failed", "unknown", "auth", "threw"} :
         tcall' = [tcall EXCEPT ![r].pc = "settle", ![r].outcome = outcome]
    BY DEF invokeViaTrueForge
<1>2. effects' \in {effects, effects + 1} /\ proposal' = proposal /\ before' = before
    BY DEF invokeViaTrueForge
<1>3. tcall[r].pc = "invoke" /\ tcall[r].outcome = "none" /\ effects \in Nat /\ effects' \in Nat
    BY <1>2 DEF invokeViaTrueForge, ToolInv, OutcomesFollowCalls, ToolTypes
<1>4. /\ tcall' \in [ToolCall -> ToolCallRow] /\ tcall'[r].kind = "write" /\ tcall'[r].pc = "settle"
      /\ tcall'[r].ans = tcall[r].ans /\ tcall'[r].outcome = outcome
      /\ \A p \in ToolCall \ {r} : tcall'[p] = tcall[p]
    BY <1>1 DEF ToolInv, ToolTypes, ToolCallRow
<1>5. proposal.state = "allowed" /\ proposal.decision = "allow"
    BY <1>3 DEF ToolInv, ApprovedToInvoke
<1>6. effects <= Cardinality(Threw)
  <2>1. \A p \in ToolCall : ~ Unsettled(p)
      BY <1>3 DEF Unsettled, ToolInv, OneWriter
  <2> QED BY <1>5, <2>1 DEF ToolInv, EffectsAreCounted
<1>7. EffectsAreCounted'
  <2>1. CASE outcome = "threw"
    <3>1. r \notin Threw /\ Threw' = Threw \cup {r}
        BY <1>3, <1>4, <2>1 DEF Threw
    <3>2. Cardinality(Threw') = Cardinality(Threw) + 1 /\ Cardinality(Threw) \in Nat
        BY <3>1, ThrewGrows, ThrewIsFinite
    <3> QED BY <1>2, <1>3, <1>6, <3>2 DEF EffectsAreCounted
  <2>2. CASE outcome # "threw"
    <3>1. Threw' = Threw /\ Unsettled(r)'
        BY <1>3, <1>4, <2>2 DEF Threw, Unsettled
    <3>2. Cardinality(Threw) \in Nat
        BY ThrewIsFinite
    <3> QED BY <1>2, <1>3, <1>6, <3>1, <3>2 DEF EffectsAreCounted
  <2> QED BY <2>1, <2>2
<1>8. ToolTypes' /\ OutcomesFollowCalls' /\ OneWriter'
    BY <1>2, <1>3, <1>4 DEF ToolInv, ToolTypes, OutcomesFollowCalls, OneWriter
<1>9. ApprovedToInvoke' /\ DoneIsSeen'
    BY <1>2, <1>3, <1>4, <1>5 DEF ToolInv, ApprovedToInvoke, DoneIsSeen
<1> QED BY <1>7, <1>8, <1>9 DEF ToolInv

\* The person, the account and the bindings: a decision is made once, before any effect.
LEMMA PeopleKeep ==
    ASSUME ToolInv,
           (\E d \in {"allow", "deny"} : Decide(d)) \/ ProposalExpires \/ BindingChanges \/ HealthChanges
    PROVE  ToolInv'
<1>1. tcall' = tcall /\ effects' = effects /\ before' = before
    BY DEF Decide, ProposalExpires, BindingChanges, HealthChanges
<1>2. /\ proposal' \in ProposalRow
      /\ \/ proposal'.state = proposal.state /\ proposal'.decision = proposal.decision
         \/ proposal.state = "proposed"
    BY DEF ToolInv, ToolTypes, Decide, ProposalExpires, BindingChanges, HealthChanges, ProposalRow,
           ProposalState
<1>3. Threw' = Threw /\ \A p \in ToolCall : Unsettled(p)' = Unsettled(p)
    BY <1>1 DEF Threw, Unsettled
<1>4. ToolTypes' /\ OutcomesFollowCalls' /\ OneWriter' /\ ApprovedToInvoke' /\ DoneIsSeen'
    BY <1>1, <1>2 DEF ToolInv, ToolTypes, OutcomesFollowCalls, OneWriter, ApprovedToInvoke, DoneIsSeen
<1>5. effects \in Nat /\ Cardinality(Threw) \in Nat
    BY ThrewIsFinite DEF ToolInv, ToolTypes
<1>6. proposal.state = "proposed" => effects = 0
    BY <1>5 DEF ToolInv, ApprovedToInvoke
<1> QED BY <1>1, <1>2, <1>3, <1>4, <1>5, <1>6 DEF ToolInv, EffectsAreCounted

\* The steps of a call keep the invariant, one by one.
LEMMA ToolStepKeeps == ASSUME ToolInv, ToolStep PROVE ToolInv'
<1> USE DEF ToolTypes
<1>1. ASSUME NEW r \in ToolCall, DispatchRead(r) PROVE ToolInv'
  <2> DEFINE q == [tcall[r] EXCEPT !.pc = "preflight", !.kind = "read"]
  <2>1. /\ q \in ToolCallRow /\ q.pc = "preflight" /\ q.kind = "read" /\ q.outcome = tcall[r].outcome
        /\ q.ans = tcall[r].ans
      BY DEF ToolInv, ToolCallRow
  <2>2. tcall' = [tcall EXCEPT ![r] = q] /\ UNCHANGED <<proposal, effects, before>> /\ tcall[r].pc = "new"
      BY <1>1 DEF DispatchRead, ToolInv
  <2> HIDE DEF q
  <2> QED BY <2>1, <2>2, SettlingKeeps DEF ToolInv, OutcomesFollowCalls, DoneIsSeen, Unsettled
<1>2. ASSUME NEW r \in ToolCall, DispatchWrite(r) PROVE ToolInv'
  <2> DEFINE q == [tcall[r] EXCEPT !.pc = "preflight", !.kind = "write"]
  <2>1. /\ q \in ToolCallRow /\ q.pc = "preflight" /\ q.kind = "write" /\ q.outcome = tcall[r].outcome
        /\ q.ans = tcall[r].ans
      BY DEF ToolInv, ToolCallRow
  <2>2. tcall' = [tcall EXCEPT ![r] = q] /\ UNCHANGED <<proposal, effects, before>> /\ tcall[r].pc = "new"
        /\ ~ Writing
      BY <1>2 DEF DispatchWrite, ToolInv
  <2> HIDE DEF q
  <2> QED BY <2>1, <2>2, SettlingKeeps DEF ToolInv, OutcomesFollowCalls, DoneIsSeen, Unsettled
\* A call that only goes on to its next point, or is refused.
<1>3. ASSUME NEW r \in ToolCall, NEW pc \in {"gate", "invoke"}, ToolGo(r, pc),
             tcall[r].pc \in {"preflight", "gate"},
             pc = "gate" => tcall[r].kind = "write",
             tcall[r].kind = "write" /\ pc = "invoke"
                => proposal.state = "allowed" /\ proposal.decision = "allow",
             UNCHANGED <<proposal, effects, before>>
      PROVE  ToolInv'
  <2> DEFINE q == [tcall[r] EXCEPT !.pc = pc]
  <2>1. /\ q \in ToolCallRow /\ q.pc = pc /\ q.kind = tcall[r].kind /\ q.outcome = tcall[r].outcome
        /\ q.ans = tcall[r].ans
      BY DEF ToolInv, ToolCallRow
  <2>2. tcall' = [tcall EXCEPT ![r] = q]
      BY <1>3 DEF ToolGo, ToolInv
  <2> HIDE DEF q
  <2> QED BY <1>3, <2>1, <2>2, SettlingKeeps DEF ToolInv, OutcomesFollowCalls, DoneIsSeen, Unsettled
<1>4. ASSUME NEW r \in ToolCall, NEW ans \in {"blocked_connection", "preflight_blocked", "not_approved",
                                             "denied", "stale_proposal", "tool_failed", "succeeded"},
             ToolAnswer(r, ans), tcall[r].pc \notin {"new", "done"}, ~ Unsettled(r),
             UNCHANGED <<proposal, effects, before>>
      PROVE  ToolInv'
  <2> DEFINE q == [tcall[r] EXCEPT !.pc = "done", !.ans = ans]
  <2>1. /\ q \in ToolCallRow /\ q.pc = "done" /\ q.kind = tcall[r].kind /\ q.outcome = tcall[r].outcome
        /\ q.ans = ans
      BY DEF ToolInv, ToolCallRow
  <2>2. tcall' = [tcall EXCEPT ![r] = q]
      BY <1>4 DEF ToolAnswer, ToolInv
  <2> HIDE DEF q
  <2> QED BY <1>4, <2>1, <2>2, SettlingKeeps DEF ToolInv
\* A write that is settled: nothing is allowed under its proposal afterwards.
<1>5. ASSUME NEW r \in ToolCall, NEW state \in {"unknown", "reconciled_succeeded", "reconciled_failed"},
             NEW ans \in {"blocked_connection", "reconciled_succeeded", "reconciled_failed"},
             ToolAnswer(r, ans), proposal' = [proposal EXCEPT !.state = state],
             tcall[r].kind = "write", tcall[r].pc \in {"settle", "reconcile"},
             ans = "reconciled_succeeded" => before \/ effects > 0,
             UNCHANGED <<effects, before>>
      PROVE  ToolInv'
  <2> DEFINE q == [tcall[r] EXCEPT !.pc = "done", !.ans = ans]
  <2>1. /\ q \in ToolCallRow /\ q.pc = "done" /\ q.kind = tcall[r].kind /\ q.outcome = tcall[r].outcome
        /\ q.ans = ans
      BY DEF ToolInv, ToolCallRow
  <2>2. tcall' = [tcall EXCEPT ![r] = q]
      BY <1>5 DEF ToolAnswer, ToolInv
  <2>3. /\ proposal' \in ProposalRow /\ proposal'.decision = proposal.decision
        /\ proposal'.state \notin {"proposed", "allowed"}
      BY <1>5 DEF ToolInv, ProposalRow, ProposalState
  <2> HIDE DEF q
  <2> QED BY <1>5, <2>1, <2>2, <2>3, SettlingKeeps DEF ToolInv
<1>6. ASSUME NEW r \in ToolCall, preflightExactReadDispatch(r) \/ preflightExactWriteDispatch(r)
      PROVE  ToolInv'
    BY <1>3, <1>4, <1>6 DEF preflightExactReadDispatch, preflightExactWriteDispatch, Preflight, Unsettled
<1>7. ASSUME NEW r \in ToolCall, Gate(r) PROVE ToolInv'
  <2>1. gateApprovalGatedWrite \in {"preflight_blocked", "stale_proposal", "denied", "approved", "not_approved"}
      BY DEF gateApprovalGatedWrite
  <2>2. CASE gateApprovalGatedWrite = "approved"
    <3>1. proposal.state = "allowed" /\ proposal.decision = "allow"
        BY <2>2 DEF gateApprovalGatedWrite
    <3> QED BY <1>3, <1>7, <2>2, <3>1 DEF Gate
  <2>3. CASE gateApprovalGatedWrite # "approved"
      BY <1>4, <1>7, <2>1, <2>3 DEF Gate, Unsettled
  <2> QED BY <2>2, <2>3
<1>8. ASSUME NEW r \in ToolCall, invokeViaTrueForge(r) PROVE ToolInv'
    BY <1>8, ReadKeeps, WriteKeeps
<1>9. ASSUME NEW r \in ToolCall, SettleRead(r) PROVE ToolInv'
  <2>1. PICK ans \in {"blocked_connection", "tool_failed", "succeeded"} : ToolAnswer(r, ans)
      BY <1>9 DEF SettleRead
  <2> QED BY <1>4, <1>9, <2>1 DEF SettleRead, Unsettled
<1>10. ASSUME NEW r \in ToolCall, SettleWrite(r) PROVE ToolInv'
  <2>1. CASE tcall[r].outcome = "threw" BY <1>4, <1>10, <2>1 DEF SettleWrite, Unsettled
  <2>2. CASE tcall[r].outcome = "auth" BY <1>5, <1>10, <2>2 DEF SettleWrite
  <2>3. CASE tcall[r].outcome \notin {"threw", "auth"}
    <3> DEFINE q == [tcall[r] EXCEPT !.pc = "reconcile"]
    <3>1. /\ q \in ToolCallRow /\ q.pc = "reconcile" /\ q.kind = tcall[r].kind
          /\ q.outcome = tcall[r].outcome /\ q.ans = tcall[r].ans
        BY DEF ToolInv, ToolCallRow
    <3>2. tcall' = [tcall EXCEPT ![r] = q] /\ UNCHANGED <<proposal, effects, before>>
          /\ tcall[r].kind = "write" /\ tcall[r].pc = "settle"
        BY <1>10, <2>3 DEF SettleWrite, ToolGo, ToolInv
    <3> HIDE DEF q
    <3> QED BY <2>3, <3>1, <3>2, SettlingKeeps DEF ToolInv, DoneIsSeen
  <2> QED BY <2>1, <2>2, <2>3
<1>11. ASSUME NEW r \in ToolCall, reconcileDeterministicWrite(r) PROVE ToolInv'
    BY <1>5, <1>11 DEF reconcileDeterministicWrite, Matched, ToolInv, OutcomesFollowCalls
<1> QED BY <1>1, <1>2, <1>6, <1>7, <1>8, <1>9, <1>10, <1>11, PeopleKeep DEF ToolStep

\* An approval is worth one write of the provider, and one more only for each dispatch that ended
\* in a thrown error; without approval there is none; and a write reported as done is one whose
\* label the target carries (gateApprovalGatedWrite, reconcileDeterministicWrite).
THEOREM ApprovalIsWorthOneWrite == Spec => []OneWritePerApproval
<1>1. Init => ToolInv
  <2>1. ASSUME NEW present \in BOOLEAN, ToolStart(present) PROVE ToolInv
    <3>1. \A r \in ToolCall : tcall[r] = NewToolCall
        BY <2>1 DEF ToolStart
    <3>2. Threw = {}
        BY <3>1 DEF Threw, NewToolCall
    <3>3. Cardinality(Threw) = 0
        BY <3>2, FS_EmptySet
    <3>4. NewToolCall \in ToolCallRow
        BY DEF NewToolCall, ToolCallRow
    <3> QED BY <2>1, <3>1, <3>3, <3>4
            DEF ToolStart, ToolInv, ToolTypes, OutcomesFollowCalls, OneWriter, ApprovedToInvoke,
                EffectsAreCounted, DoneIsSeen, NewToolCall, ProposalRow, ProposalState
  <2> QED BY <2>1 DEF Init, ToolInit
<1>2. ToolInv /\ [Next]_vars => ToolInv'
  <2>1. ASSUME ToolInv, UNCHANGED toolVars PROVE ToolInv'
    <3>1. Threw' = Threw /\ \A r \in ToolCall : Unsettled(r)' = Unsettled(r)
        BY <2>1 DEF toolVars, Threw, Unsettled
    <3> QED BY <2>1, <3>1 DEF toolVars, ToolInv, ToolTypes, OutcomesFollowCalls, OneWriter,
                ApprovedToInvoke, EffectsAreCounted, DoneIsSeen
  <2> QED BY <2>1, ToolStepKeeps DEF Next, vars
<1>3. ToolInv => OneWritePerApproval
    BY DEF ToolInv, ApprovedToInvoke, EffectsAreCounted, DoneIsSeen, Threw, OneWritePerApproval
<1> QED BY <1>1, <1>2, <1>3, PTL DEF Spec

-----------------------------------------------------------------------------
(***************************************************************************)
(* The links.  Two requests may both have created a link for one person    *)
(* under one key; only one of them is ever stored, and an answer carries a *)
(* stored one.  A deleted link is an expired one.                          *)
(***************************************************************************)

LinkTypes ==
    /\ link \in [ConnCall -> LinkRow] /\ ccall \in [ConnCall -> ConnCallRow]
    /\ account \in ConnStatus

\* One person's key names one stored link; what was removed had expired.
OneStoredLink ==
    /\ \A i, j \in ConnCall :
          /\ link[i].state = "stored" /\ link[j].state = "stored"
          /\ link[i].who = link[j].who /\ link[i].key = link[j].key
          => i = j
    /\ \A i \in ConnCall : link[i].state = "deleted" => link[i].expired

BeforeTheLink == {"new", "insert", "load", "purge", "find", "link"}

\* A request creates its own link at most once, under its own name and key.
CallsOwnTheirLink ==
    \A r \in ConnCall :
        /\ ccall[r].pc \in BeforeTheLink => link[r].state = "none"
        /\ ccall[r].pc = "save" =>
              /\ link[r].state = "created" /\ link[r].n = 0
              /\ link[r].who = ccall[r].who /\ link[r].key = ccall[r].key

\* A reconnection is on its own path, and answered with a link that was stored for its person.
AnswersCarryStoredLinks ==
    \A r \in ConnCall :
        /\ ccall[r].pc \in {"execute", "observe", "write", "latest"} => ccall[r].kind # "reconnect"
        /\ ccall[r].kind = "reconnect" /\ ccall[r].pc # "done" => ccall[r].ans = "none"
        /\ ccall[r].pc = "mark" \/ (ccall[r].kind = "reconnect" /\ ccall[r].ans = "ok") =>
              /\ ccall[r].of \in ConnCall /\ link[ccall[r].of].state \in {"stored", "deleted"}
              /\ link[ccall[r].of].who = ccall[r].who

LinkInv == LinkTypes /\ OneStoredLink /\ CallsOwnTheirLink /\ AnswersCarryStoredLinks

\* What a step may do to a link in passing: it keeps its name, and stays stored unless it expires.
LinkAges(i) ==
    /\ link'[i] \in LinkRow /\ link'[i].n = link[i].n
    /\ link'[i].key = link[i].key /\ link'[i].who = link[i].who
    /\ \/ link'[i].state = link[i].state /\ (link[i].expired => link'[i].expired)
       \/ link[i].state = "stored" /\ link'[i].state = "deleted" /\ link'[i].expired

\* A step that only lets links age and moves one call along its path.
LEMMA AgingKeeps ==
    ASSUME LinkInv, NEW r \in ConnCall, NEW q \in ConnCallRow,
           link' \in [ConnCall -> LinkRow], \A i \in ConnCall : LinkAges(i), account' = account,
           ccall' = [ccall EXCEPT ![r] = q],
           q.pc \in BeforeTheLink => ccall[r].pc \in BeforeTheLink,
           q.pc # "save",
           q.pc \in {"execute", "observe", "write", "latest"} => q.kind # "reconnect",
           q.kind = "reconnect" /\ q.pc # "done" => q.ans = "none",
           q.pc = "mark" \/ (q.kind = "reconnect" /\ q.ans = "ok") =>
              /\ q.of \in ConnCall /\ link[q.of].state \in {"stored", "deleted"}
              /\ link[q.of].who = q.who
    PROVE  LinkInv'
<1>1. /\ ccall' \in [ConnCall -> ConnCallRow] /\ ccall'[r] = q
      /\ \A p \in ConnCall \ {r} : ccall'[p] = ccall[p]
    BY DEF LinkInv, LinkTypes
<1>2. LinkTypes' BY <1>1 DEF LinkInv, LinkTypes
<1>3. OneStoredLink'
  <2>1. \A i \in ConnCall : link'[i].state = "stored" => link[i].state = "stored"
      BY DEF LinkAges
  <2>2. \A i \in ConnCall : link'[i].key = link[i].key /\ link'[i].who = link[i].who
      BY DEF LinkAges
  <2>3. \A i \in ConnCall : link'[i].state = "deleted" => link'[i].expired
      BY DEF LinkInv, OneStoredLink, LinkAges
  <2>4. ASSUME NEW i \in ConnCall, NEW j \in ConnCall,
               link'[i].state = "stored", link'[j].state = "stored",
               link'[i].who = link'[j].who, link'[i].key = link'[j].key
        PROVE  i = j
      BY <2>1, <2>2, <2>4 DEF LinkInv, OneStoredLink
  <2> QED BY <2>3, <2>4 DEF OneStoredLink
<1>4. CallsOwnTheirLink' BY <1>1 DEF LinkInv, CallsOwnTheirLink, LinkAges, BeforeTheLink
<1>5. AnswersCarryStoredLinks' BY <1>1 DEF LinkInv, AnswersCarryStoredLinks, LinkAges
<1> QED BY <1>2, <1>3, <1>4, <1>5 DEF LinkInv

\* Links that nobody touches age too.
LEMMA RestingLinksAge ==
    ASSUME LinkInv, link' = link
    PROVE  link' \in [ConnCall -> LinkRow] /\ \A i \in ConnCall : LinkAges(i)
BY DEF LinkInv, LinkTypes, LinkAges

\* The removal of expired links removes expired links.
LEMMA DeletedLinksAge ==
    ASSUME LinkInv, DeleteExpired
    PROVE  link' \in [ConnCall -> LinkRow] /\ \A i \in ConnCall : LinkAges(i)
<1>1. ASSUME NEW i \in ConnCall PROVE LinkAges(i)
  <2>1. link[i] \in LinkRow BY DEF LinkInv, LinkTypes
  <2>2. CASE link[i].state = "stored" /\ link[i].expired
    <3>1. link'[i] = [link[i] EXCEPT !.state = "deleted"] BY <2>2 DEF DeleteExpired
    <3> QED BY <2>1, <2>2, <3>1 DEF LinkRow, LinkAges
  <2>3. CASE ~ (link[i].state = "stored" /\ link[i].expired)
    <3>1. link'[i] = link[i] BY <2>3 DEF DeleteExpired
    <3> QED BY <2>1, <3>1 DEF LinkAges
  <2> QED BY <2>2, <2>3
<1>2. link' = [i \in ConnCall |-> link'[i]] BY DEF DeleteExpired
<1> QED BY <1>1, <1>2 DEF LinkAges

\* The person's latest links are links of the person.
LEMMA LatestAreStored ==
    ASSUME NEW who, NEW I \in SUBSET Stored(who), NEW i \in Latest(I)
    PROVE  i \in ConnCall /\ link[i].state = "stored" /\ link[i].who = who
BY DEF Latest, Stored

\* The call moves in place: only its point, what it saw and its answer change.
CallGoes(r, pc, ans) ==
    /\ ccall' \in [ConnCall -> ConnCallRow] /\ \A p \in ConnCall \ {r} : ccall'[p] = ccall[p]
    /\ ccall'[r].pc = pc /\ ccall'[r].ans = ans /\ ccall'[r].kind = ccall[r].kind
    /\ ccall'[r].of = ccall[r].of /\ ccall'[r].who = ccall[r].who

\* A call that goes on, with an answer only if it is no reconnection.
LEMMA GoingOnKeeps ==
    ASSUME LinkInv, NEW r \in ConnCall, NEW pc, NEW ans,
           link' \in [ConnCall -> LinkRow], \A i \in ConnCall : LinkAges(i), account' = account,
           CallGoes(r, pc, ans), ccall[r].pc # "done",
           pc \in {"load", "observe", "execute", "write", "purge", "find", "link", "latest", "done"},
           pc \in BeforeTheLink => ccall[r].pc \in BeforeTheLink,
           pc \in {"execute", "observe", "write", "latest"} => ccall[r].kind # "reconnect",
           ccall[r].kind = "reconnect" => ans = ccall[r].ans \/ (pc = "done" /\ ans = "error")
                                             \/ (pc = "done" /\ ccall[r].pc = "mark")
    PROVE  LinkInv'
<1> DEFINE q == ccall'[r]
<1>1. q \in ConnCallRow /\ ccall' = [ccall EXCEPT ![r] = q]
    BY DEF LinkInv, LinkTypes, CallGoes
<1>2. q.kind = "reconnect" /\ q.pc # "done" => q.ans = "none"
    BY DEF LinkInv, AnswersCarryStoredLinks, CallGoes
<1>3. q.pc # "mark" /\ q.pc # "save"
    BY DEF CallGoes
<1>4. q.kind = "reconnect" /\ q.ans = "ok" =>
         /\ q.of \in ConnCall /\ link[q.of].state \in {"stored", "deleted"}
         /\ link[q.of].who = q.who
    BY DEF LinkInv, AnswersCarryStoredLinks, CallGoes
<1>5. /\ q.pc \in BeforeTheLink => ccall[r].pc \in BeforeTheLink
      /\ q.pc \in {"execute", "observe", "write", "latest"} => q.kind # "reconnect"
    BY DEF CallGoes
<1> HIDE DEF q
<1> QED BY <1>1, <1>2, <1>3, <1>4, <1>5, AgingKeeps

\* The same for a step that writes nothing but the call's next point, or its answer.
LEMMA ConnGoKeeps ==
    ASSUME LinkInv, NEW r \in ConnCall, NEW pc, ConnGo(r, pc), account' = account,
           link' \in [ConnCall -> LinkRow], \A i \in ConnCall : LinkAges(i), ccall[r].pc # "done",
           pc \in {"load", "observe", "execute", "write", "purge", "find", "link", "latest"},
           pc \in BeforeTheLink => ccall[r].pc \in BeforeTheLink,
           pc \in {"execute", "observe", "write", "latest"} => ccall[r].kind # "reconnect"
    PROVE  LinkInv'
<1>1. CallGoes(r, pc, ccall[r].ans)
    BY DEF CallGoes, ConnGo, LinkInv, LinkTypes, ConnCallRow
<1> QED BY <1>1, GoingOnKeeps

\* An answer ends a call and writes no row.
LEMMA ConnAnswerKeeps ==
    ASSUME LinkInv, NEW r \in ConnCall, NEW ans, ConnAnswer(r, ans), account' = account,
           link' \in [ConnCall -> LinkRow], \A i \in ConnCall : LinkAges(i), ccall[r].pc # "done",
           ans \in {"none", "ok", "error", "idle", "pending", "completed", "expired"},
           ccall[r].kind = "reconnect" => ans = "error" \/ ccall[r].pc = "mark"
    PROVE  LinkInv'
<1>1. CallGoes(r, "done", ans)
    BY ZenonT(60) DEF CallGoes, ConnAnswer, LinkInv, LinkTypes, ConnCallRow
<1> QED BY <1>1, GoingOnKeeps DEF BeforeTheLink

\* The first read of the connection, which begins a call.
LEMMA BindingKeeps ==
    ASSUME LinkInv, NEW r \in ConnCall, ensureP0ConnectorBinding(r) PROVE LinkInv'
<1>1. link' \in [ConnCall -> LinkRow] /\ (\A i \in ConnCall : LinkAges(i)) /\ account' = account
    BY RestingLinksAge DEF ensureP0ConnectorBinding
<1>2. PICK kind \in ConnKind, who \in Person, key \in ConnKey :
         LET q == [NewConnCall EXCEPT !.kind = kind, !.who = who,
                                      !.key = IF kind = "reconnect" THEN key ELSE None]
         IN \/ ccall' = [ccall EXCEPT ![r] = [q EXCEPT !.pc = "insert"]]
            \/ ccall' = [ccall EXCEPT ![r] = [q EXCEPT !.pc = "load"]]
            \/ ccall' = [ccall EXCEPT ![r] = [q EXCEPT !.pc = "done", !.ans = "error"]]
    BY DEF ensureP0ConnectorBinding
<1> DEFINE k == IF kind = "reconnect" THEN key ELSE None
           q(pc, ans) == [pc |-> pc, kind |-> kind, who |-> who, key |-> k, seen |-> "none",
                          of |-> None, ans |-> ans]
<1>3. \/ ccall' = [ccall EXCEPT ![r] = q("insert", "none")]
      \/ ccall' = [ccall EXCEPT ![r] = q("load", "none")]
      \/ ccall' = [ccall EXCEPT ![r] = q("done", "error")]
    BY ZenonT(60), <1>2 DEF NewConnCall
<1>4. q("insert", "none") \in ConnCallRow /\ q("load", "none") \in ConnCallRow
      /\ q("done", "error") \in ConnCallRow
    BY DEF ConnCallRow, ConnStatus, ConnKind
<1>5. ccall[r].pc \in BeforeTheLink
    BY DEF ensureP0ConnectorBinding, BeforeTheLink
<1>6. PICK x \in ConnCallRow : /\ ccall' = [ccall EXCEPT ![r] = x] /\ x.pc \in {"insert", "load", "done"}
                               /\ x.pc # "done" => x.ans = "none"
                               /\ x.ans # "ok"
    BY <1>3, <1>4
<1> HIDE DEF q, k
<1> QED BY <1>1, <1>5, <1>6, AgingKeeps DEF BeforeTheLink

\* The other steps that create and store no link.
LEMMA LookingKeeps ==
    ASSUME LinkInv, NEW r \in ConnCall,
           \/ InsertConnectorBinding(r) \/ loadConnectorBinding(r)
           \/ ProviderUnavailable(r) \/ observeStatus(r) \/ observeReconnect(r) \/ executeDirectTool(r)
           \/ WriteStatus(r) \/ MarkConnecting(r) \/ PurgeExpired(r)
    PROVE  LinkInv'
<1>1. link' \in [ConnCall -> LinkRow] /\ (\A i \in ConnCall : LinkAges(i)) /\ account' = account
  <2>1. CASE PurgeExpired(r) BY <2>1, DeletedLinksAge DEF PurgeExpired
  <2>2. CASE ~ PurgeExpired(r)
    <3>1. link' = link /\ account' = account
        BY <2>2 DEF InsertConnectorBinding, loadConnectorBinding, ProviderUnavailable,
             observeStatus, observeReconnect, executeDirectTool, WriteStatus, MarkConnecting
    <3> QED BY <3>1, RestingLinksAge
  <2> QED BY <2>1, <2>2
<1>2. ccall[r].pc \in {"execute", "observe", "write", "latest"} => ccall[r].kind # "reconnect"
    BY DEF LinkInv, AnswersCarryStoredLinks
<1>3. ccall[r].seen \in ConnStatus /\ account \in ConnStatus
      /\ ccall[r].ans \in {"none", "ok", "error", "idle", "pending", "completed", "expired"}
    BY DEF LinkInv, LinkTypes, ConnCallRow
<1>4. CASE InsertConnectorBinding(r)
  <2>1. ConnGo(r, "load") \/ ConnAnswer(r, "error") BY <1>4 DEF InsertConnectorBinding
  <2> QED BY <1>1, <1>4, <2>1, ConnGoKeeps, ConnAnswerKeeps DEF InsertConnectorBinding, BeforeTheLink
<1>5. CASE loadConnectorBinding(r)
  <2>1. \/ ConnAnswer(r, "error")
        \/ ConnGo(r, "purge")
        \/ ccall[r].kind # "reconnect" /\ (ConnGo(r, "latest") \/ ConnGo(r, "observe"))
      BY <1>5 DEF loadConnectorBinding
  <2> QED BY <1>1, <1>5, <2>1, ConnGoKeeps, ConnAnswerKeeps DEF loadConnectorBinding, BeforeTheLink
<1>6. CASE ProviderUnavailable(r)
    BY <1>1, <1>6, ConnAnswerKeeps DEF ProviderUnavailable
<1>7. CASE observeStatus(r)
  <2>1. PICK pc \in {"execute", "write"} : CallGoes(r, pc, ccall[r].ans)
    <3>1. PICK pc \in {"execute", "write"} : ccall' = [ccall EXCEPT ![r].seen = account, ![r].pc = pc]
        BY <1>7 DEF observeStatus
    <3> QED BY ZenonT(60), <1>3, <3>1 DEF CallGoes, LinkInv, LinkTypes, ConnCallRow
  <2> QED BY <1>1, <1>3, <1>7, <2>1, GoingOnKeeps DEF observeStatus, BeforeTheLink
<1>8. CASE observeReconnect(r)
  <2> DEFINE seen == ObservedByProgress(r)
  <2>1. PICK ans \in ProgressAnswers(r) :
           ccall' = [ccall EXCEPT ![r].pc = "write", ![r].ans = ans, ![r].seen = seen]
      BY <1>8 DEF observeReconnect
  <2>2. ans \in {"none", "ok", "error", "idle", "pending", "completed", "expired"}
        /\ seen \in ConnStatus
      BY <1>3 DEF ProgressAnswers, ProgressState, ObservedByProgress, ConnStatus
  <2> HIDE DEF seen
  <2>3. CallGoes(r, "write", ans)
    <3> DEFINE q == [ccall[r] EXCEPT !.pc = "write", !.ans = ans, !.seen = seen]
    <3>1. q \in ConnCallRow /\ q.pc = "write" /\ q.ans = ans /\ q.kind = ccall[r].kind
          /\ q.of = ccall[r].of /\ q.who = ccall[r].who
        BY ZenonT(60), <2>2 DEF LinkInv, LinkTypes, ConnCallRow
    <3>2. ccall' = [ccall EXCEPT ![r] = q]
        BY <2>1 DEF LinkInv, LinkTypes
    <3> HIDE DEF q
    <3> QED BY <3>1, <3>2 DEF CallGoes, LinkInv, LinkTypes
  <2>4. ccall[r].pc = "observe" /\ ccall[r].kind = "progress"
      BY <1>8 DEF observeReconnect
  <2> QED BY <1>1, <2>3, <2>4, GoingOnKeeps DEF BeforeTheLink
<1>9. CASE executeDirectTool(r)
  <2>1. CallGoes(r, "write", ccall[r].ans)
      BY ZenonT(60), <1>3, <1>9 DEF executeDirectTool, CallGoes, LinkInv, LinkTypes, ConnCallRow
  <2> QED BY <1>1, <1>2, <1>3, <1>9, <2>1, GoingOnKeeps DEF executeDirectTool, BeforeTheLink
<1>10. CASE WriteStatus(r)
  <2>1. PICK ans \in {"none", "ok", "error", "idle", "pending", "completed", "expired"} : ConnAnswer(r, ans)
      BY <1>3, <1>10 DEF WriteStatus
  <2> QED BY <1>1, <1>2, <1>10, <2>1, ConnAnswerKeeps DEF WriteStatus
<1>11. CASE MarkConnecting(r)
    BY <1>1, <1>11, ConnAnswerKeeps DEF MarkConnecting
<1>12. CASE PurgeExpired(r)
    BY <1>1, <1>12, ConnGoKeeps DEF PurgeExpired, BeforeTheLink
<1> QED BY <1>4, <1>5, <1>6, <1>7, <1>8, <1>9, <1>10, <1>11, <1>12

\* Calls are finitely many, so there is room for one more age while one link has none.
LEMMA CallsAreCounted == 0 \in 0..Cardinality(ConnCall)
BY ConnCallsAreFinite, FS_CardinalityType

\* The row a link call saves is a row of the table, aged by at most the calls made.
LEMMA SavedFits ==
    ASSUME LinkInv, NEW r \in ConnCall, ~ (link[r].n > 0)
    PROVE  Saved + 1 \in 0..Cardinality(ConnCall)
<1> DEFINE S == {i \in ConnCall : link[i].n > 0}
<1>1. S \subseteq ConnCall \ {r} /\ IsFiniteSet(ConnCall \ {r})
      /\ Cardinality(ConnCall \ {r}) = Cardinality(ConnCall) - 1 /\ Cardinality(ConnCall) \in Nat
    BY ConnCallsAreFinite, FS_RemoveElement, FS_CardinalityType
<1>2. Cardinality(S) <= Cardinality(ConnCall \ {r}) /\ Cardinality(S) \in Nat
    BY <1>1, FS_Subset, FS_CardinalityType
<1> HIDE DEF S
<1> QED BY <1>1, <1>2 DEF Saved, S

\* A reused link, the progress of the latest one, and a new link that is not stored yet.
LEMMA LinkingKeeps ==
    ASSUME LinkInv, NEW r \in ConnCall,
           loadReusableReconnectIntent(r) \/ resolveReconnectIntentForStatus(r) \/ createConnectLink(r)
    PROVE  LinkInv'
<1>1. CASE loadReusableReconnectIntent(r)
  <2> DEFINE byKey == {i \in Stored(ccall[r].who) : link[i].key = ccall[r].key}
             open == IF byKey # {} THEN Unexpired(byKey) ELSE Unexpired(Stored(ccall[r].who))
  <2>1. link' = link /\ account' = account /\ ccall[r].pc = "find"
      BY <1>1 DEF loadReusableReconnectIntent
  <2>2. CASE ConnGo(r, "link")
      BY <2>1, <2>2, ConnGoKeeps, RestingLinksAge DEF BeforeTheLink
  <2>3. CASE ~ ConnGo(r, "link")
    <3>1. PICK i \in Latest(open) :
             ccall' = [ccall EXCEPT ![r].pc = "done", ![r].ans = "ok", ![r].of = i]
        BY <1>1, <2>3 DEF loadReusableReconnectIntent
    <3>2. open \in SUBSET Stored(ccall[r].who)
        BY DEF Unexpired
    <3> HIDE DEF open, byKey
    <3>3. i \in ConnCall /\ link[i].state = "stored" /\ link[i].who = ccall[r].who
        BY <3>2, LatestAreStored
    <3> DEFINE q == [ccall[r] EXCEPT !.pc = "done", !.ans = "ok", !.of = i]
    <3>4. q \in ConnCallRow /\ q.pc = "done" /\ q.ans = "ok" /\ q.who = ccall[r].who /\ q.of = i
        BY ZenonT(60), <3>3 DEF LinkInv, LinkTypes, ConnCallRow
    <3>5. ccall' = [ccall EXCEPT ![r] = q]
        BY <3>1 DEF LinkInv, LinkTypes
    <3> HIDE DEF q
    <3> QED BY <2>1, <3>3, <3>4, <3>5, AgingKeeps, RestingLinksAge DEF BeforeTheLink
  <2> QED BY <2>2, <2>3
<1>2. CASE resolveReconnectIntentForStatus(r)
  <2>1. /\ link' \in [ConnCall -> LinkRow] /\ \A i \in ConnCall : LinkAges(i)
        /\ account' = account /\ ccall[r].pc = "latest"
      BY <1>2, DeletedLinksAge DEF resolveReconnectIntentForStatus
  <2>2. ccall[r].kind # "reconnect"
      BY <2>1 DEF LinkInv, AnswersCarryStoredLinks
  <2>3. PICK i \in ConnCall \cup {None}, ans \in {"idle", "expired", "pending"} :
           ccall' = [ccall EXCEPT ![r].of = i, ![r].pc = "observe", ![r].ans = ans]
    <3>1. CASE Stored(ccall[r].who) = {}
      <4>1. ccall' = [ccall EXCEPT ![r].pc = "observe", ![r].ans = "idle"]
          BY <1>2, <3>1 DEF resolveReconnectIntentForStatus
      <4> DEFINE q == [ccall[r] EXCEPT !.of = ccall[r].of, !.pc = "observe", !.ans = "idle"]
      <4>2. q = [ccall[r] EXCEPT !.pc = "observe", !.ans = "idle"] /\ ccall[r].of \in ConnCall \cup {None}
          BY DEF LinkInv, LinkTypes, ConnCallRow
      <4>3. ccall' = [ccall EXCEPT ![r] = q]
          BY <4>1, <4>2 DEF LinkInv, LinkTypes
      <4>4. ccall' = [ccall EXCEPT ![r].of = ccall[r].of, ![r].pc = "observe", ![r].ans = "idle"]
          BY <4>3 DEF LinkInv, LinkTypes
      <4> QED BY <4>2, <4>4
    <3>2. CASE Stored(ccall[r].who) # {}
      <4>1. PICK i \in Latest(Stored(ccall[r].who)) :
               ccall' = [ccall EXCEPT ![r].of = i, ![r].pc = "observe",
                           ![r].ans = IF link[i].expired THEN "expired" ELSE "pending"]
          BY <1>2, <3>2 DEF resolveReconnectIntentForStatus
      <4>2. i \in ConnCall BY LatestAreStored
      <4> QED BY <4>1, <4>2
    <3> QED BY <3>1, <3>2
  <2> DEFINE q == [ccall[r] EXCEPT !.of = i, !.pc = "observe", !.ans = ans]
  <2>4. q \in ConnCallRow /\ q.pc = "observe" /\ q.ans = ans /\ q.kind = ccall[r].kind
      BY DEF LinkInv, LinkTypes, ConnCallRow
  <2>5. ccall' = [ccall EXCEPT ![r] = q]
      BY <2>3 DEF LinkInv, LinkTypes
  <2> HIDE DEF q
  <2> QED BY <2>1, <2>2, <2>4, <2>5, AgingKeeps DEF BeforeTheLink
<1>3. CASE createConnectLink(r)
  <2> DEFINE new == [NoLink EXCEPT !.state = "created", !.key = ccall[r].key, !.who = ccall[r].who]
  <2>1. ccall[r].pc = "link" /\ account' = account /\ link[r].state = "none"
      BY <1>3 DEF createConnectLink, LinkInv, CallsOwnTheirLink, BeforeTheLink
  <2>2. /\ NoLink \in LinkRow /\ NoLink.n = 0
        /\ ccall[r].key \in ConnKey \cup {None} /\ ccall[r].who \in Person \cup {None}
      BY CallsAreCounted DEF NoLink, LinkRow, LinkInv, LinkTypes, ConnCallRow
  <2>3. new \in LinkRow
      BY <2>2 DEF LinkRow
  <2>4. link' = [link EXCEPT ![r] = new]
      BY <1>3 DEF createConnectLink
  <2>5. new.state = "created" /\ new.key = ccall[r].key /\ new.who = ccall[r].who /\ new.n = 0
      BY <2>2 DEF LinkRow
  <2> DEFINE q == [ccall[r] EXCEPT !.pc = "save"]
  <2>6. /\ q \in ConnCallRow /\ q.pc = "save" /\ q.ans = ccall[r].ans /\ q.kind = ccall[r].kind
        /\ q.who = ccall[r].who /\ q.key = ccall[r].key /\ q.of = ccall[r].of
      BY DEF LinkInv, LinkTypes, ConnCallRow
  <2>7. ccall' = [ccall EXCEPT ![r] = q]
      BY <1>3 DEF createConnectLink, ConnGo, LinkInv, LinkTypes
  <2> HIDE DEF new, q
  <2>8. /\ ccall' \in [ConnCall -> ConnCallRow] /\ ccall'[r] = q
        /\ \A p \in ConnCall \ {r} : ccall'[p] = ccall[p]
        /\ link' \in [ConnCall -> LinkRow] /\ link'[r] = new
        /\ \A i \in ConnCall \ {r} : link'[i] = link[i]
      BY <2>3, <2>4, <2>6, <2>7 DEF LinkInv, LinkTypes
  <2>9. LinkTypes' BY <2>1, <2>8 DEF LinkInv, LinkTypes
  <2>10. OneStoredLink'
    <3>1. \A i \in ConnCall : link'[i].state \in {"stored", "deleted"} => link'[i] = link[i]
        BY <2>5, <2>8
    <3> QED BY <3>1 DEF LinkInv, OneStoredLink
  <2>11. CallsOwnTheirLink' BY <2>5, <2>6, <2>8 DEF LinkInv, CallsOwnTheirLink, BeforeTheLink
  <2>12. AnswersCarryStoredLinks' BY <2>1, <2>5, <2>6, <2>8 DEF LinkInv, AnswersCarryStoredLinks
  <2> QED BY <2>9, <2>10, <2>11, <2>12 DEF LinkInv
<1> QED BY <1>1, <1>2, <1>3

\* The insert that yields to a stored link of the same key, and the read that follows it.
LEMMA SavingKeeps ==
    ASSUME LinkInv, NEW r \in ConnCall, saveConnectionReconnectIntent(r) PROVE LinkInv'
<1>1. /\ ccall[r].pc = "save" /\ account' = account
      /\ link[r].state = "created" /\ link[r].n = 0
      /\ link[r].who = ccall[r].who /\ link[r].key = ccall[r].key
    BY DEF saveConnectionReconnectIntent, LinkInv, CallsOwnTheirLink
<1>2. PICK i \in SavedLink(r) : ccall' = [ccall EXCEPT ![r].pc = "mark", ![r].of = i]
    BY DEF saveConnectionReconnectIntent
<1> DEFINE q == [ccall[r] EXCEPT !.pc = "mark", !.of = i]
<1>3. i \in ConnCall
    BY DEF SavedLink, SameKey, Stored
<1>4. /\ q \in ConnCallRow /\ q.pc = "mark" /\ q.ans = ccall[r].ans /\ q.kind = ccall[r].kind
      /\ q.who = ccall[r].who /\ q.of = i
    BY <1>3 DEF LinkInv, LinkTypes, ConnCallRow
<1>5. ccall' = [ccall EXCEPT ![r] = q]
    BY <1>2 DEF LinkInv, LinkTypes
<1> HIDE DEF q
<1>6. CASE SameKey(r) # {}
  <2>1. link' = link
      BY <1>6 DEF saveConnectionReconnectIntent
  <2>2. link[i].state = "stored" /\ link[i].who = ccall[r].who
      BY <1>6 DEF SavedLink, SameKey, Stored
  <2>3. ccall[r].kind = "reconnect" => ccall[r].ans = "none"
      BY <1>1 DEF LinkInv, AnswersCarryStoredLinks
  <2> QED BY <1>1, <1>3, <1>4, <1>5, <2>1, <2>2, <2>3, AgingKeeps, RestingLinksAge DEF BeforeTheLink
<1>7. CASE SameKey(r) = {}
  <2> DEFINE new == [link[r] EXCEPT !.state = "stored", !.n = Saved + 1]
  <2>1. i = r
      BY <1>7 DEF SavedLink
  <2>2. new.state = "stored" /\ new.who = ccall[r].who /\ new.key = ccall[r].key
      BY <1>1 DEF LinkInv, LinkTypes, LinkRow
  <2>3. new \in LinkRow
    <3>1. ~ (link[r].n > 0) BY <1>1
    <3>2. Saved + 1 \in 0..Cardinality(ConnCall) BY <3>1, SavedFits
    <3> QED BY <3>2 DEF LinkInv, LinkTypes, LinkRow
  <2>4. link' = [link EXCEPT ![r] = new]
      BY <1>7 DEF saveConnectionReconnectIntent, LinkInv, LinkTypes
  <2> HIDE DEF new
  <2>5. /\ ccall' \in [ConnCall -> ConnCallRow] /\ ccall'[r] = q
        /\ \A p \in ConnCall \ {r} : ccall'[p] = ccall[p]
        /\ link' \in [ConnCall -> LinkRow] /\ link'[r] = new
        /\ \A j \in ConnCall \ {r} : link'[j] = link[j]
      BY <1>4, <1>5, <2>3, <2>4 DEF LinkInv, LinkTypes
  <2>6. LinkTypes' BY <1>1, <2>5 DEF LinkInv, LinkTypes
  <2>7. \A j \in ConnCall : link[j].state = "stored" =>
           link[j].who # ccall[r].who \/ link[j].key # ccall[r].key
      BY <1>7 DEF SameKey, Stored
  <2>8. OneStoredLink'
    <3>1. ASSUME NEW j \in ConnCall, NEW k \in ConnCall,
                 link'[j].state = "stored", link'[k].state = "stored",
                 link'[j].who = link'[k].who, link'[j].key = link'[k].key
          PROVE  j = k
        BY <2>2, <2>5, <2>7, <3>1 DEF LinkInv, OneStoredLink
    <3>2. \A j \in ConnCall : link'[j].state = "deleted" => link'[j] = link[j]
        BY <2>2, <2>5
    <3> QED BY <3>1, <3>2 DEF LinkInv, OneStoredLink
  <2>9. CallsOwnTheirLink' BY <1>4, <2>5 DEF LinkInv, CallsOwnTheirLink, BeforeTheLink
  <2>10. AnswersCarryStoredLinks'
      BY <1>1, <1>4, <2>1, <2>2, <2>5 DEF LinkInv, AnswersCarryStoredLinks
  <2> QED BY <2>6, <2>8, <2>9, <2>10 DEF LinkInv
<1> QED BY <1>6, <1>7

\* Time, the person and the provider's account.
LEMMA LinksLive ==
    ASSUME LinkInv,
           (\E r \in ConnCall : PersonJoins(r) \/ LinkExpires(r)) \/ AccountChanges
    PROVE  LinkInv'
<1>1. ccall' = ccall /\ account' \in ConnStatus
    BY DEF PersonJoins, LinkExpires, AccountChanges, LinkInv, LinkTypes, ConnStatus
<1>2. link' \in [ConnCall -> LinkRow] /\ \A i \in ConnCall : LinkAges(i)
  <2>1. CASE AccountChanges
      BY <2>1, RestingLinksAge DEF AccountChanges
  <2>2. ASSUME NEW r \in ConnCall, PersonJoins(r) \/ LinkExpires(r)
        PROVE  link' \in [ConnCall -> LinkRow] /\ \A i \in ConnCall : LinkAges(i)
    <3> DEFINE joins == [link[r] EXCEPT !.joined = TRUE]
               expires == [link[r] EXCEPT !.expired = TRUE]
    <3>1. joins \in LinkRow /\ joins.state = link[r].state /\ joins.n = link[r].n /\ joins.key = link[r].key
          /\ joins.who = link[r].who /\ joins.expired = link[r].expired
        BY DEF LinkInv, LinkTypes, LinkRow
    <3>2. expires \in LinkRow /\ expires.state = link[r].state /\ expires.n = link[r].n /\ expires.key = link[r].key
          /\ expires.who = link[r].who /\ expires.expired
        BY DEF LinkInv, LinkTypes, LinkRow
    <3>3. link' = [link EXCEPT ![r] = joins] \/ link' = [link EXCEPT ![r] = expires]
        BY <2>2 DEF PersonJoins, LinkExpires
    <3> HIDE DEF joins, expires
    <3>4. link' \in [ConnCall -> LinkRow]
          /\ link'[r] \in {joins, expires} /\ \A i \in ConnCall \ {r} : link'[i] = link[i]
        BY <3>1, <3>2, <3>3 DEF LinkInv, LinkTypes
    <3> QED BY <3>1, <3>2, <3>4 DEF LinkAges, LinkInv, LinkTypes
  <2> QED BY <2>1, <2>2
<1>3. LinkTypes' BY <1>1, <1>2 DEF LinkInv, LinkTypes
<1>4. OneStoredLink'
  <2>1. \A i \in ConnCall : link'[i].state = "stored" => link[i].state = "stored"
      BY <1>2 DEF LinkAges
  <2>2. \A i \in ConnCall : link'[i].key = link[i].key /\ link'[i].who = link[i].who
      BY <1>2 DEF LinkAges
  <2>3. \A i \in ConnCall : link'[i].state = "deleted" => link'[i].expired
      BY <1>2 DEF LinkInv, OneStoredLink, LinkAges
  <2> QED BY <2>1, <2>2, <2>3 DEF LinkInv, OneStoredLink
<1>5. CallsOwnTheirLink' BY <1>1, <1>2 DEF LinkInv, CallsOwnTheirLink, LinkAges
<1>6. AnswersCarryStoredLinks' BY <1>1, <1>2 DEF LinkInv, AnswersCarryStoredLinks, LinkAges
<1> QED BY <1>3, <1>4, <1>5, <1>6 DEF LinkInv

\* One key, one link: two answers to one person under one key carry the same link of that key,
\* until it expires, although both requests may have asked the provider for one
\* (saveConnectionReconnectIntent and the read of what it stored).
THEOREM OneLinkAnswersAKey == Spec => []OneLinkPerKey
<1>1. Init => LinkInv
  <2>1. NoLink \in LinkRow /\ NewConnCall \in ConnCallRow
      BY CallsAreCounted DEF NoLink, LinkRow, NewConnCall, ConnCallRow, ConnStatus
  <2> QED BY <2>1 DEF Init, ConnInit, LinkInv, LinkTypes, OneStoredLink, CallsOwnTheirLink,
                      AnswersCarryStoredLinks, NoLink, NewConnCall, BeforeTheLink, ConnStatus
<1>2. LinkInv /\ [Next]_vars => LinkInv'
  <2>1. ASSUME LinkInv, UNCHANGED connVars PROVE LinkInv'
      BY <2>1 DEF connVars, LinkInv, LinkTypes, OneStoredLink, CallsOwnTheirLink, AnswersCarryStoredLinks
  <2>2. ASSUME LinkInv, ConnStep PROVE LinkInv'
      BY <2>2, BindingKeeps, LookingKeeps, LinkingKeeps, SavingKeeps, LinksLive DEF ConnStep
  <2> QED BY <2>1, <2>2 DEF Next, vars
<1>3. LinkInv => OneLinkPerKey
    BY DEF LinkInv, OneStoredLink, AnswersCarryStoredLinks, OneLinkPerKey
<1> QED BY <1>1, <1>2, <1>3, PTL DEF Spec

-----------------------------------------------------------------------------
(***************************************************************************)
(* Artifacts.  A row and its object are written by different steps, and    *)
(* the object may go before the row comes: it does so only through a       *)
(* worker that found its own row refused, and whose id names other content *)
(* for good.                                                               *)
(***************************************************************************)

\* A worker may have removed this content: its own artifact's id names another.
RemovedByLoser(c) ==
    \E p \in ArtifactCall : /\ p \in FromWorker /\ acall[p].c = c /\ acall[p].ans = "conflict"
                            /\ acall[p].id \in ArtifactId /\ row[acall[p].id] \notin {None, c}

Kept(c) == blob[c] = "full" \/ RemovedByLoser(c)

ArtifactTypes ==
    /\ file \in [ArtifactId -> Content]
    /\ blob \in [Content -> {"none", "torn", "full"}]
    /\ row \in [ArtifactId -> Content \cup {None}]
    /\ acall \in [ArtifactCall -> ArtifactCallRow]

CallTyped(r) ==
    /\ acall[r].pc \notin {"new", "done"} => acall[r].id \in ArtifactId
    /\ acall[r].pc \notin {"new", "done", "download"} => acall[r].c \in Content
    /\ acall[r].ans \in {"published", "existing"} => acall[r].c \in Content

\* What a call may rely on where it stands.
CallKnows(r) ==
    /\ acall[r].pc # "done" => acall[r].ans = "none"
    /\ acall[r].pc \notin {"new", "done", "download", "read"} => acall[r].want \in {None, acall[r].c}
    /\ acall[r].pc \in {"find", "insert", "again", "delete"} => Kept(acall[r].c)
    /\ acall[r].pc = "unlinked" => RemovedByLoser(acall[r].c)
    /\ acall[r].pc = "again" => row[acall[r].id] # None \/ Recorded(acall[r].c)
    /\ acall[r].pc = "delete" => r \in FromWorker /\ row[acall[r].id] \notin {None, acall[r].c}
    /\ acall[r].ans \in {"published", "existing"} =>
          Recorded(acall[r].c) /\ acall[r].want \in {None, acall[r].c}
    /\ r \in FromWorker /\ acall[r].ans = "conflict" =>
          acall[r].id \in ArtifactId /\ row[acall[r].id] \notin {None, acall[r].c}

RowsHaveContent == \A id \in ArtifactId : row[id] # None => Kept(row[id])

ArtifactInv ==
    /\ ArtifactTypes /\ RowsHaveContent
    /\ \A r \in ArtifactCall : CallTyped(r) /\ CallKnows(r)

\* Rows are inserted once and stay.
RowsStay == \A id \in ArtifactId : row[id] # None => row'[id] = row[id]

\* What is recorded stays recorded.
LEMMA RecordsStay ==
    ASSUME RowsStay, NEW c \in Content PROVE Recorded(c) => Recorded(c)'
BY ContentIsSomething DEF RowsStay, Recorded

\* A step of one call that removes no object: what the others know stays true.
LEMMA PublishingKeeps ==
    ASSUME ArtifactInv, NEW r \in ArtifactCall, NEW q \in ArtifactCallRow, acall[r].pc # "done",
           acall' = [acall EXCEPT ![r] = q],
           file' = file, blob' \in [Content -> {"none", "torn", "full"}],
           row' \in [ArtifactId -> Content \cup {None}], RowsStay,
           \A c \in Content : blob[c] = "full" => blob'[c] = "full",
           \A id \in ArtifactId : row'[id] # row[id] => Kept(row'[id]),
           CallTyped(r)', CallKnows(r)'
    PROVE  ArtifactInv'
<1>1. /\ acall' \in [ArtifactCall -> ArtifactCallRow]
      /\ \A p \in ArtifactCall \ {r} : acall'[p] = acall[p]
    BY DEF ArtifactInv, ArtifactTypes
<1>2. ArtifactTypes'
    BY <1>1 DEF ArtifactInv, ArtifactTypes
<1>3. ASSUME NEW c \in Content, RemovedByLoser(c) PROVE RemovedByLoser(c)'
  <2>1. PICK p \in ArtifactCall : /\ p \in FromWorker /\ acall[p].c = c /\ acall[p].ans = "conflict"
                                  /\ acall[p].id \in ArtifactId /\ row[acall[p].id] \notin {None, c}
      BY <1>3 DEF RemovedByLoser
  <2>2. p # r
      BY <2>1 DEF ArtifactInv, CallKnows
  <2>3. row'[acall[p].id] = row[acall[p].id] /\ acall'[p] = acall[p]
      BY <1>1, <2>1, <2>2 DEF RowsStay
  <2> QED BY <2>1, <2>3 DEF RemovedByLoser
<1>4. ASSUME NEW c \in Content, Kept(c) PROVE Kept(c)'
    BY <1>3, <1>4 DEF Kept
<1>5. RowsHaveContent'
  <2>1. ASSUME NEW id \in ArtifactId, row'[id] # None
        PROVE  blob'[row'[id]] = "full" \/ RemovedByLoser(row[id])'
    <3>1. PICK c \in Content : c = row'[id]
        BY <1>2, <2>1 DEF ArtifactTypes
    <3>2. Kept(c)
        BY <2>1, <3>1 DEF ArtifactInv, RowsHaveContent, Kept, RemovedByLoser
    <3> QED BY <1>4, <3>1, <3>2 DEF Kept, RemovedByLoser
  <2> QED BY <2>1 DEF RowsHaveContent, Kept
<1>6. ASSUME NEW p \in ArtifactCall, p # r PROVE CallTyped(p)' /\ CallKnows(p)'
  <2>1. acall'[p] = acall[p] /\ CallTyped(p) /\ CallKnows(p)
      BY <1>1, <1>6 DEF ArtifactInv
  <2>2. CallTyped(p)' BY <2>1 DEF CallTyped
  <2>3. acall[p].id \in ArtifactId /\ row[acall[p].id] # None => row'[acall[p].id] = row[acall[p].id]
      BY DEF RowsStay
  <2>4. PICK c : c = acall[p].c
      OBVIOUS
  <2>5. acall'[p].c = c
      BY <2>1, <2>4
  <2>6. CASE c \in Content
    <3>1. /\ Kept(c) => Kept(c)'
          /\ Recorded(c) => Recorded(c)'
          /\ RemovedByLoser(c) => RemovedByLoser(c)'
        BY <1>3, <1>4, <2>6, RecordsStay
    <3>2. CallKnows(p)'
        BY <2>1, <2>3, <2>4, <2>5, <3>1 DEF CallKnows, CallTyped, Kept, RemovedByLoser, Recorded
    <3> QED BY <2>2, <3>2
  <2>7. CASE c \notin Content
      BY <2>1, <2>2, <2>3, <2>4, <2>7 DEF CallKnows, CallTyped
  <2> QED BY <2>6, <2>7
<1> QED BY <1>2, <1>5, <1>6 DEF ArtifactInv

\* What a step of one call says of it, with everything it changes besides.
Publishes(r, q) ==
    /\ q \in ArtifactCallRow /\ acall' = [acall EXCEPT ![r] = q]
    /\ acall'[r] = q /\ acall[r].pc # "done"
    /\ file' = file /\ blob' \in [Content -> {"none", "torn", "full"}]
    /\ row' \in [ArtifactId -> Content \cup {None}]
    /\ \A c \in Content : blob[c] = "full" => blob'[c] = "full"

\* A step that leaves the rows, and at most completes objects.
LEMMA CallGoesOn ==
    ASSUME ArtifactInv, NEW r \in ArtifactCall, NEW q, Publishes(r, q), row' = row,
           q.pc \notin {"new", "done"} => q.id \in ArtifactId,
           q.pc \notin {"new", "done", "download"} => q.c \in Content,
           q.ans \in {"published", "existing"} =>
               q.c \in Content /\ Recorded(q.c) /\ q.want \in {None, q.c},
           q.pc # "done" => q.ans = "none",
           q.pc \notin {"new", "done", "download", "read"} => q.want \in {None, q.c},
           q.pc \in {"find", "insert", "again", "delete"} =>
               (q.c \in Content /\ blob'[q.c] = "full") \/ (acall[r].c = q.c /\ Kept(q.c)),
           q.pc # "unlinked",
           q.pc = "again" => row[q.id] # None \/ Recorded(q.c),
           q.pc = "delete" => r \in FromWorker /\ row[q.id] \notin {None, q.c},
           r \in FromWorker => q.ans # "conflict"
    PROVE  ArtifactInv'
<1>1. ASSUME NEW c, RemovedByLoser(c) PROVE RemovedByLoser(c)'
  <2>1. PICK p \in ArtifactCall : /\ p \in FromWorker /\ acall[p].c = c /\ acall[p].ans = "conflict"
                                  /\ acall[p].id \in ArtifactId /\ row[acall[p].id] \notin {None, c}
      BY <1>1 DEF RemovedByLoser
  <2>2. p # r
      BY <2>1 DEF ArtifactInv, CallKnows, Publishes
  <2>3. acall'[p] = acall[p]
      BY <2>2 DEF Publishes, ArtifactInv, ArtifactTypes
  <2> QED BY <2>1, <2>3 DEF RemovedByLoser
<1>2. ASSUME NEW c, c = q.c, q.pc \in {"find", "insert", "again", "delete"} PROVE Kept(c)'
  <2>1. c \in Content
      BY <1>2
  <2> QED BY <1>1, <1>2, <2>1 DEF Kept, Publishes
<1>3. CallTyped(r)'
    BY DEF CallTyped, Publishes
<1>4. CallKnows(r)'
    BY <1>2 DEF CallKnows, Publishes, Kept, Recorded, RemovedByLoser
<1>5. RowsStay /\ \A id \in ArtifactId : row'[id] # row[id] => Kept(row'[id])
    BY DEF RowsStay
<1> QED BY <1>3, <1>4, <1>5, PublishingKeeps DEF Publishes

\* A call that only moves to another point, or is answered.
LEMMA ArtifactGoPublishes ==
    ASSUME ArtifactInv, NEW r \in ArtifactCall, acall[r].pc # "done", file' = file, row' = row,
           blob' \in [Content -> {"none", "torn", "full"}],
           \A c \in Content : blob[c] = "full" => blob'[c] = "full",
           NEW pc \in {"put", "writing", "find", "insert", "again", "delete", "done"},
           NEW ans \in {"none", "published", "existing", "rejected", "conflict", "error",
                        "shown", "unavailable"},
           \/ ArtifactGo(r, pc) /\ ans = acall[r].ans
           \/ ArtifactAnswer(r, ans) /\ pc = "done"
    PROVE  \E q : /\ Publishes(r, q) /\ q.pc = pc /\ q.ans = ans
                  /\ q.id = acall[r].id /\ q.c = acall[r].c /\ q.want = acall[r].want
<1> DEFINE q == [acall[r] EXCEPT !.pc = pc, !.ans = ans]
<1>1. /\ q \in ArtifactCallRow /\ q.pc = pc /\ q.ans = ans
      /\ q.id = acall[r].id /\ q.c = acall[r].c /\ q.want = acall[r].want
    BY DEF ArtifactInv, ArtifactTypes, ArtifactCallRow
<1>2. acall' = [acall EXCEPT ![r] = q]
  <2>1. CASE ArtifactGo(r, pc) /\ ans = acall[r].ans
    <3>1. [acall[r] EXCEPT !.pc = pc] = q
        BY <2>1 DEF ArtifactInv, ArtifactTypes, ArtifactCallRow
    <3> QED BY <2>1, <3>1 DEF ArtifactGo
  <2>2. CASE ArtifactAnswer(r, ans) /\ pc = "done"
      BY <2>2 DEF ArtifactAnswer, ArtifactInv, ArtifactTypes
  <2> QED BY <2>1, <2>2
<1> HIDE DEF q
<1>3. acall'[r] = q /\ row' \in [ArtifactId -> Content \cup {None}]
    BY <1>2 DEF ArtifactInv, ArtifactTypes
<1> QED BY <1>1, <1>2, <1>3 DEF Publishes

\* A call not yet made is a row of the calls.
LEMMA NewCallTyped == NewArtifactCall \in ArtifactCallRow
BY DEF NewArtifactCall, ArtifactCallRow

\* A discovery, its download, the write of its object and the look for its content.
LEMMA StoringKeeps ==
    ASSUME ArtifactInv, NEW r \in ArtifactCall,
           \/ persistAgUiSandboxArtifacts(r) \/ executePublishSandboxArtifactCommand(r)
           \/ downloadSandboxFile(r) \/ authorizeArtifact(r) \/ readArtifactContent(r)
    PROVE  ArtifactInv'
<1>1. acall[r].pc # "done" /\ UNCHANGED <<file, blob, row>>
    BY DEF persistAgUiSandboxArtifacts, executePublishSandboxArtifactCommand, downloadSandboxFile,
           authorizeArtifact, readArtifactContent
<1>2. /\ file' = file /\ row' = row /\ blob' \in [Content -> {"none", "torn", "full"}]
      /\ row' \in [ArtifactId -> Content \cup {None}]
      /\ \A c \in Content : blob[c] = "full" => blob'[c] = "full"
    BY <1>1 DEF ArtifactInv, ArtifactTypes
<1>3. ASSUME NEW q \in ArtifactCallRow, acall' = [acall EXCEPT ![r] = q] PROVE Publishes(r, q)
    BY <1>1, <1>2, <1>3 DEF Publishes, ArtifactInv, ArtifactTypes
<1>4. ASSUME NEW ans \in {"rejected", "shown", "unavailable"}, ArtifactAnswer(r, ans) PROVE ArtifactInv'
  <2>1. PICK q : /\ Publishes(r, q) /\ q.pc = "done" /\ q.ans = ans
                 /\ q.id = acall[r].id /\ q.c = acall[r].c /\ q.want = acall[r].want
      BY <1>1, <1>2, <1>4, ArtifactGoPublishes
  <2> QED BY <1>2, <2>1, CallGoesOn
<1>5. ASSUME NEW id \in ArtifactId, NEW want \in Content \cup {None},
             publishSandboxArtifactFromDiscovery(r, id, want)
      PROVE  ArtifactInv'
  <2>1. PICK ready \in BOOLEAN :
           acall' = [acall EXCEPT ![r] = [NewArtifactCall EXCEPT
                        !.id = id, !.want = want,
                        !.pc = IF ready THEN "download" ELSE "done",
                        !.ans = IF ready THEN "none" ELSE "rejected"]]
      BY <1>5 DEF publishSandboxArtifactFromDiscovery, SandboxCommandState, MetadataValid
  <2> DEFINE q == [NewArtifactCall EXCEPT !.id = id, !.want = want,
                                          !.pc = IF ready THEN "download" ELSE "done",
                                          !.ans = IF ready THEN "none" ELSE "rejected"]
  <2>2. acall' = [acall EXCEPT ![r] = q]
      BY <2>1
  <2>3. q \in ArtifactCallRow /\ q.pc \in {"download", "done"} /\ q.id \in ArtifactId
        /\ q.ans \in {"none", "rejected"} /\ (q.pc # "done" => q.ans = "none")
      BY NewCallTyped DEF ArtifactCallRow
  <2> HIDE DEF q
  <2> QED BY <1>2, <1>3, <2>2, <2>3, CallGoesOn
<1>6. CASE persistAgUiSandboxArtifacts(r)
    BY <1>5, <1>6 DEF persistAgUiSandboxArtifacts
<1>7. CASE executePublishSandboxArtifactCommand(r)
  <2>1. \A id \in ArtifactId : file[id] \in Content
      BY DEF ArtifactInv, ArtifactTypes
  <2> QED BY <1>4, <1>5, <1>7, <2>1 DEF executePublishSandboxArtifactCommand
<1>8. CASE downloadSandboxFile(r)
  <2>1. CASE ArtifactAnswer(r, "rejected") BY <1>4, <2>1
  <2>2. CASE ~ ArtifactAnswer(r, "rejected")
    <3> DEFINE q == [acall[r] EXCEPT !.pc = "put", !.c = file[acall[r].id]]
    <3>1. /\ acall[r].pc = "download" /\ acall[r].id \in ArtifactId /\ acall[r].ans = "none"
          /\ acall[r].want \in {None, file[acall[r].id]} /\ file[acall[r].id] \in Content
        BY <1>8, <2>2 DEF downloadSandboxFile, MatchesBinding, ContentAccepted, ArtifactInv, ArtifactTypes,
                          CallTyped, CallKnows
    <3>2. acall' = [acall EXCEPT ![r] = q]
        BY <1>8, <2>2 DEF downloadSandboxFile, ArtifactInv, ArtifactTypes
    <3>3. /\ q \in ArtifactCallRow /\ q.pc = "put" /\ q.ans = "none" /\ q.id = acall[r].id
          /\ q.c = file[acall[r].id] /\ q.want = acall[r].want
        BY <3>1 DEF ArtifactInv, ArtifactTypes, ArtifactCallRow
    <3> HIDE DEF q
    <3> QED BY <1>2, <1>3, <3>1, <3>2, <3>3, CallGoesOn
  <2> QED BY <2>1, <2>2
<1>9. CASE authorizeArtifact(r)
  <2>1. PICK id \in ArtifactId :
           /\ row[id] # None
           /\ acall' = [acall EXCEPT ![r] = [NewArtifactCall EXCEPT !.pc = "read", !.id = id, !.c = row[id]]]
      BY <1>9 DEF authorizeArtifact
  <2> DEFINE q == [NewArtifactCall EXCEPT !.pc = "read", !.id = id, !.c = row[id]]
  <2>2. acall' = [acall EXCEPT ![r] = q]
      BY <2>1
  <2>3. q \in ArtifactCallRow /\ q.pc = "read" /\ q.id \in ArtifactId /\ q.ans = "none" /\ q.c \in Content
    <3>1. row[id] \in Content BY <2>1 DEF ArtifactInv, ArtifactTypes
    <3>2. NewArtifactCall.ans = "none" BY DEF NewArtifactCall
    <3> QED BY <3>1, <3>2, NewCallTyped DEF ArtifactCallRow
  <2> HIDE DEF q
  <2> QED BY <1>2, <1>3, <2>2, <2>3, CallGoesOn
<1>10. CASE readArtifactContent(r)
    BY <1>4, <1>10 DEF readArtifactContent
<1> QED BY <1>6, <1>7, <1>8, <1>9, <1>10

\* The object, the look for its content, and the two answers to a refused row.
LEMMA LookingForContentKeeps ==
    ASSUME ArtifactInv, NEW r \in ArtifactCall,
           \/ storeArtifactContent(r) \/ FinishWrite(r) \/ CrashWhileStoring(r)
           \/ findArtifactByContentRevision(r) \/ PublishAgain(r)
    PROVE  ArtifactInv'
<1> DEFINE c == acall[r].c
<1>1. /\ acall[r].pc \in {"put", "writing", "unlinked", "find", "again"} /\ file' = file /\ row' = row
    BY DEF storeArtifactContent, FinishWrite, CrashWhileStoring, findArtifactByContentRevision, PublishAgain
<1>2. /\ c \in Content /\ acall[r].id \in ArtifactId /\ acall[r].ans = "none"
      /\ acall[r].want \in {None, c}
    BY <1>1 DEF ArtifactInv, CallTyped, CallKnows
<1>3. /\ blob' \in [Content -> {"none", "torn", "full"}]
      /\ \A d \in Content : blob[d] = "full" => blob'[d] = "full"
    BY <1>2 DEF storeArtifactContent, FinishWrite, CrashWhileStoring, findArtifactByContentRevision,
                PublishAgain, ArtifactInv, ArtifactTypes
\* The call goes on to pc, where what it relies on is true.
<1>4. ASSUME NEW pc \in {"writing", "find", "insert", "delete"}, ArtifactGo(r, pc),
             pc \in {"find", "insert", "delete"} => blob'[c] = "full" \/ Kept(c),
             pc = "delete" => r \in FromWorker /\ row[acall[r].id] \notin {None, c}
      PROVE  ArtifactInv'
  <2>1. PICK q : /\ Publishes(r, q) /\ q.pc = pc /\ q.ans = acall[r].ans
                 /\ q.id = acall[r].id /\ q.c = c /\ q.want = acall[r].want
      BY <1>1, <1>2, <1>3, <1>4, ArtifactGoPublishes
  <2> QED BY <1>1, <1>2, <1>4, <2>1, CallGoesOn
<1>5. ASSUME NEW ans \in {"existing", "conflict", "error"}, ArtifactAnswer(r, ans),
             ans = "existing" => Recorded(c),
             r \in FromWorker => ans # "conflict"
      PROVE  ArtifactInv'
  <2>1. PICK q : /\ Publishes(r, q) /\ q.pc = "done" /\ q.ans = ans
                 /\ q.id = acall[r].id /\ q.c = c /\ q.want = acall[r].want
      BY <1>1, <1>2, <1>3, <1>5, ArtifactGoPublishes
  <2> QED BY <1>1, <1>2, <1>5, <2>1, CallGoesOn
<1>6. CASE storeArtifactContent(r)
  <2>1. blob[c] \in {"none", "torn", "full"}
      BY <1>2 DEF ArtifactInv, ArtifactTypes
  <2>2. CASE blob[c] = "none" BY <1>4, <1>6, <2>2 DEF storeArtifactContent
  <2>3. CASE blob[c] = "torn" BY <1>5, <1>6, <2>3 DEF storeArtifactContent
  <2>4. CASE blob[c] = "full" BY <1>4, <1>6, <2>4 DEF storeArtifactContent
  <2> QED BY <2>1, <2>2, <2>3, <2>4
<1>7. CASE FinishWrite(r)
  <2>1. CASE acall[r].pc = "writing"
    <3>1. blob'[c] = "full" BY <1>2, <1>7, <2>1 DEF FinishWrite, ArtifactInv, ArtifactTypes
    <3> QED BY <1>4, <1>7, <3>1 DEF FinishWrite
  <2>2. CASE acall[r].pc = "unlinked"
    <3>1. Kept(c) BY <2>2 DEF ArtifactInv, CallKnows, Kept
    <3> QED BY <1>4, <1>7, <3>1 DEF FinishWrite
  <2> QED BY <1>7, <2>1, <2>2 DEF FinishWrite
<1>8. CASE CrashWhileStoring(r) BY <1>5, <1>8 DEF CrashWhileStoring
<1>9. CASE findArtifactByContentRevision(r)
  <2>1. acall[r].pc = "find" /\ Kept(c) BY <1>9 DEF findArtifactByContentRevision, ArtifactInv, CallKnows
  <2> QED BY <1>4, <1>5, <1>9, <2>1 DEF findArtifactByContentRevision
<1>10. CASE PublishAgain(r)
  <2>1. acall[r].pc = "again" /\ Kept(c) /\ (row[acall[r].id] # None \/ Recorded(c))
      BY <1>10 DEF PublishAgain, ArtifactInv, CallKnows
  <2>2. CASE RemovesOnConflict(r)
    <3>1. r \in FromWorker /\ ~ Recorded(c) BY <2>2 DEF RemovesOnConflict
    <3>2. row[acall[r].id] \notin {None, c} BY <1>2, <2>1, <3>1 DEF Recorded
    <3>3. ArtifactGo(r, "delete") BY <1>10, <2>2 DEF PublishAgain
    <3> QED BY <1>4, <2>1, <3>1, <3>2, <3>3
  <2>3. CASE ~ RemovesOnConflict(r)
      BY <1>5, <1>10, <2>3 DEF PublishAgain, RemovesOnConflict
  <2> QED BY <2>2, <2>3
<1> QED BY <1>6, <1>7, <1>8, <1>9, <1>10

\* The insert: a new row names content the call has stored.
LEMMA InsertingKeeps ==
    ASSUME ArtifactInv, NEW r \in ArtifactCall, insertArtifact(r) PROVE ArtifactInv'
<1> DEFINE c == acall[r].c
           id == acall[r].id
<1>1. acall[r].pc = "insert" /\ file' = file /\ blob' = blob
    BY DEF insertArtifact
<1>2. /\ c \in Content /\ id \in ArtifactId /\ acall[r].ans = "none" /\ acall[r].want \in {None, c}
      /\ Kept(c)
    BY <1>1 DEF ArtifactInv, CallTyped, CallKnows
<1>3. /\ blob' \in [Content -> {"none", "torn", "full"}]
      /\ \A d \in Content : blob[d] = "full" => blob'[d] = "full"
    BY <1>1 DEF ArtifactInv, ArtifactTypes
<1>4. CASE row[id] = None /\ ~ Recorded(c)
  <2>1. row' = [row EXCEPT ![id] = c] /\ ArtifactAnswer(r, "published")
      BY <1>4 DEF insertArtifact
  <2>2. /\ row' \in [ArtifactId -> Content \cup {None}] /\ row'[id] = c
        /\ \A x \in ArtifactId \ {id} : row'[x] = row[x]
      BY <1>2, <2>1 DEF ArtifactInv, ArtifactTypes
  <2>3. RowsStay BY <1>4, <2>2 DEF RowsStay
  <2> DEFINE q == [acall[r] EXCEPT !.pc = "done", !.ans = "published"]
  <2>4. /\ q \in ArtifactCallRow /\ q.pc = "done" /\ q.ans = "published"
        /\ q.id = id /\ q.c = c /\ q.want = acall[r].want
      BY DEF ArtifactInv, ArtifactTypes, ArtifactCallRow
  <2>5. acall' = [acall EXCEPT ![r] = q] /\ acall'[r] = q
      BY <2>1 DEF ArtifactAnswer, ArtifactInv, ArtifactTypes
  <2> HIDE DEF q
  <2>6. Recorded(c)' BY <1>2, <2>2, <2>4, <2>5 DEF Recorded
  <2>7. CallTyped(r)' BY <1>2, <2>4, <2>5 DEF CallTyped
  <2>8. CallKnows(r)' BY <1>2, <2>2, <2>4, <2>5 DEF CallKnows, Recorded
  <2>9. \A x \in ArtifactId : row'[x] # row[x] => Kept(row'[x]) BY <1>2, <2>2
  <2>10. acall[r].pc # "done" BY <1>1
  <2> HIDE DEF c, id
  <2> QED BY <1>1, <1>3, <2>2, <2>3, <2>4, <2>5, <2>7, <2>8, <2>9, <2>10, PublishingKeeps
<1>5. CASE ~ (row[id] = None /\ ~ Recorded(c))
  <2>1. row' = row /\ ArtifactGo(r, "again")
      BY <1>5 DEF insertArtifact
  <2>2. PICK q : /\ Publishes(r, q) /\ q.pc = "again" /\ q.ans = acall[r].ans
                 /\ q.id = id /\ q.c = c /\ q.want = acall[r].want
      BY <1>1, <1>2, <1>3, <2>1, ArtifactGoPublishes
  <2> QED BY <1>2, <1>5, <2>1, <2>2, CallGoesOn
<1> QED BY <1>4, <1>5

\* The removal: everybody who stored this content learns that a loser has removed it.
LEMMA RemovingKeeps ==
    ASSUME ArtifactInv, NEW r \in ArtifactCall, deleteObject(r) PROVE ArtifactInv'
<1>1. PICK c : c = acall[r].c
    OBVIOUS
<1>2. /\ acall[r].pc = "delete" /\ UNCHANGED <<file, row>> /\ c \in Content /\ acall[r].id \in ArtifactId
      /\ r \in FromWorker /\ row[acall[r].id] \notin {None, c} /\ acall[r].want \in {None, c}
    BY <1>1 DEF deleteObject, ArtifactInv, CallTyped, CallKnows
<1>3. blob' \in [Content -> {"none", "torn", "full"}] /\ \A d \in Content \ {c} : blob'[d] = blob[d]
    BY <1>1, <1>2 DEF deleteObject, ArtifactInv, ArtifactTypes
<1>4. /\ acall'[r] \in ArtifactCallRow /\ acall'[r].pc = "done" /\ acall'[r].ans = "conflict"
      /\ acall'[r].id = acall[r].id /\ acall'[r].c = c /\ acall'[r].want = acall[r].want
  <2> DEFINE q == [acall[r] EXCEPT !.pc = "done", !.ans = "conflict"]
  <2>1. acall'[r] = q BY DEF deleteObject
  <2>2. q \in ArtifactCallRow /\ q.pc = "done" /\ q.ans = "conflict" /\ q.id = acall[r].id
        /\ q.c = c /\ q.want = acall[r].want
      BY <1>1 DEF ArtifactInv, ArtifactTypes, ArtifactCallRow
  <2> QED BY <2>1, <2>2
<1>5. ASSUME NEW p \in ArtifactCall, p # r
      PROVE  \/ acall'[p] = acall[p]
             \/ /\ acall[p].pc = "writing" /\ acall[p].c = c
                /\ acall'[p] \in ArtifactCallRow /\ acall'[p].pc = "unlinked" /\ acall'[p].ans = acall[p].ans
                /\ acall'[p].id = acall[p].id /\ acall'[p].c = c /\ acall'[p].want = acall[p].want
  <2>1. CASE acall[p].pc = "writing" /\ acall[p].c = c
    <3> DEFINE q == [acall[p] EXCEPT !.pc = "unlinked"]
    <3>1. acall'[p] = q BY <1>1, <1>5, <2>1 DEF deleteObject
    <3>2. q \in ArtifactCallRow /\ q.pc = "unlinked" /\ q.ans = acall[p].ans /\ q.id = acall[p].id
          /\ q.c = c /\ q.want = acall[p].want
        BY <2>1 DEF ArtifactInv, ArtifactTypes, ArtifactCallRow
    <3> QED BY <2>1, <3>1, <3>2
  <2>2. CASE ~ (acall[p].pc = "writing" /\ acall[p].c = c)
      BY <1>1, <1>5, <2>2 DEF deleteObject
  <2> QED BY <2>1, <2>2
<1>6. ArtifactTypes'
  <2>1. acall' \in [ArtifactCall -> ArtifactCallRow]
    <3>1. acall' = [p \in ArtifactCall |-> acall'[p]] BY DEF deleteObject
    <3>2. \A p \in ArtifactCall : acall[p] \in ArtifactCallRow BY DEF ArtifactInv, ArtifactTypes
    <3> QED BY <1>4, <1>5, <3>1, <3>2
  <2> QED BY <1>2, <1>3, <2>1 DEF ArtifactInv, ArtifactTypes
<1>7. RemovedByLoser(c)'
    BY <1>2, <1>4 DEF RemovedByLoser
<1>8. ASSUME NEW d \in Content, RemovedByLoser(d) PROVE RemovedByLoser(d)'
  <2>1. PICK p \in ArtifactCall : /\ p \in FromWorker /\ acall[p].c = d /\ acall[p].ans = "conflict"
                                  /\ acall[p].id \in ArtifactId /\ row[acall[p].id] \notin {None, d}
      BY <1>8 DEF RemovedByLoser
  <2>2. acall[p].pc = "done"
      BY <2>1 DEF ArtifactInv, CallKnows
  <2>3. acall'[p] = acall[p]
      BY <1>2, <1>5, <2>2
  <2> QED BY <1>2, <2>1, <2>3 DEF RemovedByLoser
<1>9. ASSUME NEW d \in Content, Kept(d) PROVE Kept(d)'
    BY <1>3, <1>7, <1>8, <1>9 DEF Kept
<1>10. RowsHaveContent'
  <2>1. ASSUME NEW id \in ArtifactId, row'[id] # None
        PROVE  blob'[row'[id]] = "full" \/ RemovedByLoser(row[id])'
    <3>1. PICK d \in Content : d = row'[id]
        BY <1>6, <2>1 DEF ArtifactTypes
    <3>2. Kept(d) BY <1>2, <2>1, <3>1 DEF ArtifactInv, RowsHaveContent
    <3> QED BY <1>9, <3>1, <3>2 DEF Kept, RemovedByLoser
  <2> QED BY <2>1 DEF RowsHaveContent, Kept
<1>11. ASSUME NEW p \in ArtifactCall PROVE CallTyped(p)' /\ CallKnows(p)'
  <2>1. CallTyped(p) /\ CallKnows(p)
      BY DEF ArtifactInv
  <2>2. CASE p = r
      BY <1>2, <1>4, <2>2 DEF CallTyped, CallKnows
  <2>3. CASE p # r /\ acall'[p] # acall[p]
      BY <1>2, <1>5, <1>7, <2>1, <2>3 DEF CallTyped, CallKnows, RemovedByLoser
  <2>4. CASE acall'[p] = acall[p]
    <3>1. PICK d : d = acall[p].c
        OBVIOUS
    <3>2. CallTyped(p)' BY <2>1, <2>4 DEF CallTyped
    <3>3. CASE d \in Content
      <4>1. (Kept(d) => Kept(d)') /\ (RemovedByLoser(d) => RemovedByLoser(d)')
            /\ (Recorded(d) => Recorded(d)')
          BY <1>2, <1>8, <1>9, <3>3 DEF Recorded
      <4>2. CallKnows(p)'
          BY <1>2, <2>1, <2>4, <3>1, <4>1 DEF CallKnows, Kept, RemovedByLoser, Recorded
      <4> QED BY <3>2, <4>2
    <3>4. CASE d \notin Content
        BY <1>2, <2>1, <2>4, <3>1, <3>2, <3>4 DEF CallKnows, CallTyped
    <3> QED BY <3>3, <3>4
  <2> QED BY <2>2, <2>3, <2>4
<1> QED BY <1>6, <1>10, <1>11 DEF ArtifactInv

\* A row's content is in the store, whoever published the same content at the same time; only a
\* worker whose own row was refused, because its artifact's id already names other content, may
\* have removed it; and what a publication announces is such a row (publishArtifactRecord, the
\* worker's cleanup and the binding to a hash).
THEOREM AnnouncedContentIsThere == Spec => []PublishedContentIsThere
<1>1. Init => ArtifactInv
  <2>1. ASSUME NEW f \in [ArtifactId -> Content], ArtifactStart(f) PROVE ArtifactInv
    <3>1. /\ \A r \in ArtifactCall : acall[r] = NewArtifactCall
          /\ \A id \in ArtifactId : row[id] = None
        BY <2>1 DEF ArtifactStart
    <3>2. ArtifactTypes BY <2>1, NewCallTyped DEF ArtifactStart, ArtifactTypes
    <3> QED BY <3>1, <3>2 DEF ArtifactInv, RowsHaveContent, CallTyped, CallKnows, NewArtifactCall
  <2>2. (CHOOSE c \in Content : TRUE) \in Content
      BY ContentIsSomething
  <2> QED BY <2>1, <2>2 DEF Init, ArtifactInit
<1>2. ArtifactInv /\ [Next]_vars => ArtifactInv'
  <2>1. ASSUME ArtifactInv, UNCHANGED artifactVars PROVE ArtifactInv'
      BY <2>1 DEF artifactVars, ArtifactInv, ArtifactTypes, RowsHaveContent, CallTyped, CallKnows,
                  Kept, Recorded, RemovedByLoser
  <2>2. ASSUME ArtifactInv, NEW id \in ArtifactId, SandboxRewrites(id) PROVE ArtifactInv'
    <3>1. UNCHANGED <<blob, row, acall>> /\ file' \in [ArtifactId -> Content]
        BY <2>2 DEF SandboxRewrites, ArtifactInv, ArtifactTypes
    <3> QED BY <2>2, <3>1 DEF ArtifactInv, ArtifactTypes, RowsHaveContent, CallTyped, CallKnows,
                  Kept, Recorded, RemovedByLoser
  <2>3. ASSUME ArtifactInv, ArtifactStep PROVE ArtifactInv'
      BY <2>2, <2>3, StoringKeeps, LookingForContentKeeps, InsertingKeeps, RemovingKeeps DEF ArtifactStep
  <2> QED BY <2>1, <2>3 DEF Next, vars
<1>3. ArtifactInv => PublishedContentIsThere
  <2>1. ASSUME ArtifactInv, NEW id \in ArtifactId, row[id] # None
        PROVE  \/ blob[row[id]] = "full"
               \/ \E r \in FromWorker : /\ acall[r].c = row[id] /\ acall[r].ans = "conflict"
                                        /\ row[acall[r].id] \notin {None, row[id]}
      BY <2>1 DEF ArtifactInv, RowsHaveContent, Kept, RemovedByLoser
  <2>2. ASSUME ArtifactInv, NEW r \in ArtifactCall, acall[r].ans \in {"published", "existing"}
        PROVE  Recorded(acall[r].c) /\ acall[r].want \in {None, acall[r].c}
      BY <2>2 DEF ArtifactInv, CallKnows
  <2> QED BY <2>1, <2>2 DEF PublishedContentIsThere
<1> QED BY <1>1, <1>2, <1>3, PTL DEF Spec

-----------------------------------------------------------------------------
(***************************************************************************)
(* Skill commands.  A command writes the whole configuration from the copy *)
(* it read before; the revision it compares is what makes the copy equal   *)
(* to the row.  A binding keeps its skill from its attachment on, so what  *)
(* a detachment removed from its copy is still what the binding names.     *)
(***************************************************************************)

SkillTypes ==
    /\ prof \in ProfileRow
    /\ binding \in [SkillCall -> SkillBindingRow]
    /\ scall \in [SkillCall -> SkillCallRow]

\* A copy of the current revision is a copy of the current configuration.
CopyIsOfItsRevision ==
    /\ \A r \in SkillCall :
          /\ scall[r].snap.rev <= prof.rev
          /\ scall[r].snap.rev = prof.rev =>
                scall[r].snap.tools = prof.tools /\ scall[r].snap.skills = prof.skills
    /\ prof.rev = 0 => prof.tools = NewProfile.tools /\ prof.skills = NewProfile.skills

\* What a command is about to write differs from its copy in its own skill alone.
GoalsAreOneSkillAway ==
    \A r \in SkillCall :
        /\ At(r, "attach", "commit") =>
              /\ scall[r].tools = scall[r].snap.tools
              /\ scall[r].skills = scall[r].snap.skills \cup {scall[r].k}
        /\ At(r, "detach", "commit") =>
              /\ scall[r].b \in SkillCall /\ binding[scall[r].b].state # "none"
              /\ scall[r].tools = scall[r].snap.tools
              /\ scall[r].skills = scall[r].snap.skills \ {binding[scall[r].b].k}

\* An attachment has no binding until it commits, and a command knows what it is about.
CommandsAreNamed ==
    \A r \in SkillCall :
        /\ scall[r].kind = "attach" /\ scall[r].pc \in {"new", "decide", "commit"}
              => binding[r].state = "none"
        /\ scall[r].kind = "attach" /\ scall[r].pc \in {"decide", "commit"} => scall[r].k \in Skill
        /\ scall[r].kind = "detach" /\ scall[r].pc \in {"decide", "commit"} => scall[r].b \in SkillCall

SkillInv == SkillTypes /\ CopyIsOfItsRevision /\ GoalsAreOneSkillAway /\ CommandsAreNamed

\* The copies a call may hold: the one it has, the row, or a fresh call's.
Copies(r) == {scall[r].snap, prof, NewProfile}

\* A step of one call that leaves the coworker and the bindings.
LEMMA SkillCallMoves ==
    ASSUME SkillInv, NEW r \in SkillCall, NEW q \in SkillCallRow,
           scall' = [scall EXCEPT ![r] = q], prof' = prof, binding' = binding,
           q.snap \in Copies(r),
           q.kind = "attach" /\ q.pc \in {"new", "decide", "commit"} => binding[r].state = "none",
           q.kind = "attach" /\ q.pc \in {"decide", "commit"} => q.k \in Skill,
           q.kind = "detach" /\ q.pc \in {"decide", "commit"} => q.b \in SkillCall,
           q.kind = "attach" /\ q.pc = "commit" =>
               q.tools = q.snap.tools /\ q.skills = q.snap.skills \cup {q.k},
           q.kind = "detach" /\ q.pc = "commit" =>
               /\ binding[q.b].state # "none"
               /\ q.tools = q.snap.tools /\ q.skills = q.snap.skills \ {binding[q.b].k}
    PROVE  SkillInv'
<1>1. /\ scall' \in [SkillCall -> SkillCallRow] /\ scall'[r] = q
      /\ \A p \in SkillCall \ {r} : scall'[p] = scall[p]
    BY DEF SkillInv, SkillTypes
<1>2. SkillTypes'
    BY <1>1 DEF SkillInv, SkillTypes
<1>3. CopyIsOfItsRevision'
  <2>1. prof.rev \in Nat /\ NewProfile.rev = 0
      BY DEF SkillInv, SkillTypes, ProfileRow, NewProfile
  <2>2. /\ q.snap.rev <= prof.rev
        /\ q.snap.rev = prof.rev => q.snap.tools = prof.tools /\ q.snap.skills = prof.skills
      BY <2>1 DEF SkillInv, CopyIsOfItsRevision, Copies
  <2> QED BY <1>1, <2>2 DEF SkillInv, CopyIsOfItsRevision
<1>4. GoalsAreOneSkillAway'
    BY <1>1 DEF SkillInv, GoalsAreOneSkillAway, At
<1>5. CommandsAreNamed'
    BY <1>1 DEF SkillInv, CommandsAreNamed
<1> QED BY <1>2, <1>3, <1>4, <1>5 DEF SkillInv

\* A call that is answered, or goes on to a point of no interest, keeps its copy and its goal.
LEMMA SkillGoKeeps ==
    ASSUME SkillInv, NEW r \in SkillCall, prof' = prof, binding' = binding,
           NEW pc \in {"turn", "insert", "file", "rotate", "threw", "done"},
           NEW ans \in {"none", "ok", "refused", "threw"},
           \/ SkillGo(r, pc)
           \/ scall' = [scall EXCEPT ![r].pc = pc, ![r].ans = ans]
    PROVE  SkillInv'
<1> DEFINE q == [scall[r] EXCEPT !.pc = pc]
           p == [scall[r] EXCEPT !.pc = pc, !.ans = ans]
<1>1. q \in SkillCallRow /\ q.pc = pc /\ q.snap = scall[r].snap
    BY DEF SkillInv, SkillTypes, SkillCallRow
<1>2. p \in SkillCallRow /\ p.pc = pc /\ p.snap = scall[r].snap
    BY ZenonT(60) DEF SkillInv, SkillTypes, SkillCallRow
<1>3. scall' = [scall EXCEPT ![r] = q] \/ scall' = [scall EXCEPT ![r] = p]
    BY DEF SkillGo, SkillInv, SkillTypes
<1> HIDE DEF q, p
<1> QED BY <1>1, <1>2, <1>3, SkillCallMoves DEF Copies

\* An answer.
LEMMA SkillAnswerKeeps ==
    ASSUME SkillInv, NEW r \in SkillCall, prof' = prof, binding' = binding,
           NEW ans \in {"none", "ok", "refused", "threw"}, SkillAnswer(r, ans)
    PROVE  SkillInv'
<1>1. PICK pc \in {"threw", "done"} : scall' = [scall EXCEPT ![r].pc = pc, ![r].ans = ans]
    BY DEF SkillAnswer
<1> QED BY <1>1, SkillGoKeeps

\* Drafting and publishing, and the rotation of the sessions: the configuration is not touched.
LEMMA PublishingSkillsKeeps ==
    ASSUME SkillInv, NEW r \in SkillCall,
           \/ createSkillDraftForRun(r) \/ buildSkillDraftBodyFromTurn(r) \/ createSkillDraftRecord(r)
           \/ publishSkillDraftForSession(r) \/ publishSkillDraftRecord(r) \/ materializeSkillMarkdown(r)
           \/ BeginSeatRotation(r) \/ SwapSeat(r) \/ AbortSeatRotation(r) \/ SeatsRotated(r)
    PROVE  SkillInv'
<1>1. prof' = prof /\ binding' = binding
    BY DEF createSkillDraftForRun, buildSkillDraftBodyFromTurn, createSkillDraftRecord,
           publishSkillDraftForSession, publishSkillDraftRecord, materializeSkillMarkdown,
           BeginSeatRotation, SwapSeat, AbortSeatRotation, SeatsRotated
<1>2. CASE createSkillDraftForRun(r)
  <2>1. CASE SkillAnswer(r, "refused") BY <1>1, <2>1, SkillAnswerKeeps
  <2>2. CASE ~ SkillAnswer(r, "refused")
    <3>1. PICK k \in Named(scall[r].k, Skill) : scall' = [scall EXCEPT ![r].pc = "turn", ![r].k = k]
        BY <1>2, <2>2 DEF createSkillDraftForRun
    <3>2. k \in Skill \cup {None}
        BY DEF Named, SkillInv, SkillTypes, SkillCallRow
    <3> DEFINE q == [scall[r] EXCEPT !.pc = "turn", !.k = k]
    <3>3. q \in SkillCallRow /\ q.pc = "turn" /\ q.snap = scall[r].snap
        BY ZenonT(60), <3>2 DEF SkillInv, SkillTypes, SkillCallRow
    <3>4. scall' = [scall EXCEPT ![r] = q]
        BY <3>1 DEF SkillInv, SkillTypes
    <3> HIDE DEF q
    <3> QED BY <1>1, <3>3, <3>4, SkillCallMoves DEF Copies
  <2> QED BY <2>1, <2>2
<1>3. CASE buildSkillDraftBodyFromTurn(r)
    BY <1>1, <1>3, SkillAnswerKeeps, SkillGoKeeps DEF buildSkillDraftBodyFromTurn
<1>4. CASE createSkillDraftRecord(r)
    BY <1>1, <1>4, SkillAnswerKeeps DEF createSkillDraftRecord
<1>5. CASE publishSkillDraftForSession(r)
  <2>1. CASE SkillAnswer(r, "ok") \/ SkillAnswer(r, "refused") BY <1>1, <2>1, SkillAnswerKeeps
  <2>2. CASE ~ (SkillAnswer(r, "ok") \/ SkillAnswer(r, "refused"))
    <3>1. PICK k \in Named(scall[r].k, Skill) : scall' = [scall EXCEPT ![r].pc = "commit", ![r].k = k]
        BY <1>5, <2>2 DEF publishSkillDraftForSession
    <3>2. k \in Skill \cup {None} /\ scall[r].kind = "publish"
        BY <1>5 DEF Named, SkillInv, SkillTypes, SkillCallRow, publishSkillDraftForSession, At
    <3> DEFINE q == [scall[r] EXCEPT !.pc = "commit", !.k = k]
    <3>3. q \in SkillCallRow /\ q.pc = "commit" /\ q.kind = "publish" /\ q.snap = scall[r].snap
        BY ZenonT(60), <3>2 DEF SkillInv, SkillTypes, SkillCallRow
    <3>4. scall' = [scall EXCEPT ![r] = q]
        BY <3>1 DEF SkillInv, SkillTypes
    <3> HIDE DEF q
    <3> QED BY <1>1, <3>3, <3>4, SkillCallMoves DEF Copies
  <2> QED BY <2>1, <2>2
<1>6. CASE publishSkillDraftRecord(r)
    BY <1>1, <1>6, SkillAnswerKeeps, SkillGoKeeps DEF publishSkillDraftRecord
<1>7. CASE materializeSkillMarkdown(r)
    BY <1>1, <1>7, SkillAnswerKeeps DEF materializeSkillMarkdown
<1>8. CASE BeginSeatRotation(r)
  <2>1. CASE SkillAnswer(r, "threw") BY <1>1, <2>1, SkillAnswerKeeps
  <2>2. CASE ~ SkillAnswer(r, "threw")
    <3>1. PICK s \in scall[r].left :
             scall' = [scall EXCEPT ![r].pc = "swap", ![r].s = s, ![r].left = @ \ {s}]
        BY <1>8, <2>2 DEF BeginSeatRotation
    <3>2. s \in Seat
        BY DEF SkillInv, SkillTypes, SkillCallRow
    <3> DEFINE q == [scall[r] EXCEPT !.pc = "swap", !.s = s, !.left = @ \ {s}]
    <3>3. q \in SkillCallRow /\ q.pc = "swap" /\ q.snap = scall[r].snap
        BY ZenonT(60), <3>2 DEF SkillInv, SkillTypes, SkillCallRow
    <3>4. scall' = [scall EXCEPT ![r] = q]
        BY <3>1 DEF SkillInv, SkillTypes
    <3> HIDE DEF q
    <3> QED BY <1>1, <3>3, <3>4, SkillCallMoves DEF Copies
  <2> QED BY <2>1, <2>2
<1>9. CASE SwapSeat(r) BY <1>1, <1>9, SkillGoKeeps DEF SwapSeat
<1>10. CASE AbortSeatRotation(r) BY <1>1, <1>10, SkillAnswerKeeps DEF AbortSeatRotation
<1>11. CASE SeatsRotated(r) BY <1>1, <1>11, SkillAnswerKeeps DEF SeatsRotated
<1> QED BY <1>2, <1>3, <1>4, <1>5, <1>6, <1>7, <1>8, <1>9, <1>10, <1>11

\* A call that named something names it again; one that did not names something now.
LEMMA NamedSkill == ASSUME NEW x \in Skill \cup {None}, NEW k \in Named(x, Skill) PROVE k \in Skill
BY DEF Named

\* A name that may be missing names a call or nothing.
LEMMA NamedCall == ASSUME NEW x \in SkillCall \cup {None}, NEW b \in Named(x, SkillCall) PROVE b \in SkillCall
BY DEF Named

\* A call not yet made and the initial profile are rows of their tables.
LEMMA NewSkillCallTyped == NewSkillCall \in SkillCallRow /\ NewProfile \in ProfileRow
<1>1. NewProfile \in ProfileRow
    BY DEF NewProfile, ProfileRow
<1>2. 1 \in 1..MaxTries
    BY TriesAreCounted
<1> QED BY <1>1, <1>2 DEF NewSkillCall, SkillCallRow, SkillKind

\* The reads and decisions of an attachment, a detachment and an edit, and a call sent again.
LEMMA DecidingKeeps ==
    ASSUME SkillInv, NEW r \in SkillCall,
           \/ createSkillBinding(r) \/ attachSkillBindingForSession(r)
           \/ deleteSkillBinding(r) \/ detachSkillBindingForSession(r)
           \/ OpenEditForm(r) \/ SubmitEditForm(r) \/ RetrySkillCall(r)
    PROVE  SkillInv'
<1>1. prof' = prof /\ binding' = binding
    BY DEF createSkillBinding, attachSkillBindingForSession, deleteSkillBinding,
           detachSkillBindingForSession, OpenEditForm, SubmitEditForm, RetrySkillCall
<1>2. /\ scall[r] \in SkillCallRow /\ prof \in ProfileRow
      /\ prof.skills \in SUBSET Skill /\ prof.tools \in SUBSET Tool
      /\ scall[r].snap \in ProfileRow
      /\ scall[r].snap.skills \in SUBSET Skill /\ scall[r].snap.tools \in SUBSET Tool
    BY DEF SkillInv, SkillTypes, SkillCallRow, ProfileRow
<1>3. CASE createSkillBinding(r)
  <2>1. PICK k \in Named(scall[r].k, Skill) :
           scall' = [scall EXCEPT ![r].pc = "decide", ![r].k = k, ![r].snap = prof]
      BY <1>3 DEF createSkillBinding
  <2>2. /\ scall[r].kind = "attach" /\ k \in Skill \cup {None} /\ binding[r].state = "none"
      BY <1>2, <1>3 DEF createSkillBinding, At, Named, SkillCallRow, SkillInv, CommandsAreNamed
  <2>3. k \in Skill
      BY <1>2, NamedSkill DEF SkillCallRow
  <2> DEFINE q == [scall[r] EXCEPT !.pc = "decide", !.k = k, !.snap = prof]
  <2>4. q \in SkillCallRow /\ q.pc = "decide" /\ q.kind = "attach" /\ q.k = k /\ q.snap = prof
      BY <1>2, <2>2 DEF SkillCallRow
  <2>5. scall' = [scall EXCEPT ![r] = q]
      BY <2>1 DEF SkillInv, SkillTypes
  <2> HIDE DEF q
  <2> QED BY <1>1, <2>2, <2>3, <2>4, <2>5, SkillCallMoves DEF Copies
<1>4. CASE attachSkillBindingForSession(r)
  <2>1. CASE SkillAnswer(r, "ok") \/ SkillAnswer(r, "refused") BY <1>1, <2>1, SkillAnswerKeeps
  <2>2. CASE ~ (SkillAnswer(r, "ok") \/ SkillAnswer(r, "refused"))
    <3> DEFINE S == scall[r].snap.skills \cup {scall[r].k}
               T == scall[r].snap.tools
               M == {scall[r].k}
    <3>1. scall' = [scall EXCEPT ![r].pc = "commit", ![r].skills = S, ![r].tools = T, ![r].manifests = M]
        BY <1>4, <2>2 DEF attachSkillBindingForSession
    <3>2. scall[r].kind = "attach" /\ scall[r].k \in Skill /\ binding[r].state = "none"
        BY <1>4 DEF attachSkillBindingForSession, At, SkillInv, CommandsAreNamed
    <3>3. S \in SUBSET Skill /\ T \in SUBSET Tool /\ M \in SUBSET Skill
          /\ S = scall[r].snap.skills \cup {scall[r].k} /\ T = scall[r].snap.tools
        BY <1>2, <3>2
    <3> HIDE DEF S, T, M
    <3> DEFINE q == [scall[r] EXCEPT !.pc = "commit", !.skills = S, !.tools = T, !.manifests = M]
    <3>4. /\ q \in SkillCallRow /\ q.pc = "commit" /\ q.kind = "attach" /\ q.k = scall[r].k
          /\ q.snap = scall[r].snap /\ q.skills = S /\ q.tools = T
        BY <1>2, <3>2, <3>3 DEF SkillCallRow
    <3>5. scall' = [scall EXCEPT ![r] = q]
        BY <3>1 DEF SkillInv, SkillTypes
    <3> HIDE DEF q
    <3> QED BY <1>1, <3>2, <3>3, <3>4, <3>5, SkillCallMoves DEF Copies
  <2> QED BY <2>1, <2>2
<1>5. CASE deleteSkillBinding(r)
  <2>1. PICK b \in Named(scall[r].b, SkillCall) :
           scall' = [scall EXCEPT ![r].pc = "decide", ![r].b = b, ![r].snap = prof]
      BY <1>5 DEF deleteSkillBinding
  <2>2. scall[r].kind = "detach"
      BY <1>5 DEF deleteSkillBinding, At
  <2>3. b \in SkillCall
      BY <1>2, NamedCall DEF SkillCallRow
  <2> DEFINE q == [scall[r] EXCEPT !.pc = "decide", !.b = b, !.snap = prof]
  <2>4. q \in SkillCallRow /\ q.pc = "decide" /\ q.kind = "detach" /\ q.b = b /\ q.snap = prof
      BY <1>2, <2>2, <2>3 DEF SkillCallRow
  <2>5. scall' = [scall EXCEPT ![r] = q]
      BY <2>1 DEF SkillInv, SkillTypes
  <2> HIDE DEF q
  <2> QED BY <1>1, <2>2, <2>3, <2>4, <2>5, SkillCallMoves DEF Copies
<1>6. CASE detachSkillBindingForSession(r)
  <2>1. CASE SkillAnswer(r, "refused") BY <1>1, <2>1, SkillAnswerKeeps
  <2>2. CASE ~ SkillAnswer(r, "refused")
    <3> DEFINE k == binding[scall[r].b].k
               S == scall[r].snap.skills \ {k}
               T == scall[r].snap.tools
    <3>1. /\ scall' = [scall EXCEPT ![r].pc = "commit", ![r].k = k, ![r].skills = S,
                                    ![r].tools = T, ![r].manifests = {}]
          /\ binding[scall[r].b].state = "active"
        BY <1>6, <2>2 DEF detachSkillBindingForSession
    <3>2. scall[r].kind = "detach" /\ scall[r].b \in SkillCall
        BY <1>6 DEF detachSkillBindingForSession, At, SkillInv, CommandsAreNamed
    <3>3. S \in SUBSET Skill /\ T \in SUBSET Tool /\ k \in Skill \cup {None} /\ k = binding[scall[r].b].k
          /\ S = scall[r].snap.skills \ {k} /\ T = scall[r].snap.tools
        BY <1>2, <3>2 DEF SkillInv, SkillTypes, SkillBindingRow
    <3> HIDE DEF S, T, k
    <3> DEFINE q == [scall[r] EXCEPT !.pc = "commit", !.k = k, !.skills = S, !.tools = T, !.manifests = {}]
    <3>4. /\ q \in SkillCallRow /\ q.pc = "commit" /\ q.kind = "detach" /\ q.b = scall[r].b
          /\ q.snap = scall[r].snap /\ q.skills = S /\ q.tools = T
        BY <1>2, <3>2, <3>3 DEF SkillCallRow
    <3>5. scall' = [scall EXCEPT ![r] = q]
        BY <3>1 DEF SkillInv, SkillTypes
    <3> HIDE DEF q
    <3> QED BY ZenonT(60), <1>1, <3>1, <3>2, <3>3, <3>4, <3>5, SkillCallMoves DEF Copies
  <2> QED BY <2>1, <2>2
<1>7. CASE OpenEditForm(r)
  <2>1. PICK tools \in SUBSET Tool :
           scall' = [scall EXCEPT ![r].pc = "form", ![r].skills = prof.skills, ![r].tools = tools]
      BY <1>7 DEF OpenEditForm
  <2> DEFINE q == [scall[r] EXCEPT !.pc = "form", !.skills = prof.skills, !.tools = tools]
  <2>2. q \in SkillCallRow /\ q.pc = "form" /\ q.snap = scall[r].snap
      BY <1>2 DEF SkillCallRow
  <2>3. scall' = [scall EXCEPT ![r] = q]
      BY <2>1 DEF SkillInv, SkillTypes
  <2> HIDE DEF q
  <2> QED BY <1>1, <2>2, <2>3, SkillCallMoves DEF Copies
<1>8. CASE SubmitEditForm(r)
  <2>1. CASE SkillAnswer(r, "refused") BY <1>1, <2>1, SkillAnswerKeeps
  <2>2. CASE ~ SkillAnswer(r, "refused")
    <3>1. scall' = [scall EXCEPT ![r].pc = "commit", ![r].snap = prof] /\ scall[r].kind = "edit"
        BY <1>8, <2>2 DEF SubmitEditForm, At
    <3> DEFINE q == [scall[r] EXCEPT !.pc = "commit", !.snap = prof]
    <3>2. q \in SkillCallRow /\ q.kind = "edit" /\ q.snap = prof
        BY <1>2, <3>1 DEF SkillCallRow
    <3>3. scall' = [scall EXCEPT ![r] = q]
        BY <3>1 DEF SkillInv, SkillTypes
    <3> HIDE DEF q
    <3> QED BY <1>1, <3>2, <3>3, SkillCallMoves DEF Copies
  <2> QED BY <2>1, <2>2
<1>9. CASE RetrySkillCall(r)
  <2>1. scall[r].tries + 1 \in 1..MaxTries
      BY <1>2, <1>9, TriesAreCounted DEF RetrySkillCall, SkillCallRow
  <2>2. CASE ReloadedSkillResult(r)
    <3> DEFINE q == [scall[r] EXCEPT !.pc = "done", !.ans = "ok", !.tries = @ + 1]
    <3>1. q \in SkillCallRow /\ q.pc = "done" /\ q.snap = scall[r].snap
        BY <1>2, <2>1 DEF SkillCallRow
    <3>2. scall' = [scall EXCEPT ![r] = q]
        BY <1>9, <2>2 DEF RetrySkillCall, SkillInv, SkillTypes
    <3> HIDE DEF q
    <3> QED BY <1>1, <3>1, <3>2, SkillCallMoves DEF Copies
  <2>3. CASE ~ ReloadedSkillResult(r)
    <3>1. scall[r].kind = "attach" => binding[r].state = "none"
        BY <2>3 DEF ReloadedSkillResult
    <3> DEFINE q == [NewSkillCall EXCEPT !.kind = scall[r].kind, !.k = scall[r].k, !.b = scall[r].b,
                                         !.tries = scall[r].tries + 1]
    <3>2. NewSkillCall \in SkillCallRow /\ NewSkillCall.pc = "new" /\ NewSkillCall.snap = NewProfile
        BY NewSkillCallTyped DEF NewSkillCall
    <3>3. q \in SkillCallRow /\ q.pc = "new" /\ q.kind = scall[r].kind /\ q.snap = NewProfile
        BY <1>2, <2>1, <3>2 DEF SkillCallRow
    <3>4. scall' = [scall EXCEPT ![r] = q]
        BY <1>9, <2>3 DEF RetrySkillCall
    <3> HIDE DEF q
    <3> QED BY <1>1, <3>1, <3>3, <3>4, SkillCallMoves DEF Copies
  <2> QED BY <2>2, <2>3
<1> QED BY <1>3, <1>4, <1>5, <1>6, <1>7, <1>8, <1>9

\* A row that goes to the rotation of every session.
LEMMA RotatingRow ==
    ASSUME NEW q \in SkillCallRow
    PROVE  /\ [q EXCEPT !.pc = "rotate", !.left = Seat] \in SkillCallRow
           /\ [q EXCEPT !.pc = "rotate", !.left = Seat].pc = "rotate"
           /\ [q EXCEPT !.pc = "rotate", !.left = Seat].snap = q.snap
BY DEF SkillCallRow

\* The configuration is written from a copy of the current revision, under the next one; at most
\* one binding changes, and none loses the skill it names.
LEMMA WritingKeeps ==
    ASSUME SkillInv, NEW r \in SkillCall, ConfigCurrent(r), WriteConfig(r),
           scall' = [scall EXCEPT ![r].pc = "rotate", ![r].left = Seat],
           NEW b \in SkillCall, NEW x \in SkillBindingRow,
           binding' = binding \/ binding' = [binding EXCEPT ![b] = x],
           binding[b].state # "none" => x.state # "none" /\ x.k = binding[b].k,
           binding[b].state = "none" => b = r
    PROVE  SkillInv'
<1> DEFINE q == [scall[r] EXCEPT !.pc = "rotate", !.left = Seat]
<1>1. q \in SkillCallRow /\ q.pc = "rotate" /\ q.snap = scall[r].snap
    BY RotatingRow DEF SkillInv, SkillTypes
<1>2. scall' = [scall EXCEPT ![r] = q]
    BY DEF SkillInv, SkillTypes
<1> HIDE DEF q
<1>3. /\ scall' \in [SkillCall -> SkillCallRow] /\ scall'[r] = q
      /\ \A p \in SkillCall \ {r} : scall'[p] = scall[p]
    BY <1>1, <1>2 DEF SkillInv, SkillTypes
<1>4. scall[r].skills \in SUBSET Skill /\ scall[r].tools \in SUBSET Tool /\ scall[r].snap.rev = prof.rev
      /\ prof.rev \in Nat
    BY DEF ConfigCurrent, SkillInv, SkillTypes, SkillCallRow, ProfileRow
<1>5. /\ prof' \in ProfileRow /\ prof'.rev = prof.rev + 1
  <2>1. prof.rev + 1 \in Nat BY <1>4
  <2> QED BY <1>4, <2>1 DEF WriteConfig, SkillInv, SkillTypes, ProfileRow
<1>6. /\ binding' \in [SkillCall -> SkillBindingRow]
      /\ \A p \in SkillCall : /\ binding[p].state # "none" =>
                                    binding'[p].state # "none" /\ binding'[p].k = binding[p].k
                              /\ p # r /\ binding[p].state = "none" => binding'[p].state = "none"
    BY DEF SkillInv, SkillTypes
<1>7. SkillTypes' BY <1>3, <1>5, <1>6 DEF SkillTypes
<1>8. CopyIsOfItsRevision'
  <2>1. ASSUME NEW p \in SkillCall PROVE scall'[p].snap = scall[p].snap
      BY <1>1, <1>3
  <2>2. ASSUME NEW p \in SkillCall PROVE scall[p].snap.rev \in Nat /\ scall[p].snap.rev <= prof.rev
      BY DEF SkillInv, SkillTypes, SkillCallRow, ProfileRow, CopyIsOfItsRevision
  <2>3. ASSUME NEW p \in SkillCall PROVE scall[p].snap.rev <= prof'.rev /\ scall[p].snap.rev # prof'.rev
      BY <1>4, <1>5, <2>2
  <2>4. prof'.rev # 0 BY <1>4, <1>5
  <2> QED BY <2>1, <2>3, <2>4 DEF CopyIsOfItsRevision
<1>9. GoalsAreOneSkillAway'
    BY <1>1, <1>3, <1>6 DEF SkillInv, GoalsAreOneSkillAway, At
<1>10. CommandsAreNamed'
    BY <1>1, <1>3, <1>6 DEF SkillInv, CommandsAreNamed
<1> QED BY <1>7, <1>8, <1>9, <1>10 DEF SkillInv

\* The three commits.
LEMMA CommittingKeeps ==
    ASSUME SkillInv, NEW r \in SkillCall,
           attachSkillBindingRecord(r) \/ detachSkillBindingRecord(r) \/ commitCoworkerUpdate(r)
    PROVE  SkillInv'
<1>1. CASE attachSkillBindingRecord(r)
  <2>1. binding[r].state = "none" /\ scall[r].k \in Skill
      BY <1>1 DEF attachSkillBindingRecord, At, SkillInv, CommandsAreNamed
  <2>2. CASE ConfigCurrent(r)
    <3> DEFINE x == [state |-> "active", k |-> scall[r].k]
    <3>1. x \in SkillBindingRow BY <2>1 DEF SkillBindingRow
    <3>2. /\ WriteConfig(r) /\ binding' = [binding EXCEPT ![r] = x]
          /\ scall' = [scall EXCEPT ![r].pc = "rotate", ![r].left = Seat]
        BY <1>1, <2>2 DEF attachSkillBindingRecord
    <3> HIDE DEF x
    <3> QED BY <2>1, <2>2, <3>1, <3>2, WritingKeeps
  <2>3. CASE ~ ConfigCurrent(r)
      BY <1>1, <2>3, SkillAnswerKeeps DEF attachSkillBindingRecord
  <2> QED BY <2>2, <2>3
<1>2. CASE detachSkillBindingRecord(r)
  <2>1. scall[r].b \in SkillCall /\ binding[scall[r].b].state # "none"
      BY <1>2 DEF detachSkillBindingRecord, At, SkillInv, GoalsAreOneSkillAway
  <2>2. CASE /\ ConfigCurrent(r) /\ WriteConfig(r)
             /\ binding' = [binding EXCEPT ![scall[r].b].state = "detached"]
             /\ scall' = [scall EXCEPT ![r].pc = "rotate", ![r].left = Seat]
    <3> DEFINE x == [binding[scall[r].b] EXCEPT !.state = "detached"]
    <3>1. x \in SkillBindingRow /\ x.state = "detached" /\ x.k = binding[scall[r].b].k
        BY <2>1 DEF SkillInv, SkillTypes, SkillBindingRow
    <3>2. binding' = [binding EXCEPT ![scall[r].b] = x]
        BY <2>2
    <3> HIDE DEF x
    <3> QED BY <2>1, <2>2, <3>1, <3>2, WritingKeeps
  <2>3. CASE UNCHANGED <<prof, binding>> /\ (SkillAnswer(r, "ok") \/ SkillAnswer(r, "refused"))
      BY <2>3, SkillAnswerKeeps
  <2> QED BY <1>2, <2>2, <2>3 DEF detachSkillBindingRecord
<1>3. CASE commitCoworkerUpdate(r)
  <2>1. binding' = binding
      BY <1>3 DEF commitCoworkerUpdate
  <2>2. CASE ConfigCurrent(r)
      BY <1>3, <2>1, <2>2, WritingKeeps DEF commitCoworkerUpdate, SkillInv, SkillTypes
  <2>3. CASE ~ ConfigCurrent(r)
      BY <1>3, <2>1, <2>3, SkillAnswerKeeps DEF commitCoworkerUpdate
  <2> QED BY <2>2, <2>3
<1> QED BY <1>1, <1>2, <1>3

\* The coworker is disabled, or the process dies.
LEMMA DisablingKeeps == ASSUME SkillInv, disableCoworkerCleanup PROVE SkillInv'
<1>1. scall' = scall /\ binding' = binding /\ prof.rev \in Nat
    BY DEF disableCoworkerCleanup, SkillInv, SkillTypes, ProfileRow
<1>2. prof' \in ProfileRow /\ prof'.rev = prof.rev + 1
  <2>1. prof.rev + 1 \in Nat BY <1>1
  <2> QED BY <2>1 DEF disableCoworkerCleanup, SkillInv, SkillTypes, ProfileRow
<1>3. ASSUME NEW p \in SkillCall PROVE scall[p].snap.rev \in Nat /\ scall[p].snap.rev <= prof.rev
    BY DEF SkillInv, SkillTypes, SkillCallRow, ProfileRow, CopyIsOfItsRevision
<1>4. CopyIsOfItsRevision'
    BY <1>1, <1>2, <1>3 DEF CopyIsOfItsRevision
<1> QED BY <1>1, <1>2, <1>4 DEF SkillInv, SkillTypes, GoalsAreOneSkillAway, CommandsAreNamed, At

\* A process that dies takes its call along and leaves the rows.
LEMMA DyingKeeps == ASSUME SkillInv, SkillProcessDies PROVE SkillInv'
<1>1. prof' = prof /\ binding' = binding
    BY DEF SkillProcessDies
<1>2. ASSUME NEW r \in SkillCall
      PROVE  \/ scall'[r] = scall[r]
             \/ scall'[r] \in SkillCallRow /\ scall'[r].pc = "threw" /\ scall'[r].snap = scall[r].snap
  <2>1. CASE scall[r].pc \in {"new", "form", "threw", "done"}
      BY <2>1 DEF SkillProcessDies
  <2>2. CASE scall[r].pc \notin {"new", "form", "threw", "done"}
    <3> DEFINE q == [scall[r] EXCEPT !.pc = "threw", !.ans = "threw"]
    <3>1. scall'[r] = q BY <2>2 DEF SkillProcessDies
    <3>2. q \in SkillCallRow /\ q.pc = "threw" /\ q.snap = scall[r].snap
        BY ZenonT(60) DEF SkillInv, SkillTypes, SkillCallRow
    <3> QED BY <3>1, <3>2
  <2> QED BY <2>1, <2>2
<1>3. scall' \in [SkillCall -> SkillCallRow]
  <2>1. scall' = [r \in SkillCall |-> scall'[r]] BY DEF SkillProcessDies
  <2>2. \A r \in SkillCall : scall[r] \in SkillCallRow BY DEF SkillInv, SkillTypes
  <2> QED BY <1>2, <2>1, <2>2
<1>4. SkillTypes' BY <1>1, <1>3 DEF SkillInv, SkillTypes
<1>5. CopyIsOfItsRevision' BY <1>1, <1>2 DEF SkillInv, CopyIsOfItsRevision
<1>6. GoalsAreOneSkillAway' BY <1>1, <1>2 DEF SkillInv, GoalsAreOneSkillAway, At
<1>7. CommandsAreNamed' BY <1>1, <1>2 DEF SkillInv, CommandsAreNamed
<1> QED BY <1>4, <1>5, <1>6, <1>7 DEF SkillInv

\* Every step on skills keeps the invariant: one case per kind of action.
LEMMA SkillStepKeeps == ASSUME SkillInv, SkillStep PROVE SkillInv'
BY PublishingSkillsKeeps, DecidingKeeps, CommittingKeeps, DisablingKeeps, DyingKeeps
   DEF SkillStep, SkillCallStep

\* What a step does to the binding of any call, under the invariant.
LEMMA BindingsChangeTheirSkill ==
    ASSUME SkillInv, SkillStep, NEW p \in SkillCall, binding'[p].state # binding[p].state
    PROVE  /\ prof'.tools = prof.tools
           /\ prof'.skills = IF binding'[p].state = "active"
                             THEN prof.skills \cup {binding'[p].k}
                             ELSE prof.skills \ {binding[p].k}
<1>1. PICK r \in SkillCall : attachSkillBindingRecord(r) \/ detachSkillBindingRecord(r)
  <2>1. ASSUME NEW r \in SkillCall, SkillCallStep(r),
               ~ attachSkillBindingRecord(r), ~ detachSkillBindingRecord(r)
        PROVE  binding' = binding
      BY <2>1 DEF SkillCallStep, createSkillDraftForRun, buildSkillDraftBodyFromTurn, createSkillDraftRecord,
         publishSkillDraftForSession, publishSkillDraftRecord, materializeSkillMarkdown, createSkillBinding,
         attachSkillBindingForSession, deleteSkillBinding, detachSkillBindingForSession, OpenEditForm,
         SubmitEditForm, commitCoworkerUpdate, BeginSeatRotation, SwapSeat, AbortSeatRotation, SeatsRotated,
         RetrySkillCall
  <2> QED BY <2>1 DEF SkillStep, disableCoworkerCleanup, SkillProcessDies
<1>2. ConfigCurrent(r) /\ WriteConfig(r)
    BY <1>1 DEF attachSkillBindingRecord, detachSkillBindingRecord
<1>3. /\ scall[r].snap.tools = prof.tools /\ scall[r].snap.skills = prof.skills
      /\ prof'.skills = scall[r].skills /\ prof'.tools = scall[r].tools
    BY <1>2 DEF ConfigCurrent, WriteConfig, SkillInv, CopyIsOfItsRevision, SkillTypes, ProfileRow
<1>4. CASE attachSkillBindingRecord(r)
  <2>1. /\ scall[r].tools = scall[r].snap.tools
        /\ scall[r].skills = scall[r].snap.skills \cup {scall[r].k}
      BY <1>4 DEF attachSkillBindingRecord, SkillInv, GoalsAreOneSkillAway
  <2>2. p = r /\ binding'[p].state = "active" /\ binding'[p].k = scall[r].k
      BY <1>2, <1>4 DEF attachSkillBindingRecord, SkillInv, SkillTypes
  <2> QED BY <1>3, <2>1, <2>2
<1>5. CASE detachSkillBindingRecord(r)
  <2>1. /\ scall[r].tools = scall[r].snap.tools
        /\ scall[r].skills = scall[r].snap.skills \ {binding[scall[r].b].k}
      BY <1>5 DEF detachSkillBindingRecord, SkillInv, GoalsAreOneSkillAway
  <2>2. p = scall[r].b /\ binding'[p].state = "detached"
      BY <1>5 DEF detachSkillBindingRecord, SkillInv, SkillTypes, SkillBindingRow
  <2> QED BY <1>3, <2>1, <2>2
<1> QED BY <1>1, <1>4, <1>5

\* An attachment or a detachment changes exactly its own skill in the coworker's configuration:
\* what an edit or another skill command wrote meanwhile is never overwritten by the copy the
\* command read before (attachSkillBindingRecord, detachSkillBindingRecord).
THEOREM SkillCommandsChangeOneSkill == Spec => SkillCommandsKeepTheRest
<1>1. Init => SkillInv
  <2>1. ASSUME NEW script, SkillStart(script), \A r \in SkillCall : script[r] \in SkillKind PROVE SkillInv
    <3>1. ASSUME NEW r \in SkillCall
          PROVE  scall[r] \in SkillCallRow /\ scall[r].pc = "new" /\ scall[r].snap = NewProfile
      <4> DEFINE q == [NewSkillCall EXCEPT !.kind = script[r]]
      <4>1. NewSkillCall \in SkillCallRow /\ NewSkillCall.pc = "new" /\ NewSkillCall.snap = NewProfile
          BY NewSkillCallTyped DEF NewSkillCall
      <4>2. q \in SkillCallRow /\ q.pc = "new" /\ q.snap = NewProfile
          BY <2>1, <4>1 DEF SkillCallRow
      <4>3. scall[r] = q
          BY <2>1 DEF SkillStart
      <4> QED BY <4>2, <4>3
    <3>2. scall \in [SkillCall -> SkillCallRow]
        BY <2>1, <3>1 DEF SkillStart
    <3>3. /\ prof = NewProfile /\ NewProfile.rev = 0
          /\ \A r \in SkillCall : binding[r] = [state |-> "none", k |-> None]
        BY <2>1 DEF SkillStart, NewProfile
    <3>4. SkillTypes
        BY <2>1, <3>2, <3>3, NewSkillCallTyped DEF SkillStart, SkillTypes, SkillBindingRow
    <3>5. CopyIsOfItsRevision
        BY <3>1, <3>3 DEF CopyIsOfItsRevision
    <3> QED BY <3>1, <3>3, <3>4, <3>5 DEF SkillInv, GoalsAreOneSkillAway, CommandsAreNamed, At
  <2>2. \A r \in SkillCall : [s \in SkillCall |-> "none"][r] \in SkillKind
      BY DEF SkillKind
  <2> QED BY <2>1, <2>2, ScriptsAreKinds DEF Init, SkillInit
<1>2. SkillInv /\ [Next]_vars => SkillInv'
  <2>1. ASSUME SkillInv, UNCHANGED skillVars PROVE SkillInv'
      BY <2>1 DEF skillVars, SkillInv, SkillTypes, CopyIsOfItsRevision, GoalsAreOneSkillAway,
                  CommandsAreNamed, At
  <2> QED BY <2>1, SkillStepKeeps DEF Next, vars
<1>3. SkillInv /\ [Next]_vars =>
         [\A r \in SkillCall :
            binding'[r].state # binding[r].state =>
                /\ prof'.tools = prof.tools
                /\ prof'.skills = IF binding'[r].state = "active"
                                  THEN prof.skills \cup {binding'[r].k}
                                  ELSE prof.skills \ {binding[r].k}]_vars
  <2>1. ASSUME SkillInv, Next, NEW r \in SkillCall, binding'[r].state # binding[r].state
        PROVE  /\ prof'.tools = prof.tools
               /\ prof'.skills = IF binding'[r].state = "active"
                                 THEN prof.skills \cup {binding'[r].k}
                                 ELSE prof.skills \ {binding[r].k}
    <3>1. SkillStep BY <2>1 DEF Next, skillVars
    <3> QED BY <2>1, <3>1, BindingsChangeTheirSkill
  <2> QED BY <2>1
<1> QED BY <1>1, <1>2, <1>3, PTL DEF Spec, SkillCommandsKeepTheRest

-----------------------------------------------------------------------------
(***************************************************************************)
(* Routing.  The resolution walks the mentions and stops at the first that *)
(* cannot be resolved; the reference asks the same of the set of mentions. *)
(* The two agree because the tokens are the mentions, each once, and       *)
(* because a resolved mention stands for exactly one coworker.             *)
(***************************************************************************)

\* Every set of indexes has a first one.
LEMMA FirstIndex ==
    ASSUME NEW n \in Nat, NEW I \in SUBSET (1..n), I # {}
    PROVE  \E i \in I : \A j \in I : i <= j
<1> DEFINE T == {1..i : i \in I}
<1>1. IsFiniteSet(1..n)
    BY FS_Interval
<1>2. IsWellFoundedOn(StrictSubsetOrdering(1..n), SUBSET (1..n))
    BY <1>1, FS_StrictSubsetOrderingWellFounded, FS_FiniteSubsetsOfFinite
<1>3. T \subseteq SUBSET (1..n) /\ T # {}
  <2>1. \A i \in I : 1..i \in SUBSET (1..n)
      OBVIOUS
  <2> QED BY <2>1
<1>4. PICK x \in T : \A y \in T : <<y, x>> \notin StrictSubsetOrdering(1..n)
  <2> HIDE DEF T
  <2> QED BY <1>2, <1>3, WFMin
<1>5. PICK i \in I : x = 1..i
    OBVIOUS
<1>6. ASSUME NEW j \in I, ~ (i <= j) PROVE FALSE
  <2>1. 1..j \in T /\ 1..j \in SUBSET (1..n) /\ 1..i \in SUBSET (1..n)
      BY <1>3
  <2>2. 1..j \subseteq 1..i /\ i \notin 1..j /\ i \in 1..i
      BY <1>6
  <2>3. <<1..j, 1..i>> \in StrictSubsetOrdering(1..n)
      BY <2>1, <2>2 DEF StrictSubsetOrdering
  <2> QED BY <1>4, <1>5, <2>1, <2>3
<1> QED BY <1>6

\* A body of at most MaxMentions mentions.
BodyOf(b, n) == n \in Nat /\ b \in [1..n -> Handle \cup {Team, Stranger}]

\* The tokens are the mentions, each of them once.
LEMMA TokensAreMentions ==
    ASSUME NEW b, NEW n, BodyOf(b, n)
    PROVE  LET tokens == extractMentionTokens(b) IN
           /\ DOMAIN tokens \subseteq 1..n /\ IsFiniteSet(DOMAIN tokens)
           /\ \A i \in DOMAIN tokens : tokens[i] = b[i]
           /\ Mentions(tokens) = {b[i] : i \in DOMAIN b}
           /\ tokens \in Bijection(DOMAIN tokens, Mentions(tokens))
<1> DEFINE tokens == extractMentionTokens(b)
           D == {j \in 1..n : \A k \in 1..(j - 1) : b[k] # b[j]}
<1>1. DOMAIN b = 1..n /\ n \in Nat
    BY DEF BodyOf
<1>2. tokens = [i \in D |-> b[i]] /\ D \subseteq 1..n
    BY <1>1 DEF extractMentionTokens
<1>3. DOMAIN tokens = D /\ \A i \in D : tokens[i] = b[i]
    BY <1>2
<1>4. IsFiniteSet(D)
    BY <1>1, <1>2, FS_Interval, FS_Subset
<1>5. ASSUME NEW i \in 1..n PROVE \E j \in D : b[j] = b[i]
  <2> DEFINE I == {j \in 1..n : b[j] = b[i]}
  <2>1. I \in SUBSET (1..n) /\ I # {}
      OBVIOUS
  <2>2. PICK j \in I : \A k \in I : j <= k
    <3> HIDE DEF I
    <3> QED BY <1>1, <2>1, FirstIndex
  <2>3. ASSUME NEW k \in 1..(j - 1) PROVE b[k] # b[j]
    <3>1. k \in 1..n /\ ~ (j <= k) BY <1>1
    <3> QED BY <2>2, <3>1
  <2> QED BY <2>3
<1>6. ASSUME NEW i \in D, NEW j \in D, b[i] = b[j] PROVE i = j
  <2>1. i \in Int /\ j \in Int /\ 1 <= i /\ 1 <= j
      BY <1>1
  <2>2. CASE i < j
    <3>1. i \in 1..(j - 1) BY <2>1, <2>2
    <3> QED BY <1>6, <3>1
  <2>3. CASE j < i
    <3>1. j \in 1..(i - 1) BY <2>1, <2>3
    <3> QED BY <1>6, <3>1
  <2> QED BY <2>1, <2>2, <2>3
<1>7. Mentions(tokens) = {b[i] : i \in DOMAIN b}
  <2> HIDE DEF D, tokens
  <2> QED BY <1>1, <1>2, <1>3, <1>5 DEF Mentions
<1>8. tokens \in Bijection(D, Mentions(tokens))
  <2> HIDE DEF D
  <2>1. tokens \in [D -> Mentions(tokens)]
      BY <1>2, <1>3 DEF Mentions
  <2>2. \A i, j \in D : tokens[i] = tokens[j] => i = j
      BY <1>3, <1>6
  <2>3. \A t \in Mentions(tokens) : \E i \in D : tokens[i] = t
      BY <1>3 DEF Mentions
  <2> HIDE DEF tokens
  <2> QED BY <1>3, <2>1, <2>2, <2>3 DEF Bijection, Injection, Surjection, IsInjective
<1> HIDE DEF D
<1> QED BY <1>2, <1>3, <1>4, <1>7, <1>8

\* How many coworkers a mention stands for.
LEMMA ResolvedToOne ==
    ASSUME NEW h
    PROVE  /\ IsFiniteSet(resolveHandle(h)) /\ Cardinality(resolveHandle(h)) \in Nat
           /\ Cardinality(resolveHandle(h)) = 1 <=> \E w : resolveHandle(h) = {w}
           /\ Cardinality(resolveHandle(h)) = 0 <=> resolveHandle(h) = {}
<1>1. IsFiniteSet(resolveHandle(h))
    BY RoutingAssumption, FS_Subset DEF resolveHandle
<1> QED BY <1>1, FS_CardinalityType, FS_Singleton, FS_EmptySet

\* A mention is accepted when it is one coworker's, who is free.
LEMMA VerdictIsReference ==
    ASSUME roster \in [RCoworker -> RosterRow], NEW h
    PROVE  Verdict(h) = "ok" <=> /\ Cardinality(resolveHandle(h)) = 1
                                 /\ \A w \in resolveHandle(h) : roster[w].is = "free"
<1>1. CASE Cardinality(resolveHandle(h)) = 1
  <2>1. PICK w : resolveHandle(h) = {w}
      BY <1>1, ResolvedToOne
  <2>2. (CHOOSE x \in resolveHandle(h) : TRUE) = w
      BY <2>1
  <2>3. Verdict(h) = authorizeTarget(w)
      BY <1>1, <2>1, <2>2 DEF Verdict
  <2>4. roster[w].is \in {"disabled", "outside", "busy", "free"}
      BY <2>1 DEF resolveHandle, RosterRow
  <2> QED BY <1>1, <2>1, <2>3, <2>4 DEF authorizeTarget
<1>2. CASE Cardinality(resolveHandle(h)) # 1
  <2>1. Cardinality(resolveHandle(h)) > 1 \/ resolveHandle(h) = {}
      BY <1>2, ResolvedToOne
  <2> QED BY <1>2, <2>1 DEF Verdict
<1> QED BY <1>1, <1>2

\* Mentions that each stand for one coworker stand for as many as there are mentions.
LEMMA OneEach ==
    ASSUME NEW N, \A h \in N : Cardinality(resolveHandle(h)) = 1
    PROVE  LET A == {w \in RCoworker : roster[w].handle \in N}
           IN  IsFiniteSet(A) /\ IsFiniteSet(N) /\ Cardinality(A) = Cardinality(N)
<1> DEFINE A == {w \in RCoworker : roster[w].handle \in N}
           f == [w \in A |-> roster[w].handle]
<1>1. IsFiniteSet(A)
    BY RoutingAssumption, FS_Subset
<1>2. \A h \in N : \E w : resolveHandle(h) = {w}
    BY ResolvedToOne
<1>3. f \in [A -> N]
    OBVIOUS
<1>4. ASSUME NEW u \in A, NEW w \in A, f[u] = f[w] PROVE u = w
  <2>1. u \in resolveHandle(roster[w].handle) /\ w \in resolveHandle(roster[w].handle)
      BY <1>4 DEF resolveHandle
  <2> QED BY <1>2, <2>1
<1>5. ASSUME NEW h \in N PROVE \E w \in A : f[w] = h
  <2>1. PICK w : resolveHandle(h) = {w} BY <1>2
  <2>2. w \in RCoworker /\ roster[w].handle = h BY <2>1 DEF resolveHandle
  <2> QED BY <2>2
<1> HIDE DEF A, f
<1>6. f \in Bijection(A, N)
    BY <1>3, <1>4, <1>5 DEF Bijection, Injection, Surjection, IsInjective
<1> QED BY <1>1, <1>6, FS_Bijection DEF ExistsBijection, A

\* The resolution decides as the reference does, whatever the roster and the body.
LEMMA RoutingIsReference ==
    ASSUME roster \in [RCoworker -> RosterRow], NEW b, NEW n, BodyOf(b, n)
    PROVE  /\ (resolveMessageRecipients(b).why = "ok") <=> Deliverable(b)
           /\ resolveMessageRecipients(b).why = "ok" => resolveMessageRecipients(b).to = Addressed(b)
<1> DEFINE tokens == extractMentionTokens(b)
           named == {b[i] : i \in DOMAIN b}
           A == {w \in RCoworker : roster[w].handle \in named}
           sent == resolveMessageRecipients(b)
           One(h) == Cardinality({w \in RCoworker : roster[w].handle = h}) = 1
<1>1. /\ IsFiniteSet(DOMAIN tokens) /\ Mentions(tokens) = named
      /\ DOMAIN tokens \subseteq 1..n /\ n \in Nat
      /\ tokens \in Bijection(DOMAIN tokens, named)
    BY TokensAreMentions DEF BodyOf
<1>2. /\ Addressed(b) = IF named = {} THEN enabledMembers
                        ELSE IF named = {Team} THEN {w \in enabledMembers : roster[w].is = "free"}
                        ELSE A
      /\ Deliverable(b) <=> /\ Addressed(b) # {} /\ Cardinality(Addressed(b)) <= MaxRecipients
                            /\ \A w \in Addressed(b) : roster[w].is = "free"
                            /\ \A h \in named : One(h) \/ named = {Team}
                            /\ named = {} => Cardinality(enabledMembers) = 1
                            /\ assertHandlesUnambiguous(enabledMembers)
    BY DEF Addressed, Deliverable
<1>3. sent = IF Team \in named /\ named # {Team} THEN Refused("conflicting_routing")
             ELSE IF ~assertHandlesUnambiguous(enabledMembers) THEN Refused("ambiguous_handle")
             ELSE IF Team \in named THEN RouteTeam
             ELSE IF DOMAIN tokens # {} THEN RouteExplicit(tokens) ELSE RouteUnaddressed
  <2> HIDE DEF named
  <2> QED BY <1>1 DEF resolveMessageRecipients
<1>4. DOMAIN tokens = {} <=> named = {}
  <2> HIDE DEF tokens, named
  <2> QED BY <1>1 DEF Bijection, Injection, Surjection
<1>5. Cardinality(DOMAIN tokens) = Cardinality(named) /\ IsFiniteSet(named)
  <2> HIDE DEF tokens, named
  <2> QED BY <1>1, FS_Bijection DEF ExistsBijection
<1>6. \A w \in RCoworker : roster[w].handle \in Handle /\ roster[w].handle # Team
    BY RoutingAssumption DEF RosterRow
<1>7. \A h : resolveHandle(h) = {w \in RCoworker : roster[w].handle = h}
    BY DEF resolveHandle
<1>8. IsFiniteSet(enabledMembers) /\ Cardinality(enabledMembers) \in Nat
    BY RoutingAssumption, FS_Subset, FS_CardinalityType DEF enabledMembers
<1>9. MaxRecipients \in Nat /\ MaxRecipients >= 1
    BY RoutingAssumption
<1> HIDE DEF tokens, named, sent, A
<1>10. CASE Team \in named /\ named # {Team}
  <2>1. {w \in RCoworker : roster[w].handle = Team} = {}
      BY <1>6
  <2>2. ~ One(Team)
      BY <2>1, FS_EmptySet
  <2>3. ~ Deliverable(b)
    <3> HIDE DEF One
    <3> QED BY <1>2, <1>10, <2>2
  <2> QED BY <1>3, <1>10, <2>3 DEF Refused, sent
<1>11. CASE ~ (Team \in named /\ named # {Team}) /\ ~ assertHandlesUnambiguous(enabledMembers)
    BY <1>2, <1>3, <1>11 DEF Refused, sent
<1>12. CASE named = {Team} /\ assertHandlesUnambiguous(enabledMembers)
  <2> DEFINE available == {w \in enabledMembers : roster[w].is = "free"}
  <2>1. Addressed(b) = available
      BY <1>2, <1>12
  <2>2. Cardinality(available) \in Nat
      BY <1>8, FS_Subset, FS_CardinalityType
  <2>3. Deliverable(b) <=> available # {} /\ Cardinality(available) <= MaxRecipients
    <3> HIDE DEF One
    <3>1. \A w \in available : roster[w].is = "free" OBVIOUS
    <3> HIDE DEF available
    <3> QED BY <1>2, <1>12, <2>1, <3>1
  <2>4. sent = RouteTeam
      BY <1>3, <1>12
  <2>5. enabledMembers = {} => available = {}
      OBVIOUS
  <2>6. RouteTeam = IF enabledMembers = {} THEN Refused("team_empty")
                    ELSE IF available = {} THEN Refused("recipient_unavailable")
                    ELSE IF Cardinality(available) > MaxRecipients THEN Refused("team_too_large")
                    ELSE Sent(available)
      BY DEF RouteTeam
  <2> HIDE DEF available
  <2> QED BY <1>9, <2>1, <2>2, <2>3, <2>4, <2>5, <2>6 DEF Refused, Sent, sent
<1>13. CASE named # {} /\ Team \notin named /\ assertHandlesUnambiguous(enabledMembers)
  <2> DEFINE bad == {i \in DOMAIN tokens : Verdict(tokens[i]) # "ok"}
  <2>1. Addressed(b) = A /\ named # {Team}
      BY <1>2, <1>13
  <2>2. sent = RouteExplicit(tokens)
      BY <1>3, <1>4, <1>13
  <2>3. UNION {resolveHandle(h) : h \in named} = A
      BY <1>7 DEF A
  <2>4. RouteExplicit(tokens) =
          IF Cardinality(DOMAIN tokens) > MaxRecipients THEN Refused("fanout_too_large")
          ELSE IF bad # {} THEN Refused(Verdict(tokens[CHOOSE i \in bad : \A j \in bad : i <= j]))
          ELSE Sent(A)
    <3>1. UNION {resolveHandle(h) : h \in Mentions(tokens)} = A
        BY <1>1, <2>3
    <3> DEFINE first == CHOOSE i \in bad : \A j \in bad : i <= j
               sentTo == UNION {resolveHandle(h) : h \in Mentions(tokens)}
    <3>2. RouteExplicit(tokens) =
            IF Cardinality(DOMAIN tokens) > MaxRecipients THEN Refused("fanout_too_large")
            ELSE IF bad # {} THEN Refused(Verdict(tokens[first])) ELSE Sent(sentTo)
        BY Zenon DEF RouteExplicit
    <3> QED BY <3>1, <3>2
  <2>5. Cardinality(named) \in Nat
      BY <1>5, FS_CardinalityType
  <2>6. (\A h \in named : One(h)) => Cardinality(A) = Cardinality(named)
      BY <1>7, OneEach DEF A
  <2>7. bad = {} <=> \A h \in named : Verdict(h) = "ok"
      BY <1>1 DEF Bijection, Injection, Surjection
  <2>8. (\A h \in named : Verdict(h) = "ok")
           <=> (\A h \in named : One(h)) /\ \A w \in A : roster[w].is = "free"
    <3>1. \A h \in named : Verdict(h) = "ok" <=> One(h) /\ \A w \in resolveHandle(h) : roster[w].is = "free"
        BY <1>7, VerdictIsReference
    <3>2. (\A h \in named : \A w \in resolveHandle(h) : roster[w].is = "free")
             <=> (\A w \in A : roster[w].is = "free")
        BY <1>7 DEF A
    <3> HIDE DEF One
    <3> QED BY <3>1, <3>2
  <2>9. (\A h \in named : One(h)) => A # {}
    <3>1. PICK h \in named : TRUE BY <1>13
    <3>2. ASSUME One(h) PROVE {w \in RCoworker : roster[w].handle = h} # {}
        BY <3>2, FS_EmptySet
    <3> QED BY <3>1, <3>2 DEF A
  <2> HIDE DEF One
  <2>10. Deliverable(b) <=> bad = {} /\ Cardinality(named) <= MaxRecipients
      BY <1>2, <1>13, <2>1, <2>6, <2>7, <2>8, <2>9
  <2>11. ASSUME bad # {} PROVE Verdict(tokens[CHOOSE i \in bad : \A j \in bad : i <= j]) # "ok"
    <3>1. bad \in SUBSET (1..n)
        BY <1>1
    <3>2. \E i \in bad : \A j \in bad : i <= j
      <4> HIDE DEF bad
      <4> QED BY <1>1, <2>11, <3>1, FirstIndex
    <3> DEFINE first == CHOOSE i \in bad : \A j \in bad : i <= j
    <3>3. first \in bad
      <4> HIDE DEF bad
      <4> QED BY <3>2
    <3> HIDE DEF first
    <3> QED BY <3>3 DEF first
  <2> HIDE DEF bad
  <2> QED BY <1>5, <1>9, <2>1, <2>2, <2>4, <2>5, <2>10, <2>11 DEF Refused, Sent, sent
<1>14. CASE named = {} /\ assertHandlesUnambiguous(enabledMembers)
  <2>1. sent = RouteUnaddressed /\ Addressed(b) = enabledMembers
      BY <1>2, <1>3, <1>4, <1>14
  <2>2. \A w \in enabledMembers : roster[w].is = "busy" <=> roster[w].is # "free"
      BY DEF enabledMembers
  <2>3. Cardinality(enabledMembers) = 1 => enabledMembers # {}
      BY FS_EmptySet
  <2>4. Deliverable(b) <=> /\ Cardinality(enabledMembers) = 1
                           /\ \A w \in enabledMembers : roster[w].is = "free"
    <3> HIDE DEF One
    <3> QED BY <1>2, <1>9, <1>14, <2>1, <2>3
  <2>5. (\E w \in enabledMembers : roster[w].is = "busy")
           <=> ~ \A w \in enabledMembers : roster[w].is = "free"
      BY <2>2
  <2> QED BY <2>1, <2>4, <2>5 DEF RouteUnaddressed, Refused, Sent, sent
<1>15. named = {Team} \/ (named # {} /\ Team \notin named) \/ named = {}
         \/ (Team \in named /\ named # {Team})
    OBVIOUS
<1> QED BY <1>10, <1>11, <1>12, <1>13, <1>14, <1>15 DEF sent

\* A routing is of a body and a roster, and is undecided or decided as the reference does.
RouteInv ==
    part = "routing" =>
        /\ roster \in [RCoworker -> RosterRow] /\ \E n \in Nat : BodyOf(body, n)
        /\ routed.why # "pending" =>
              /\ (routed.why = "ok") <=> Deliverable(body)
              /\ routed.why = "ok" => routed.to = Addressed(body)

\* The reference reads the roster alone.
LEMMA ReferenceKeeps ==
    ASSUME UNCHANGED routeVars
    PROVE  (Deliverable(body))' = Deliverable(body) /\ (Addressed(body))' = Addressed(body)
<1>1. enabledMembers' = enabledMembers
    BY DEF routeVars, enabledMembers
<1>2. (Addressed(body))' = Addressed(body)
    BY <1>1 DEF routeVars, Addressed
<1>3. (assertHandlesUnambiguous(enabledMembers))' = assertHandlesUnambiguous(enabledMembers)
    BY <1>1 DEF routeVars, assertHandlesUnambiguous
<1> QED BY <1>1, <1>2, <1>3 DEF routeVars, Deliverable

(* A message goes to exactly the people its mentions address, and is refused exactly when it  *)
(* cannot be delivered to all of them, for every roster and every body: the order in which    *)
(* the resolution meets the mentions decides only the reason (resolveMessageRecipients).      *)
THEOREM MessagesGoWhereAddressed == Spec => []RoutesAsAddressed
<1>1. Init => RouteInv
  <2> SUFFICES ASSUME Init, part = "routing"
               PROVE  /\ roster \in [RCoworker -> RosterRow] /\ \E n \in Nat : BodyOf(body, n)
                      /\ routed.why = "pending"
      BY DEF RouteInv
  <2>1. PICK b \in Bodies, people \in [RCoworker -> RosterRow] : RouteStart(b, people)
      BY DEF Init, RouteInit
  <2>2. PICK n \in 0..MaxMentions : b \in [1..n -> Handle \cup {Team, Stranger}]
      BY <2>1 DEF Bodies
  <2>3. n \in Nat /\ BodyOf(b, n)
      BY <2>2, RoutingAssumption DEF BodyOf
  <2> QED BY <2>1, <2>3 DEF RouteStart
<1>2. RouteInv /\ [Next]_vars => RouteInv'
  <2>1. ASSUME RouteInv, UNCHANGED <<routeVars, part>> PROVE RouteInv'
    <3>1. (Deliverable(body))' = Deliverable(body) /\ (Addressed(body))' = Addressed(body)
        BY <2>1, ReferenceKeeps
    <3>2. body' = body /\ roster' = roster /\ routed' = routed /\ part' = part
        BY <2>1 DEF routeVars
    <3> QED BY <2>1, <3>1, <3>2 DEF RouteInv
  <2>2. ASSUME RouteInv, part = "routing", part' = part, RouteStep PROVE RouteInv'
    <3>1. roster \in [RCoworker -> RosterRow] /\ \E n \in Nat : BodyOf(body, n)
        BY <2>2 DEF RouteInv
    <3>2. PICK n \in Nat : BodyOf(body, n)
        BY <3>1
    <3>3. /\ (resolveMessageRecipients(body).why = "ok") <=> Deliverable(body)
          /\ resolveMessageRecipients(body).why = "ok"
                => resolveMessageRecipients(body).to = Addressed(body)
        BY <3>1, <3>2, RoutingIsReference
    <3>4. body' = body /\ roster' = roster /\ routed' = resolveMessageRecipients(body)
        BY <2>2 DEF RouteStep
    <3>5. enabledMembers' = enabledMembers
        BY <3>4 DEF enabledMembers
    <3>6. (Addressed(body))' = Addressed(body)
        BY <3>4, <3>5 DEF Addressed
    <3>7. (assertHandlesUnambiguous(enabledMembers))' = assertHandlesUnambiguous(enabledMembers)
        BY <3>4, <3>5 DEF assertHandlesUnambiguous
    <3>8. (Deliverable(body))' = Deliverable(body)
        BY <3>4, <3>5, <3>6, <3>7 DEF Deliverable
    <3> QED BY <2>2, <3>1, <3>3, <3>4, <3>6, <3>8 DEF RouteInv
  <2> QED BY <2>1, <2>2 DEF Next, vars
<1>3. RouteInv => RoutesAsAddressed
    BY DEF RouteInv, RoutesAsAddressed
<1> QED BY <1>1, <1>2, <1>3, PTL DEF Spec
====
