---------------------------- MODULE DirectTools ----------------------------
(***************************************************************************)
(* A coworker's direct calls of a provider tool: the reviewed read, and    *)
(* the one deterministic write, which runs only under an approved proposal *)
(* that still describes it, and is always settled by a read afterwards.    *)
(*                                                                         *)
(* A proposal binds six fields (tool, arguments, target, descriptor,       *)
(* account, generation); the properties tell apart only whether they still *)
(* hold.  The dispatcher has no caller in production yet: the model's      *)
(* caller runs one write of a proposal at a time, stores the state of one  *)
(* that reached the provider, and may dispatch the proposal again.         *)
(***************************************************************************)
EXTENDS Naturals, FiniteSets

CONSTANTS ToolCall

ASSUME ToolCallsAreFinite == IsFiniteSet(ToolCall)

VARIABLES health,       \* the pinned account: "active" or "expired"
          proposal,     \* its state, the person's decision, and whether its bindings still hold
          effects,      \* how often the provider performed the write
          before,       \* whether the label was there before any write
          tcall

toolVars == <<health, proposal, effects, before, tcall>>

ProposalState == {"proposed", "allowed", "denied", "expired", "unknown",
                  "reconciled_succeeded", "reconciled_failed"}

ProposalRow == [state : ProposalState, decision : {"none", "allow", "deny"}, fresh : BOOLEAN]

\* outcome: what the provider reported, if anything.
ToolCallRow == [pc : {"new", "preflight", "gate", "invoke", "settle", "reconcile", "done"},
                kind : {"none", "read", "write"},
                outcome : {"none", "succeeded", "failed", "unknown", "auth", "threw"},
                ans : {"none", "blocked_connection", "preflight_blocked", "not_approved", "denied",
                       "stale_proposal", "tool_failed", "succeeded", "reconciled_succeeded",
                       "reconciled_failed"}]

NewToolCall == [pc |-> "new", kind |-> "none", outcome |-> "none", ans |-> "none"]

ToolAnswer(r, ans) == tcall' = [tcall EXCEPT ![r].pc = "done", ![r].ans = ans]

ToolGo(r, pc) == tcall' = [tcall EXCEPT ![r].pc = pc]

\* One approval is one resume intent, so one write at a time.
Writing == \E r \in ToolCall : tcall[r].kind = "write" /\ tcall[r].pc \notin {"new", "done"}

DispatchRead(r) ==
    /\ tcall[r].pc = "new"
    /\ tcall' = [tcall EXCEPT ![r].pc = "preflight", ![r].kind = "read"]
    /\ UNCHANGED <<health, proposal, effects, before>>

DispatchWrite(r) ==
    /\ tcall[r].pc = "new" /\ ~Writing
    /\ tcall' = [tcall EXCEPT ![r].pc = "preflight", ![r].kind = "write"]
    /\ UNCHANGED <<health, proposal, effects, before>>

\* Account, connector, policy and descriptor; anything but the account's health is a plain block.
Preflight(r, next) ==
    /\ tcall[r].pc = "preflight"
    /\ \/ health = "expired" /\ ToolAnswer(r, "blocked_connection")
       \/ health = "active" /\ (ToolAnswer(r, "preflight_blocked") \/ ToolGo(r, next))
    /\ UNCHANGED <<health, proposal, effects, before>>

preflightExactReadDispatch(r) == tcall[r].kind = "read" /\ Preflight(r, "invoke")

preflightExactWriteDispatch(r) == tcall[r].kind = "write" /\ Preflight(r, "gate")

\* Mutant: the decision is enough, whatever has become of the proposal since.
GateByDecision == IF proposal.decision = "allow" THEN "approved" ELSE "not_approved"

\* evaluateWriteProposalFreshness, then gateApprovalGatedWrite.
gateApprovalGatedWrite ==
    IF proposal.state = "expired" THEN "preflight_blocked"
    ELSE IF ~proposal.fresh THEN "stale_proposal"
    ELSE IF proposal.decision = "deny" THEN "denied"
    ELSE IF proposal.decision = "allow" /\ proposal.state = "allowed" THEN "approved"
    ELSE IF proposal.decision = "none" THEN "not_approved"
    ELSE "preflight_blocked"

\* A refusal says how it found the proposal and leaves it.
Gate(r) ==
    /\ tcall[r].pc = "gate"
    /\ IF gateApprovalGatedWrite = "approved" THEN ToolGo(r, "invoke")
       ELSE ToolAnswer(r, gateApprovalGatedWrite)
    /\ UNCHANGED <<health, proposal, effects, before>>

\* The provider's turn calls the tool, or does not, and its result is reported, ambiguous,
\* refused for the account's sake, or lost in an error of the call.
invokeViaTrueForge(r) ==
    LET q == tcall[r] IN
    /\ q.pc = "invoke"
    /\ \E done \in BOOLEAN, outcome \in {"succeeded", "failed", "unknown", "auth", "threw"} :
          /\ outcome = "succeeded" => done
          /\ outcome \in {"failed", "auth"} => ~done
          /\ outcome = "auth" => health = "expired"
          /\ effects' = IF done /\ q.kind = "write" THEN effects + 1 ELSE effects
          /\ tcall' = [tcall EXCEPT ![r].pc = "settle", ![r].outcome = outcome]
    /\ UNCHANGED <<health, proposal, before>>

SettleRead(r) ==
    LET q == tcall[r] IN
    /\ q.pc = "settle" /\ q.kind = "read"
    /\ ToolAnswer(r, CASE q.outcome = "auth" -> "blocked_connection"
                       [] q.outcome \in {"threw", "failed"} -> "tool_failed"
                       [] OTHER -> "succeeded")
    /\ UNCHANGED <<health, proposal, effects, before>>

\* A thrown error leaves the proposal allowed; a refused account leaves it unknown; every
\* other outcome is settled by the reconciliation read.
SettleWrite(r) ==
    LET q == tcall[r] IN
    /\ q.pc = "settle" /\ q.kind = "write"
    /\ IF q.outcome = "threw" THEN ToolAnswer(r, "tool_failed") /\ UNCHANGED proposal
       ELSE IF q.outcome = "auth"
       THEN ToolAnswer(r, "blocked_connection") /\ proposal' = [proposal EXCEPT !.state = "unknown"]
       ELSE ToolGo(r, "reconcile") /\ UNCHANGED proposal
    /\ UNCHANGED <<health, effects, before>>

\* evaluateReconciliation: whether the target carries the label now.
Matched(r) == before \/ effects > 0

reconcileDeterministicWrite(r) ==
    /\ tcall[r].pc = "reconcile"
    /\ LET final == IF Matched(r) THEN "reconciled_succeeded" ELSE "reconciled_failed"
       IN proposal' = [proposal EXCEPT !.state = final] /\ ToolAnswer(r, final)
    /\ UNCHANGED <<health, effects, before>>

-----------------------------------------------------------------------------
(* The person, the account and everything the proposal is bound to. *)

Decide(d) ==
    /\ proposal.state = "proposed"
    /\ proposal' = [proposal EXCEPT !.decision = d, !.state = IF d = "allow" THEN "allowed" ELSE "denied"]
    /\ UNCHANGED <<health, effects, before, tcall>>

ProposalExpires ==
    /\ proposal.state = "proposed"
    /\ proposal' = [proposal EXCEPT !.state = "expired"]
    /\ UNCHANGED <<health, effects, before, tcall>>

BindingChanges ==
    /\ proposal.fresh
    /\ proposal' = [proposal EXCEPT !.fresh = FALSE]
    /\ UNCHANGED <<health, effects, before, tcall>>

HealthChanges ==
    /\ health' = IF health = "active" THEN "expired" ELSE "active"
    /\ UNCHANGED <<proposal, effects, before, tcall>>

ToolStart(present) ==
    /\ health = "active" /\ effects = 0 /\ before = present
    /\ proposal = [state |-> "proposed", decision |-> "none", fresh |-> TRUE]
    /\ tcall = [r \in ToolCall |-> NewToolCall]

ToolInit == \E present \in BOOLEAN : ToolStart(present)

ToolStep ==
    \/ \E r \in ToolCall :
          \/ DispatchRead(r) \/ DispatchWrite(r) \/ preflightExactReadDispatch(r)
          \/ preflightExactWriteDispatch(r) \/ Gate(r)
          \/ invokeViaTrueForge(r) \/ SettleRead(r) \/ SettleWrite(r) \/ reconcileDeterministicWrite(r)
    \/ \E d \in {"allow", "deny"} : Decide(d)
    \/ ProposalExpires \/ BindingChanges \/ HealthChanges
=============================================================================
