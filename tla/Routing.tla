------------------------------ MODULE Routing -------------------------------
(***************************************************************************)
(* Who a message is for: the mentions in its body, in order, resolved      *)
(* against the channel's coworkers.  Handles are compared without case, so *)
(* a handle here is its lower-case form and two coworkers may share one.   *)
(***************************************************************************)
EXTENDS Naturals, FiniteSets, Sequences

CONSTANTS RCoworker, Handle,
          Team,           \* the mention that stands for everyone
          Stranger,       \* a mention that is nobody's handle
          MaxRecipients, MaxMentions

ASSUME RoutingAssumption ==
    /\ IsFiniteSet(RCoworker) /\ Team \notin Handle /\ Stranger \notin Handle /\ Stranger # Team
    /\ MaxRecipients \in Nat \ {0} /\ MaxMentions \in Nat

VARIABLES body,        \* the mentions, as written
          roster,      \* each coworker's handle and standing in the channel
          routed       \* the decision

routeVars == <<body, roster, routed>>

\* Disabled; not a member; a member who takes no new work; a member who does.
RosterRow == [handle : Handle, is : {"disabled", "outside", "busy", "free"}]

Refused(why) == [to |-> {}, why |-> why]

Sent(to) == [to |-> to, why |-> "ok"]

\* extractMentionTokens: unique, in order.
extractMentionTokens(b) ==
    [i \in {j \in DOMAIN b : \A k \in 1..(j - 1) : b[k] # b[j]} |-> b[i]]

Mentions(tokens) == {tokens[i] : i \in DOMAIN tokens}

enabledMembers == {w \in RCoworker : roster[w].is \in {"busy", "free"}}

assertHandlesUnambiguous(W) == \A u, w \in W : roster[u].handle = roster[w].handle => u = w

resolveHandle(h) == {w \in RCoworker : roster[w].handle = h}

\* Mutant: availability is left to the session.
authorizeMember(w) ==
    IF roster[w].is = "disabled" THEN "disabled_coworker"
    ELSE IF roster[w].is = "outside" THEN "non_member" ELSE "ok"

authorizeTarget(w) ==
    IF roster[w].is = "disabled" THEN "disabled_coworker"
    ELSE IF roster[w].is = "outside" THEN "non_member"
    ELSE IF roster[w].is = "busy" THEN "recipient_unavailable" ELSE "ok"

\* What one mention comes to.
Verdict(h) ==
    IF Cardinality(resolveHandle(h)) > 1 THEN "ambiguous_handle"
    ELSE IF resolveHandle(h) = {} THEN "unknown_handle"
    ELSE authorizeTarget(CHOOSE w \in resolveHandle(h) : TRUE)

RouteTeam ==
    LET available == {w \in enabledMembers : roster[w].is = "free"} IN
    IF enabledMembers = {} THEN Refused("team_empty")
    ELSE IF available = {} THEN Refused("recipient_unavailable")
    ELSE IF Cardinality(available) > MaxRecipients THEN Refused("team_too_large")
    ELSE Sent(available)

\* The first mention that cannot be resolved decides the refusal.
RouteExplicit(tokens) ==
    LET bad == {i \in DOMAIN tokens : Verdict(tokens[i]) # "ok"} IN
    IF Cardinality(DOMAIN tokens) > MaxRecipients THEN Refused("fanout_too_large")
    ELSE IF bad # {} THEN Refused(Verdict(tokens[CHOOSE i \in bad : \A j \in bad : i <= j]))
    ELSE Sent(UNION {resolveHandle(h) : h \in Mentions(tokens)})

RouteUnaddressed ==
    IF Cardinality(enabledMembers) # 1 THEN Refused("recipient_required")
    ELSE IF \E w \in enabledMembers : roster[w].is = "busy" THEN Refused("recipient_unavailable")
    ELSE Sent(enabledMembers)

resolveMessageRecipients(b) ==
    LET tokens == extractMentionTokens(b) IN
    IF Team \in Mentions(tokens) /\ Mentions(tokens) # {Team} THEN Refused("conflicting_routing")
    ELSE IF ~assertHandlesUnambiguous(enabledMembers) THEN Refused("ambiguous_handle")
    ELSE IF Team \in Mentions(tokens) THEN RouteTeam
    ELSE IF DOMAIN tokens # {} THEN RouteExplicit(tokens) ELSE RouteUnaddressed

-----------------------------------------------------------------------------
(* The reference: who a message is for, without the order of the checks. *)

Addressed(b) ==
    LET named == {b[i] : i \in DOMAIN b} IN
    IF named = {} THEN enabledMembers
    ELSE IF named = {Team} THEN {w \in enabledMembers : roster[w].is = "free"}
    ELSE {w \in RCoworker : roster[w].handle \in named}

\* Every mention is one coworker's, everyone addressed is free, and there are not too many.
Deliverable(b) ==
    LET named == {b[i] : i \in DOMAIN b} IN
    /\ Addressed(b) # {} /\ Cardinality(Addressed(b)) <= MaxRecipients
    /\ \A w \in Addressed(b) : roster[w].is = "free"
    /\ \A h \in named : Cardinality({w \in RCoworker : roster[w].handle = h}) = 1 \/ named = {Team}
    /\ named = {} => Cardinality(enabledMembers) = 1
    /\ assertHandlesUnambiguous(enabledMembers)

-----------------------------------------------------------------------------
Bodies == UNION {[1..n -> Handle \cup {Team, Stranger}] : n \in 0..MaxMentions}

RouteStart(b, people) ==
    /\ body = b /\ roster = people
    /\ routed = [to |-> {}, why |-> "pending"]

RouteInit == \E b \in Bodies, people \in [RCoworker -> RosterRow] : RouteStart(b, people)

RouteStep ==
    /\ routed.why = "pending"
    /\ routed' = resolveMessageRecipients(body)
    /\ UNCHANGED <<body, roster>>
=============================================================================
