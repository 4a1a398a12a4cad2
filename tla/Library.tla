------------------------------ MODULE Library -------------------------------
(***************************************************************************)
(* The parts of the workspace beside the conversation itself: skills,      *)
(* connections, direct tools, artifacts, the watchdog and the routing of   *)
(* messages.  They share no state, so a behaviour exercises one of them    *)
(* and the others rest.                                                    *)
(***************************************************************************)
EXTENDS Skills, Connections, DirectTools, Artifacts, Watchdog, Routing

CONSTANT Parts

VARIABLE part

vars == <<skillVars, connVars, toolVars, artifactVars, watchVars, routeVars, part>>

Init ==
    /\ part \in Parts
    /\ IF part = "skills" THEN SkillInit ELSE SkillStart([r \in SkillCall |-> "none"])
    /\ ConnInit
    /\ IF part = "tools" THEN ToolInit ELSE ToolStart(FALSE)
    /\ IF part = "artifacts" THEN ArtifactInit
       ELSE ArtifactStart([id \in ArtifactId |-> CHOOSE c \in Content : TRUE])
    /\ WatchInit
    /\ IF part = "routing" THEN RouteInit
       ELSE RouteStart(<<>>, [w \in RCoworker |-> [handle |-> CHOOSE h \in Handle : TRUE, is |-> "free"]])

Next ==
    /\ UNCHANGED part
    /\ \/ part = "skills" /\ SkillStep
          /\ UNCHANGED <<connVars, toolVars, artifactVars, watchVars, routeVars>>
       \/ part = "connections" /\ ConnStep
          /\ UNCHANGED <<skillVars, toolVars, artifactVars, watchVars, routeVars>>
       \/ part = "tools" /\ ToolStep
          /\ UNCHANGED <<skillVars, connVars, artifactVars, watchVars, routeVars>>
       \/ part = "artifacts" /\ ArtifactStep
          /\ UNCHANGED <<skillVars, connVars, toolVars, watchVars, routeVars>>
       \/ part = "watchdog" /\ WatchStep
          /\ UNCHANGED <<skillVars, connVars, toolVars, artifactVars, routeVars>>
       \/ part = "routing" /\ RouteStep
          /\ UNCHANGED <<skillVars, connVars, toolVars, artifactVars, watchVars>>

Spec == Init /\ [][Next]_vars

-----------------------------------------------------------------------------
(* Every row has its type. *)
TypeOK ==
    /\ part \in Parts
    /\ skill \in [Skill -> {"none", "draft", "published"}] /\ markdown \subseteq Skill
    /\ prof \in ProfileRow /\ binding \in [SkillCall -> SkillBindingRow]
    /\ seat \in [Seat -> SeatRow] /\ scall \in [SkillCall -> SkillCallRow]
    /\ account \in ConnStatus /\ conn \in ConnRow
    /\ link \in [ConnCall -> LinkRow] /\ ccall \in [ConnCall -> ConnCallRow]
    /\ health \in {"active", "expired"} /\ proposal \in ProposalRow /\ effects \in Nat
    /\ before \in BOOLEAN /\ tcall \in [ToolCall -> ToolCallRow]
    /\ file \in [ArtifactId -> Content] /\ blob \in [Content -> {"none", "torn", "full"}]
    /\ row \in [ArtifactId -> Content \cup {None}] /\ acall \in [ArtifactCall -> ArtifactCallRow]
    /\ watch \in [Turn -> WatchRow] /\ timers \subseteq TimerRow /\ watches \in 0..MaxWatches
    /\ roster \in [RCoworker -> RosterRow] /\ routed.to \subseteq RCoworker

(* An attachment or a detachment changes exactly its own skill in the coworker's              *)
(* configuration: what an edit or another skill command wrote meanwhile is never overwritten  *)
(* by the copy the command read before (attachSkillBindingRecord, detachSkillBindingRecord).  *)
SkillCommandsKeepTheRest ==
    [][\A r \in SkillCall :
          binding'[r].state # binding[r].state =>
              /\ prof'.tools = prof.tools
              /\ prof'.skills = IF binding'[r].state = "active"
                                THEN prof.skills \cup {binding'[r].k}
                                ELSE prof.skills \ {binding[r].k}]_vars

(* One key, one link: two answers to one person under one key carry the same link of that     *)
(* key, until it expires, although both requests may have asked the provider for one          *)
(* (saveConnectionReconnectIntent).                                                           *)
OneLinkPerKey ==
    \A r, q \in ConnCall :
          /\ ccall[r].kind = "reconnect" /\ ccall[q].kind = "reconnect"
          /\ ccall[r].ans = "ok" /\ ccall[q].ans = "ok"
          /\ ccall[r].who = ccall[q].who /\ ccall[r].key = ccall[q].key
          /\ link[ccall[r].of].key = ccall[r].key /\ link[ccall[q].of].key = ccall[q].key
          => \/ ccall[r].of = ccall[q].of
             \/ link[ccall[r].of].expired \/ link[ccall[q].of].expired

(* An approval is worth one write: the provider performs a proposal's write at most once,     *)
(* and once more only for each dispatch that ended in a thrown error, which leaves the        *)
(* proposal allowed; without approval it performs none; and it is reported as done only if    *)
(* the target carries its label, whatever the provider said (gateApprovalGatedWrite,          *)
(* reconcileDeterministicWrite).                                                              *)
OneWritePerApproval ==
    /\ effects <= 1 + Cardinality({r \in ToolCall : tcall[r].kind = "write" /\ tcall[r].outcome = "threw"})
    /\ effects > 0 => proposal.decision = "allow"
    /\ \A r \in ToolCall : tcall[r].ans = "reconciled_succeeded" => before \/ effects > 0

(* A row's content is in the store, whoever published the same content at the same time; only *)
(* a worker whose row was refused because its artifact id already names other content may     *)
(* have removed it.  What a publication announces is such a row, with the content its command *)
(* named (publishArtifactRecord, the worker's cleanup and the binding to a hash).             *)
PublishedContentIsThere ==
    /\ \A id \in ArtifactId : row[id] # None =>
          \/ blob[row[id]] = "full"
          \/ \E r \in FromWorker : /\ acall[r].c = row[id] /\ acall[r].ans = "conflict"
                                   /\ row[acall[r].id] \notin {None, row[id]}
    /\ \A r \in ArtifactCall : acall[r].ans \in {"published", "existing"} =>
          Recorded(acall[r].c) /\ acall[r].want \in {None, acall[r].c}

(* A timer can only end the watch that armed it, although it finds its watch by the turn's id *)
(* and a turn may be watched again; and a watch asks for one cancellation at most             *)
(* (finishRun, exceed).                                                                       *)
TimersDieWithTheirWatch ==
    /\ \A x \in timers : watch[x.t].n = x.by
    /\ \A c, d \in cancels : c.t = d.t /\ c.n = d.n => c = d

(* A message goes to exactly the people it addresses, and is refused exactly when it cannot   *)
(* (resolveMessageRecipients against the reference).                                          *)
RoutesAsAddressed ==
    part = "routing" /\ routed.why # "pending" =>
        /\ (routed.why = "ok") <=> Deliverable(body)
        /\ routed.why = "ok" => routed.to = Addressed(body)

-----------------------------------------------------------------------------
(* P0-208: the pinned-skill set of a generation "equals the complete policy/grant/account/    *)
(* AgentSpec intersection".  A session that is not being rotated, after everything that       *)
(* changed the coworker has succeeded, pins every skill of the configuration it can run.      *)
PinnedSkillsAreComplete ==
    (\A r \in SkillCall : scall[r].pc \in {"new", "form"} \/ scall[r].ans \in {"ok", "refused"}) =>
        \A s \in Seat : seat[s].skills = {k \in prof.skills : Required[k] \subseteq seat[s].tools}
=============================================================================
