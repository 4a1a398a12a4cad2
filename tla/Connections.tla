---------------------------- MODULE Connections ----------------------------
(***************************************************************************)
(* The workspace's provider connection: its row, shared by every workspace *)
(* of the deployment under one fixed id, the provider's account behind it, *)
(* and the links by which a person reconnects the account.  Every call     *)
(* first writes the row back to "unconfigured" and only then observes the  *)
(* provider, so two calls interleave their resets and their observations.  *)
(***************************************************************************)
EXTENDS Skills

CONSTANTS ConnCall,     \* requests; a link is named after the request that created it
          Person,       \* each of a workspace of their own
          ConnKey       \* idempotency keys

ASSUME ConnCallsAreFinite == IsFiniteSet(ConnCall)

VARIABLES account,      \* the pinned account at the provider
          conn,         \* connector_bindings: owner workspace and stored status
          link,         \* connection_reconnect_intents, by the request that created the link
          ccall

connVars == <<account, conn, link, ccall>>

ConnStatus == {"none", "unconfigured", "connecting", "active", "expired"}

ConnRow == [owner : Person \cup {None}, status : ConnStatus]

\* state: offered by the provider, stored, or deleted after its expiry; joined: the person
\* has finished the provider's page, which makes a second account active there; n: its age.
LinkRow == [state : {"none", "created", "stored", "deleted"}, key : ConnKey \cup {None},
            who : Person \cup {None}, n : 0..Cardinality(ConnCall), expired : BOOLEAN, joined : BOOLEAN]

NoLink == [state |-> "none", key |-> None, who |-> None, n |-> 0, expired |-> FALSE, joined |-> FALSE]

ConnKind == {"status", "test", "reconnect", "progress"}

ConnCallRow == [pc : {"new", "insert", "load", "observe", "execute", "write", "purge", "find", "link",
                      "save", "mark", "latest", "done"},
                kind : ConnKind \cup {"none"}, who : Person \cup {None}, key : ConnKey \cup {None},
                seen : ConnStatus, of : ConnCall \cup {None},
                ans : {"none", "ok", "error", "idle", "pending", "completed", "expired"}]

NewConnCall == [pc |-> "new", kind |-> "none", who |-> None, key |-> None, seen |-> "none",
                of |-> None, ans |-> "none"]

ConnAnswer(r, ans) == ccall' = [ccall EXCEPT ![r].pc = "done", ![r].ans = ans]

ConnGo(r, pc) == ccall' = [ccall EXCEPT ![r].pc = pc]

-----------------------------------------------------------------------------
(* requireConnection. *)

\* "Never mutate another workspace's row on the globally fixed P0 connection id."
OwnRow(who) == conn.owner = who

\* ensureP0ConnectorBinding: read the row, then insert it or reset it.
ensureP0ConnectorBinding(r) ==
    /\ ccall[r].pc = "new"
    /\ \E kind \in ConnKind, who \in Person, key \in ConnKey :
          LET q == [NewConnCall EXCEPT !.kind = kind, !.who = who,
                                       !.key = IF kind = "reconnect" THEN key ELSE None]
          IN IF conn.owner = None
             THEN ccall' = [ccall EXCEPT ![r] = [q EXCEPT !.pc = "insert"]] /\ UNCHANGED conn
             ELSE IF OwnRow(who)
             THEN /\ ccall' = [ccall EXCEPT ![r] = [q EXCEPT !.pc = "load"]]
                  /\ conn' = [conn EXCEPT !.status = "unconfigured"]
             ELSE /\ ccall' = [ccall EXCEPT ![r] = [q EXCEPT !.pc = "done", !.ans = "error"]]
                  /\ UNCHANGED conn
    /\ UNCHANGED <<account, link>>

\* The loser of two first inserts violates the primary key, which nothing catches.
InsertConnectorBinding(r) ==
    LET q == ccall[r] IN
    /\ q.pc = "insert"
    /\ IF conn.owner = None
       THEN conn' = [owner |-> q.who, status |-> "unconfigured"] /\ ConnGo(r, "load")
       ELSE UNCHANGED conn /\ ConnAnswer(r, "error")
    /\ UNCHANGED <<account, link>>

\* loadConnectorBinding compares the owner once more.
loadConnectorBinding(r) ==
    LET q == ccall[r] IN
    /\ q.pc = "load"
    /\ IF ~OwnRow(q.who) THEN ConnAnswer(r, "error")
       ELSE ConnGo(r, IF q.kind = "reconnect" THEN "purge"
                      ELSE IF q.kind = "progress" THEN "latest" ELSE "observe")
    /\ UNCHANGED <<account, conn, link>>

-----------------------------------------------------------------------------
(* Status and test. *)

\* The provider does not answer: every call turns that into an error.
ProviderUnavailable(r) ==
    /\ ccall[r].pc \in {"observe", "execute", "link"}
    /\ ConnAnswer(r, "error")
    /\ UNCHANGED <<account, conn, link>>

observeStatus(r) ==
    LET q == ccall[r] IN
    /\ q.pc = "observe" /\ q.kind \in {"status", "test"}
    /\ ccall' = [ccall EXCEPT ![r].seen = account,
                    ![r].pc = IF q.kind = "test" /\ account = "active" THEN "execute" ELSE "write"]
    /\ UNCHANGED <<account, conn, link>>

\* testConnection runs the reviewed read; an authentication failure expires the connection.
executeDirectTool(r) ==
    /\ ccall[r].pc = "execute"
    /\ ccall' = [ccall EXCEPT ![r].pc = "write", ![r].seen = account]
    /\ UNCHANGED <<account, conn, link>>

\* updateConnectorBindingStatus, whatever the row says by now.
updateConnectorBindingStatus(r, status) ==
    conn' = IF OwnRow(ccall[r].who) THEN [conn EXCEPT !.status = status] ELSE conn

WriteStatus(r) ==
    LET q == ccall[r] IN
    /\ q.pc = "write"
    /\ updateConnectorBindingStatus(r, q.seen)
    /\ ConnAnswer(r, IF q.kind = "progress" THEN q.ans ELSE "ok")
    /\ UNCHANGED <<account, link>>

-----------------------------------------------------------------------------
(* Reconnecting. *)

Stored(who) == {i \in ConnCall : link[i].state = "stored" /\ link[i].who = who}

Latest(I) == {i \in I : \A j \in I : link[j].n <= link[i].n}

Unexpired(I) == {i \in I : ~link[i].expired}

\* deleteExpiredConnectionReconnectIntents removes everybody's expired links.
DeleteExpired ==
    link' = [i \in ConnCall |-> IF link[i].state = "stored" /\ link[i].expired
                                THEN [link[i] EXCEPT !.state = "deleted"] ELSE link[i]]

PurgeExpired(r) ==
    /\ ccall[r].pc = "purge"
    /\ DeleteExpired
    /\ ConnGo(r, "find")
    /\ UNCHANGED <<account, conn>>

\* loadReusableReconnectIntent: the link of this key, else any link of this person still open.
loadReusableReconnectIntent(r) ==
    LET q     == ccall[r]
        byKey == {i \in Stored(q.who) : link[i].key = q.key}
        open  == IF byKey # {} THEN Unexpired(byKey) ELSE Unexpired(Stored(q.who))
    IN
    /\ q.pc = "find"
    /\ IF open = {} THEN ConnGo(r, "link")
       ELSE \E i \in Latest(open) : ccall' = [ccall EXCEPT ![r].pc = "done", ![r].ans = "ok", ![r].of = i]
    /\ UNCHANGED <<account, conn, link>>

createConnectLink(r) ==
    LET q == ccall[r] IN
    /\ q.pc = "link"
    /\ link' = [link EXCEPT ![r] = [NoLink EXCEPT !.state = "created", !.key = q.key, !.who = q.who]]
    /\ ConnGo(r, "save")
    /\ UNCHANGED <<account, conn>>

SameKey(r) == {i \in Stored(ccall[r].who) : link[i].key = ccall[r].key}

\* Mutant: the answer carries the link just created, whichever was stored.
SavedOwnLink(r) == {r}

\* ON CONFLICT DO NOTHING, then the stored link of the key is read back.
SavedLink(r) == IF SameKey(r) = {} THEN {r} ELSE SameKey(r)

\* How many links have been stored so far.
Saved == Cardinality({i \in ConnCall : link[i].n > 0})

saveConnectionReconnectIntent(r) ==
    /\ ccall[r].pc = "save"
    /\ link' = IF SameKey(r) = {} THEN [link EXCEPT ![r].state = "stored", ![r].n = Saved + 1] ELSE link
    /\ \E i \in SavedLink(r) : ccall' = [ccall EXCEPT ![r].pc = "mark", ![r].of = i]
    /\ UNCHANGED <<account, conn>>

MarkConnecting(r) ==
    /\ ccall[r].pc = "mark"
    /\ updateConnectorBindingStatus(r, "connecting")
    /\ ConnAnswer(r, "ok")
    /\ UNCHANGED <<account, link>>

\* reconnectStatus: the person's latest link, then everything expired is deleted.
resolveReconnectIntentForStatus(r) ==
    LET q == ccall[r] IN
    /\ q.pc = "latest"
    /\ DeleteExpired
    /\ IF Stored(q.who) = {}
       THEN ccall' = [ccall EXCEPT ![r].pc = "observe", ![r].ans = "idle"]
       ELSE \E i \in Latest(Stored(q.who)) :
               ccall' = [ccall EXCEPT ![r].of = i, ![r].pc = "observe",
                           ![r].ans = IF link[i].expired THEN "expired" ELSE "pending"]
    /\ UNCHANGED <<account, conn>>

\* A link is finished once its own account is active.
ProgressState(r) ==
    LET q == ccall[r] IN
    IF q.ans = "pending" /\ link[q.of].expired THEN "expired"
    ELSE IF q.ans = "pending" /\ link[q.of].joined THEN "completed" ELSE q.ans

\* A failed look at the link's own account counts as pending.
ProgressAnswers(r) ==
    IF ProgressState(r) = "completed" THEN {"completed", "pending"} ELSE {ProgressState(r)}

\* The status a progress call stores: an expired link hides an account that is active.
ObservedByProgress(r) ==
    IF ProgressState(r) = "expired" /\ account = "active" THEN "unconfigured" ELSE account

observeReconnect(r) ==
    LET q == ccall[r] IN
    /\ q.pc = "observe" /\ q.kind = "progress"
    /\ \E ans \in ProgressAnswers(r) :
          ccall' = [ccall EXCEPT ![r].pc = "write", ![r].ans = ans, ![r].seen = ObservedByProgress(r)]
    /\ UNCHANGED <<account, conn, link>>

-----------------------------------------------------------------------------
(* The provider, and time. *)

AccountChanges ==
    /\ account' = IF account = "active" THEN "expired" ELSE "active"
    /\ UNCHANGED <<conn, link, ccall>>

PersonJoins(i) ==
    /\ link[i].state \in {"created", "stored"} /\ ~link[i].expired /\ ~link[i].joined
    /\ link' = [link EXCEPT ![i].joined = TRUE]
    /\ UNCHANGED <<account, conn, ccall>>

LinkExpires(i) ==
    /\ link[i].state \in {"created", "stored"} /\ ~link[i].expired
    /\ link' = [link EXCEPT ![i].expired = TRUE]
    /\ UNCHANGED <<account, conn, ccall>>

ConnInit ==
    /\ account = "active"
    /\ conn = [owner |-> None, status |-> "none"]
    /\ link = [i \in ConnCall |-> NoLink]
    /\ ccall = [r \in ConnCall |-> NewConnCall]

ConnStep ==
    \/ \E r \in ConnCall :
          \/ ensureP0ConnectorBinding(r) \/ InsertConnectorBinding(r) \/ loadConnectorBinding(r)
          \/ ProviderUnavailable(r) \/ observeStatus(r) \/ observeReconnect(r) \/ executeDirectTool(r)
          \/ WriteStatus(r)
          \/ PurgeExpired(r) \/ loadReusableReconnectIntent(r) \/ createConnectLink(r)
          \/ saveConnectionReconnectIntent(r) \/ MarkConnecting(r)
          \/ resolveReconnectIntentForStatus(r)
          \/ PersonJoins(r) \/ LinkExpires(r)
    \/ AccountChanges
=============================================================================
