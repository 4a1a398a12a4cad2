--------------------------- MODULE ComponentTables -------------------------
(***************************************************************************)
(* The tables of the controlled UI components: the published registry and  *)
(* its grants, the coworker's channel sessions, the surfaces (UIInstances) *)
(* a coworker has rendered and what a person did with them.                *)
(*                                                                         *)
(* One component and one coworker: rows of others never meet in a query.   *)
(***************************************************************************)
EXTENDS Integers, Sequences, FiniteSets

CONSTANTS
    Session,     \* the coworker's channel sessions
    GrantCall,   \* requests that set the component's grant
    Key,         \* idempotency keys
    Broker,      \* MCP calls of the component's tool
    Call,        \* tool call ids
    Click,       \* interactions
    None,
    MaxVersion,  \* bound: versions of the component's definition
    MaxGen,      \* bound: generations of a session
    MaxReads,    \* max_uses of a data grant
    Mixes        \* which of the above take part in a behaviour

ASSUME ComponentAssumption ==
    /\ MaxVersion \in Nat \ {0}
    /\ MaxGen \in Nat
    /\ MaxReads \in Nat
    /\ None \notin Session \cup GrantCall \cup Key \cup Broker \cup Call \cup Click
    /\ \A m \in Mixes : /\ m.calls \subseteq GrantCall /\ m.keys \subseteq Key
                        /\ m.sessions \subseteq Session /\ m.brokers \subseteq Broker
                        /\ m.clicks \subseteq Click /\ m.modes \subseteq {"local_state", "server_read"}
                        /\ {m.ready, m.deploys, m.others} \subseteq BOOLEAN

VARIABLES
    code,    \* version of the definition the running API was built with
    pub,     \* ui_components.current_published_version_id; 0: not published
    grant,   \* versions with an active ui_component_grants row
    audit,   \* audit_events: grant changes, and the rotations started and applied for each
    sess,    \* channel_agent_sessions with their current generation
    turn,    \* the session's agent turn and its run step
    chan,    \* the channel is active
    ui,      \* ui_instances
    act,     \* ui_surface_grants: the action grant of each instance, uses of its data grant
    intr,    \* ui_component_interrupts
    inter,   \* ui_interactions
    cont,    \* the continuation: queue item, agent turn, and its runner
    remote,  \* provider turns that carry the answer of a tool call
    gcall,   \* grant requests in flight
    brk,     \* broker calls in flight
    mix      \* who takes part; never changes

registry == <<code, pub, grant, audit>>
surfaces == <<ui, act, intr, inter, cont, remote>>
vars == <<registry, sess, turn, chan, surfaces, gcall, brk, mix>>

Version == 1..MaxVersion

AuditRow == [key : Key \cup {None}, v : Version, granted : BOOLEAN,
             action : {"granted", "revoked", "noop"}, rotations : SUBSET Session,
             started : SUBSET Session, applied : SUBSET Session]

SessionRow == [state : {"active", "rotating"}, gen : 0..MaxGen, offers : BOOLEAN]

TurnRow == [state : {"streaming", "ended"}, gen : 0..MaxGen,
            step : {"running", "cancelling", "ended"}]

Mode == {"complete_component_interrupt", "local_state", "server_read"}

\* state: the state revision, 0 before the first.
InstanceRow == [status : {"none", "ready"}, mode : Mode, s : Session \cup {None}, v : 0..MaxVersion,
                gen : 0..MaxGen, state : 0..Cardinality(Click)]

NoInstance == [status |-> "none", mode |-> "local_state", s |-> None, v |-> 0, gen |-> 0, state |-> 0]

ActionRow == [uses : 0..Cardinality(Click), revoked : BOOLEAN, reads : 0..MaxReads]

InterruptRow == [state : {"none", "waiting", "resolved", "continued", "stale"},
                 by : Click \cup {None}]

\* lapsed: the token's five minutes are over.
InteractionRow == [state : {"none", "token_issued", "succeeded", "stale"}, call : Call \cup {None},
                   key : Key \cup {None}, base : 0..Cardinality(Click), lapsed : BOOLEAN]

NoInteraction == [state |-> "none", call |-> None, key |-> None, base |-> 0, lapsed |-> FALSE]

\* run: where the process that works on the item is; sent: a create timed out and may take effect.
ContinuationRow == [item : {"none", "queued", "claimed"}, gen : 0..MaxGen,
                    turn : {"none", "acquiring", "creating", "uncertain", "streaming", "ended"},
                    run : {"none", "claim", "lock", "create", "bind"}, sent : BOOLEAN]

\* max_uses: the broker grants one use, and leaves the other modes unlimited.
Spent(c) == ui[c].mode = "complete_component_interrupt" /\ act[c].uses >= 1

ActionActive(c) == ~act[c].revoked /\ ~Spent(c)

\* The grant the published version has, if any.
hasActiveComponentGrant == pub \in grant

\* Mutant: the broker takes no row locks.
lockNoRows(b) == FALSE

\* Rows a broker holds FOR SHARE from its second checkpoint until it commits.
lockBrokerAuthorityRows(b) == brk[b].pc = "insert"

RegistryLocked == \E b \in Broker : lockBrokerAuthorityRows(b)

SessionLocked(s) == \E b \in Broker : brk[b].s = s /\ lockBrokerAuthorityRows(b)

TurnLocked(s) == \E b \in Broker : brk[b].s = s /\ brk[b].pc \in {"bound", "insert"}
=============================================================================
