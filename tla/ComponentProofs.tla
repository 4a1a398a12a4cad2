--------------------------- MODULE ComponentProofs -------------------------
(***************************************************************************)
(* What holds of the controlled UI components for every number of          *)
(* sessions, grant requests, broker calls, tool calls and interactions:    *)
(* the audit trail explains the grants, a request answered ok has rotated  *)
(* every session, a surface appears only under authority, an interrupt is  *)
(* answered once, and no state update is lost.                             *)
(***************************************************************************)
EXTENDS Components, FiniteSetTheorems, SequenceTheorems, TLAPS

(***************************************************************************)
(* Last elements.  A replay looks for the latest event of its key.         *)
(***************************************************************************)

\* Every set of indexes has a last one.
LEMMA LastIndex ==
    ASSUME NEW n \in Nat, NEW I \in SUBSET (1..n), I # {}
    PROVE  \E i \in I : \A j \in I : j <= i
<1> DEFINE T == {i..n : i \in I}
<1>1. IsFiniteSet(1..n)
    BY FS_Interval
<1>2. IsWellFoundedOn(StrictSubsetOrdering(1..n), SUBSET (1..n))
    BY <1>1, FS_StrictSubsetOrderingWellFounded, FS_FiniteSubsetsOfFinite
<1>3. T \subseteq SUBSET (1..n) /\ T # {}
  <2>1. \A i \in I : i..n \in SUBSET (1..n)
      OBVIOUS
  <2> QED BY <2>1
<1>4. PICK x \in T : \A y \in T : <<y, x>> \notin StrictSubsetOrdering(1..n)
  <2> HIDE DEF T
  <2> QED BY <1>2, <1>3, WFMin
<1>5. PICK i \in I : x = i..n
    OBVIOUS
<1>6. ASSUME NEW j \in I, ~ (j <= i) PROVE FALSE
  <2>1. j..n \in T /\ j..n \in SUBSET (1..n) /\ i..n \in SUBSET (1..n)
      BY <1>3
  <2>2. j..n \subseteq i..n /\ i \notin j..n /\ i \in i..n
      BY <1>6
  <2>3. <<j..n, i..n>> \in StrictSubsetOrdering(1..n)
      BY <2>1, <2>2 DEF StrictSubsetOrdering
  <2> QED BY <1>4, <1>5, <2>1, <2>3
<1> QED BY <1>6

\* What Max picks among indexes.
LEMMA MaxIsLast ==
    ASSUME NEW n \in Nat, NEW I \in SUBSET (1..n), I # {}
    PROVE  Max(I) \in I /\ \A j \in I : j <= Max(I)
<1>1. PICK i \in I : \A j \in I : j <= i
    BY LastIndex
<1>2. \A j \in I : i >= j
    BY <1>1
<1>3. \E x \in I : \A y \in I : x >= y
    BY <1>2
<1>4. Max(I) \in I /\ \A y \in I : Max(I) >= y
    BY <1>3 DEF Max
<1> QED BY <1>4

-----------------------------------------------------------------------------
(***************************************************************************)
(* Grants.  The invariant says of each version what its last change was,   *)
(* and of each request in the middle of its rotations that the sessions it *)
(* has left are all that its audit event still misses.                     *)
(***************************************************************************)

\* A request row; the audit event worked on is any number.
GrantRow == [pc : GrantPC, key : Key \cup {None}, v : Version, granted : BOOLEAN,
             aud : Nat, left : SUBSET Session,
             s : Session \cup {None}, offer : BOOLEAN, ans : {"none", "ok", "error"}]

GrantTypes ==
    /\ mix \in Mixes /\ code \in Version /\ grant \subseteq Version
    /\ audit \in Seq(AuditRow) /\ gcall \in [GrantCall -> GrantRow]

\* A change of the version, after which none is recorded.
IsLastChange(i, v) ==
    /\ i \in DOMAIN audit /\ audit[i].v = v /\ audit[i].action # "noop"
    /\ \A j \in DOMAIN audit : audit[j].v = v /\ audit[j].action # "noop" => j <= i

Unchanging(v) == \A j \in DOMAIN audit : audit[j].v = v => audit[j].action = "noop"

LastChangesExplain ==
    \A v \in Version :
        \/ v \in grant /\ \E i \in DOMAIN audit : IsLastChange(i, v) /\ audit[i].action = "granted"
        \/ v \notin grant /\ Unchanging(v)
        \/ v \notin grant /\ \E i \in DOMAIN audit : IsLastChange(i, v) /\ audit[i].action # "granted"

OnlyListedAreApplied == \A i \in DOMAIN audit : audit[i].applied \subseteq audit[i].rotations

HasSession == {"candidates", "begin", "cancel", "swap", "record"}

LeftAreThoseMissing(r) ==
    LET q == gcall[r] IN
    /\ q.pc \in HasSession \cup {"rotate"} =>
          /\ q.aud \in DOMAIN audit /\ q.left \subseteq audit[q.aud].rotations
          /\ audit[q.aud].rotations \ audit[q.aud].applied \subseteq q.left
    /\ q.pc \in HasSession => q.s \in q.left
    /\ q.ans # "none" => q.pc = "done"
    /\ q.ans = "ok" => q.aud \in DOMAIN audit /\ audit[q.aud].rotations = audit[q.aud].applied

GrantInv ==
    GrantTypes /\ LastChangesExplain /\ OnlyListedAreApplied /\ \A r \in GrantCall : LeftAreThoseMissing(r)

\* Who takes part, as the assumption on the mixes has it.
LEMMA MixParts ==
    ASSUME mix \in Mixes
    PROVE  /\ mix.calls \subseteq GrantCall /\ mix.keys \subseteq Key /\ mix.sessions \subseteq Session
           /\ mix.brokers \subseteq Broker /\ mix.clicks \subseteq Click
           /\ mix.modes \subseteq {"local_state", "server_read"}
BY ComponentAssumption

\* What a row of a request is made of.
LEMMA GrantRowFields ==
    ASSUME NEW q \in GrantRow
    PROVE  /\ q.pc \in GrantPC /\ q.key \in Key \cup {None} /\ q.v \in Version /\ q.granted \in BOOLEAN
           /\ q.aud \in Nat /\ q.left \subseteq Session /\ q.s \in Session \cup {None}
           /\ q.offer \in BOOLEAN /\ q.ans \in {"none", "ok", "error"}
BY DEF GrantRow

\* A step of one request that leaves the audit trail and the grants alone.
LEMMA RequestStepKeeps ==
    ASSUME GrantInv, NEW r \in GrantCall, NEW q \in GrantRow,
           mix' = mix, code' \in Version, grant' = grant, audit' = audit,
           gcall' = [gcall EXCEPT ![r] = q],
           q.pc \in HasSession \cup {"rotate"} =>
                /\ q.aud \in DOMAIN audit /\ q.left \subseteq audit[q.aud].rotations
                /\ audit[q.aud].rotations \ audit[q.aud].applied \subseteq q.left,
           q.pc \in HasSession => q.s \in q.left,
           q.ans # "none" => q.pc = "done",
           q.ans = "ok" => q.aud \in DOMAIN audit /\ audit[q.aud].rotations = audit[q.aud].applied
    PROVE  GrantInv'
<1>1. GrantTypes' /\ gcall'[r] = q /\ \A o \in GrantCall \ {r} : gcall'[o] = gcall[o]
    BY DEF GrantInv, GrantTypes
<1>2. LastChangesExplain'
    BY DEF GrantInv, LastChangesExplain, IsLastChange, Unchanging
<1>3. OnlyListedAreApplied'
    BY DEF GrantInv, OnlyListedAreApplied
<1>4. ASSUME NEW o \in GrantCall PROVE LeftAreThoseMissing(o)'
  <2>1. CASE o = r
      BY <1>1, <2>1 DEF LeftAreThoseMissing
  <2>2. CASE o # r
      BY <1>1, <2>2 DEF GrantInv, LeftAreThoseMissing
  <2> QED BY <2>1, <2>2
<1> QED BY <1>1, <1>2, <1>3, <1>4 DEF GrantInv

\* A change is recorded: the last event, and the grants, are this request's.
LEMMA RecordedKeeps ==
    ASSUME GrantInv, NEW r \in GrantCall, NEW action \in {"granted", "revoked", "noop"},
           NEW G \in SUBSET Version,
           mix' = mix, code' = code, grant' = G,
           action = "granted" => G = grant \cup {gcall[r].v},
           action = "revoked" => G = grant \ {gcall[r].v},
           action = "noop" => G = grant,
           gcall[r].ans = "none",
           applyComponentGrantChange(r, action)
    PROVE  GrantInv'
<1>0. PICK n \in Nat : n = Len(audit)
    BY DEF GrantInv, GrantTypes
<1>1. PICK q \in GrantRow, rotations \in SUBSET Session :
         q = gcall[r] /\ rotations = IF action = "noop" THEN {} ELSE mix.sessions
    BY MixParts DEF GrantInv, GrantTypes
<1> DEFINE event == [key |-> q.key, v |-> q.v, granted |-> q.granted, action |-> action,
                     rotations |-> rotations, started |-> {}, applied |-> {}]
           p == [q EXCEPT !.pc = "rotate", !.aud = n + 1, !.left = rotations]
<1>2. /\ event \in AuditRow /\ event.v = q.v /\ event.action = action
      /\ event.rotations = rotations /\ event.applied = {}
    BY GrantRowFields DEF AuditRow
<1>3. audit' = Append(audit, event) /\ gcall' = [gcall EXCEPT ![r] = p]
    BY <1>0, <1>1 DEF applyComponentGrantChange, GrantInv, GrantTypes
<1>4. p \in GrantRow /\ p.pc = "rotate" /\ p.aud = n + 1 /\ p.left = rotations /\ p.ans = q.ans
  <2>1. PICK m \in Nat : m = n + 1
      OBVIOUS
  <2>2. p = [q EXCEPT !.pc = "rotate", !.aud = m, !.left = rotations]
      BY <2>1
  <2>3. q \in GrantRow /\ rotations \in SUBSET Session
      OBVIOUS
  <2> HIDE DEF p, event
  <2> QED BY <2>1, <2>2, <2>3 DEF GrantRow, GrantPC
<1> HIDE DEF event, p
<1>5. /\ audit' \in Seq(AuditRow) /\ DOMAIN audit' = 1..(n + 1) /\ audit'[n + 1] = event
      /\ \A i \in 1..n : audit'[i] = audit[i]
    BY <1>0, <1>2, <1>3, AppendProperties DEF GrantInv, GrantTypes
<1>6. GrantTypes' /\ gcall'[r] = p /\ \A o \in GrantCall \ {r} : gcall'[o] = gcall[o]
    BY <1>3, <1>4, <1>5 DEF GrantInv, GrantTypes
<1>7. DOMAIN audit = 1..n /\ gcall[r].v = q.v
    BY <1>0, <1>1 DEF GrantInv, GrantTypes
<1>8. LastChangesExplain'
  <2> SUFFICES ASSUME NEW v \in Version
               PROVE  \/ v \in G /\ \E i \in 1..(n + 1) : IsLastChange(i, v)' /\ audit'[i].action = "granted"
                      \/ v \notin G /\ Unchanging(v)'
                      \/ v \notin G /\ \E i \in 1..(n + 1) : IsLastChange(i, v)' /\ audit'[i].action # "granted"
      BY <1>5 DEF LastChangesExplain
  <2>1. CASE v = q.v /\ action # "noop"
    <3>1. IsLastChange(n + 1, v)' /\ audit'[n + 1].action = action
        BY <1>7, <1>2, <1>5, <2>1 DEF IsLastChange
    <3>2. n + 1 \in 1..(n + 1) OBVIOUS
    <3>3. v \in G <=> action = "granted" BY <1>7, <2>1
    <3> QED BY <3>1, <3>2, <3>3
  <2>2. CASE v # q.v \/ action = "noop"
    <3>1. v \in G <=> v \in grant
        BY <1>7, <2>2
    <3>2. \A i \in 1..n : IsLastChange(i, v) => IsLastChange(i, v)' /\ audit'[i] = audit[i]
        BY <1>7, <1>2, <1>5, <2>2 DEF IsLastChange
    <3>3. Unchanging(v) => Unchanging(v)'
        BY <1>7, <1>2, <1>5, <2>2 DEF Unchanging
    <3>4. 1..n \subseteq 1..(n + 1) OBVIOUS
    <3>5. \/ v \in grant /\ \E i \in 1..n : IsLastChange(i, v) /\ audit[i].action = "granted"
          \/ v \notin grant /\ Unchanging(v)
          \/ v \notin grant /\ \E i \in 1..n : IsLastChange(i, v) /\ audit[i].action # "granted"
        BY <1>7 DEF GrantInv, LastChangesExplain
    <3> QED BY <3>1, <3>2, <3>3, <3>4, <3>5
  <2> QED BY <2>1, <2>2
<1>9. OnlyListedAreApplied'
    BY <1>7, <1>2, <1>5 DEF GrantInv, OnlyListedAreApplied
<1>10. ASSUME NEW o \in GrantCall PROVE LeftAreThoseMissing(o)'
  <2>1. CASE o = r
    <3>1. n + 1 \in 1..(n + 1) OBVIOUS
    <3> QED BY <1>1, <1>2, <1>4, <1>5, <1>6, <2>1, <3>1 DEF LeftAreThoseMissing, HasSession
  <2>2. CASE o # r
    <3>1. gcall'[o] = gcall[o] BY <1>6, <2>2
    <3>2. \A i \in DOMAIN audit : i \in DOMAIN audit' /\ audit'[i] = audit[i]
        BY <1>7, <1>5
    <3> QED BY <3>1, <3>2 DEF GrantInv, LeftAreThoseMissing
  <2> QED BY <2>1, <2>2
<1> QED BY <1>6, <1>8, <1>9, <1>10 DEF GrantInv

\* A rotation is marked as started or applied on the audit event the request works on.
LEMMA MarkedKeeps ==
    ASSUME GrantInv, NEW r \in GrantCall, NEW q \in GrantRow, NEW i \in DOMAIN audit, NEW e \in AuditRow,
           mix' = mix, code' = code, grant' = grant,
           audit' = [audit EXCEPT ![i] = e], gcall' = [gcall EXCEPT ![r] = q],
           e.v = audit[i].v, e.action = audit[i].action, e.rotations = audit[i].rotations,
           audit[i].applied \subseteq e.applied, e.applied \subseteq e.rotations,
           q.aud = i, q.left \subseteq e.rotations, e.rotations \ e.applied \subseteq q.left,
           q.pc \in HasSession => q.s \in q.left, q.ans = "none"
    PROVE  GrantInv'
<1>1. /\ audit \in Seq(AuditRow) /\ audit' \in Seq(AuditRow) /\ DOMAIN audit' = DOMAIN audit
      /\ audit'[i] = e /\ \A j \in DOMAIN audit : j # i => audit'[j] = audit[j]
    BY ExceptSeq DEF GrantInv, GrantTypes
<1>2. \A j \in DOMAIN audit : /\ audit'[j].v = audit[j].v /\ audit'[j].action = audit[j].action
                              /\ audit'[j].rotations = audit[j].rotations
                              /\ audit[j].applied \subseteq audit'[j].applied
    BY <1>1
<1>3. OnlyListedAreApplied'
    BY <1>1 DEF GrantInv, OnlyListedAreApplied
<1>4. GrantTypes' /\ gcall'[r] = q /\ \A o \in GrantCall \ {r} : gcall'[o] = gcall[o]
    BY <1>1 DEF GrantInv, GrantTypes
<1>5. LastChangesExplain'
  <2> SUFFICES ASSUME NEW v \in Version
               PROVE  \/ v \in grant /\ \E j \in DOMAIN audit : IsLastChange(j, v)' /\ audit'[j].action = "granted"
                      \/ v \notin grant /\ Unchanging(v)'
                      \/ v \notin grant /\ \E j \in DOMAIN audit : IsLastChange(j, v)' /\ audit'[j].action # "granted"
      BY <1>1 DEF LastChangesExplain
  <2>1. \A j \in DOMAIN audit : IsLastChange(j, v) => IsLastChange(j, v)'
      BY <1>1, <1>2 DEF IsLastChange
  <2>2. Unchanging(v) => Unchanging(v)'
      BY <1>1, <1>2 DEF Unchanging
  <2> QED BY <1>2, <2>1, <2>2 DEF GrantInv, LastChangesExplain
<1>6. ASSUME NEW o \in GrantCall PROVE LeftAreThoseMissing(o)'
  <2>1. CASE o = r
      BY <1>1, <1>4, <2>1 DEF LeftAreThoseMissing
  <2>2. CASE o # r
    <3>1. gcall'[o] = gcall[o] /\ LeftAreThoseMissing(o)
        BY <1>4, <2>2 DEF GrantInv
    <3>2. \A j \in DOMAIN audit :
             /\ audit[j].rotations = audit[j].applied => audit'[j].rotations = audit'[j].applied
             /\ audit'[j].rotations \ audit'[j].applied \subseteq audit[j].rotations \ audit[j].applied
      <4>1. \A j \in DOMAIN audit : audit'[j].applied \subseteq audit'[j].rotations
          BY <1>1, <1>3 DEF OnlyListedAreApplied
      <4> SUFFICES ASSUME NEW j \in DOMAIN audit
                   PROVE  /\ audit[j].rotations = audit[j].applied => audit'[j].rotations = audit'[j].applied
                          /\ audit'[j].rotations \ audit'[j].applied
                                \subseteq audit[j].rotations \ audit[j].applied
          OBVIOUS
      <4>2. /\ audit'[j].rotations = audit[j].rotations /\ audit[j].applied \subseteq audit'[j].applied
            /\ audit'[j].applied \subseteq audit'[j].rotations
          BY <1>2, <4>1
      <4> QED BY <4>2
    <3> QED BY <1>1, <1>2, <3>1, <3>2 DEF LeftAreThoseMissing
  <2> QED BY <2>1, <2>2
<1> QED BY <1>3, <1>4, <1>5, <1>6 DEF GrantInv

\* The steps of a grant request keep the invariant.
LEMMA GrantStepKeeps ==
    ASSUME GrantInv, NEW r \in GrantCall, GrantStep(r)
    PROVE  GrantInv'
<1>1. PICK q \in GrantRow : q = gcall[r]
    BY DEF GrantInv, GrantTypes
<1>2. /\ mix \in Mixes /\ code \in Version /\ grant \in SUBSET Version /\ audit \in Seq(AuditRow)
      /\ gcall \in [GrantCall -> GrantRow] /\ LeftAreThoseMissing(r) /\ OnlyListedAreApplied
    BY DEF GrantInv, GrantTypes
<1>3. /\ q.pc \in HasSession \cup {"rotate"} =>
          /\ q.aud \in DOMAIN audit /\ q.left \subseteq audit[q.aud].rotations
          /\ audit[q.aud].rotations \ audit[q.aud].applied \subseteq q.left
      /\ q.pc \in HasSession => q.s \in q.left
      /\ q.pc # "done" => q.ans = "none"
    BY <1>1, <1>2 DEF LeftAreThoseMissing
<1>4. CASE setCoworkerComponentGrant(r)
  <2>1. PICK k \in Key, v \in Version, granted \in BOOLEAN :
          gcall' = [gcall EXCEPT ![r] = [NewGrantCall EXCEPT
                       !.key = k, !.v = v, !.granted = granted,
                       !.pc = IF v = code THEN "lookup" ELSE "done",
                       !.ans = IF v = code THEN "none" ELSE "error"]]
    <3>1. mix.keys \subseteq Key
        BY <1>2, MixParts
    <3> HIDE DEF NewGrantCall
    <3> QED BY <1>4, <3>1, Zenon DEF setCoworkerComponentGrant
  <2>2. PICK pc \in {"lookup", "done"}, ans \in {"none", "error"} :
          /\ pc = IF v = code THEN "lookup" ELSE "done"
          /\ ans = IF v = code THEN "none" ELSE "error"
      OBVIOUS
  <2> DEFINE p == [NewGrantCall EXCEPT !.key = k, !.v = v, !.granted = granted, !.pc = pc, !.ans = ans]
  <2>3. NewGrantCall \in GrantRow
      BY ComponentAssumption DEF NewGrantCall, GrantRow, GrantPC, Version
  <2>4. p \in GrantRow /\ p.pc = pc /\ p.ans = ans
      BY <2>3 DEF GrantRow, GrantPC
  <2>5. gcall' = [gcall EXCEPT ![r] = p]
      BY <2>1, <2>2
  <2> HIDE DEF p
  <2> QED BY <1>2, <1>4, <2>2, <2>4, <2>5, RequestStepKeeps DEF setCoworkerComponentGrant, HasSession
<1>5. CASE LookupPriorAudit(r)
  <2> DEFINE i == Max(priorAudit(q.key))
  <2>1. CASE priorAudit(q.key) = {}
    <3> DEFINE p == [q EXCEPT !.pc = "set"]
    <3>1. p \in GrantRow /\ p.pc = "set" /\ p.ans = "none"
        BY <1>1, <1>3, <1>5 DEF GrantRow, GrantPC, LookupPriorAudit
    <3>2. gcall' = [gcall EXCEPT ![r] = p]
        BY <1>1, <1>2, <1>5, <2>1 DEF LookupPriorAudit, Step
    <3> HIDE DEF p
    <3> QED BY <1>2, <1>5, <3>1, <3>2, RequestStepKeeps DEF LookupPriorAudit, HasSession, registry
  <2>2. CASE priorAudit(q.key) # {} /\ (audit[i].v # q.v \/ audit[i].granted # q.granted)
    <3> DEFINE p == [q EXCEPT !.pc = "done", !.ans = "error"]
    <3>1. p \in GrantRow /\ p.pc = "done" /\ p.ans = "error"
        BY DEF GrantRow, GrantPC
    <3>2. gcall' = [gcall EXCEPT ![r] = p]
        BY <1>1, <1>2, <1>5, <2>2 DEF LookupPriorAudit, Reply
    <3> HIDE DEF p
    <3> QED BY <1>2, <1>5, <3>1, <3>2, RequestStepKeeps DEF LookupPriorAudit, HasSession, registry
  <2>3. CASE priorAudit(q.key) # {} /\ ~ (audit[i].v # q.v \/ audit[i].granted # q.granted)
    <3>1. PICK n \in Nat : DOMAIN audit = 1..n
        BY <1>2
    <3>2. i \in DOMAIN audit
      <4>1. PICK I \in SUBSET (1..n) : I = priorAudit(q.key)
          BY <3>1 DEF priorAudit
      <4>2. Max(I) \in I
          BY <2>3, <4>1, MaxIsLast
      <4> QED BY <3>1, <4>1, <4>2
    <3>3. PICK m \in Nat : m = i
        BY <1>2, <3>2
    <3>4. PICK left \in SUBSET Session : left = audit[m].rotations \ audit[m].applied
      <4>1. audit[m] \in AuditRow
          BY <1>2, <3>2, <3>3
      <4>2. audit[m].rotations \in SUBSET Session
          BY <4>1 DEF AuditRow
      <4> QED BY <4>2
    <3> DEFINE p == [q EXCEPT !.pc = "rotate", !.aud = m, !.left = left]
    <3>5. p \in GrantRow /\ p.pc = "rotate" /\ p.aud = m /\ p.left = left /\ p.ans = q.ans
        BY DEF GrantRow, GrantPC
    <3>6. gcall' = [gcall EXCEPT ![r] = p]
        BY <1>1, <1>2, <1>5, <2>3, <3>3, <3>4 DEF LookupPriorAudit, pendingRotations
    <3>7. q.ans = "none" /\ p.left \subseteq audit[m].rotations
        BY <1>1, <1>3, <1>5, <3>4, <3>5 DEF LookupPriorAudit
    <3> HIDE DEF p, i
    <3>8. /\ p.aud \in DOMAIN audit /\ p.left \subseteq audit[p.aud].rotations
          /\ audit[p.aud].rotations \ audit[p.aud].applied \subseteq p.left
          /\ p.ans = "none" /\ p.pc \notin HasSession
        BY <3>2, <3>3, <3>4, <3>5, <3>7 DEF HasSession
    <3>9. mix' = mix /\ code' \in Version /\ grant' = grant /\ audit' = audit
        BY <1>2, <1>5 DEF LookupPriorAudit, registry
    <3> QED BY <3>5, <3>6, <3>8, <3>9, RequestStepKeeps
  <2> QED BY <2>1, <2>2, <2>3
<1>6. CASE setComponentGrant(r)
  <2>1. q.pc = "set" /\ q.ans = "none" /\ q.v \in Version
      BY <1>1, <1>3, <1>6 DEF setComponentGrant, GrantRow
  <2>2. CASE q.granted /\ q.v \in grant
      BY <1>1, <1>2, <1>6, <2>1, <2>2, RecordedKeeps DEF setComponentGrant
  <2>3. CASE q.granted /\ q.v \notin grant
    <3> DEFINE p == [q EXCEPT !.pc = "insert"]
    <3>1. p \in GrantRow /\ p.pc = "insert" /\ p.ans = "none"
        BY <2>1 DEF GrantRow, GrantPC
    <3>2. gcall' = [gcall EXCEPT ![r] = p] /\ audit' = audit
        BY <1>1, <1>2, <1>6, <2>3 DEF setComponentGrant, Step
    <3> HIDE DEF p
    <3> QED BY <1>1, <1>2, <1>6, <2>3, <3>1, <3>2, RequestStepKeeps DEF setComponentGrant, HasSession
  <2>4. CASE ~ q.granted
    <3>1. PICK action \in {"granted", "revoked", "noop"} :
             action = IF Revoked(q.v) # {} THEN "revoked" ELSE "noop"
        OBVIOUS
    <3>2. PICK G \in SUBSET Version : G = grant \ {q.v}
        BY <1>2
    <3>3. grant' = G /\ applyComponentGrantChange(r, action)
        BY <1>1, <1>6, <2>4, <3>1, <3>2 DEF setComponentGrant, Revoked
    <3>4. action = "noop" => G = grant
        BY <3>1, <3>2 DEF Revoked
    <3> QED BY <1>1, <1>6, <2>1, <3>1, <3>2, <3>3, <3>4, RecordedKeeps DEF setComponentGrant
  <2> QED BY <2>2, <2>3, <2>4
<1>7. CASE InsertGrant(r)
  <2>1. q.pc = "insert" /\ q.ans = "none" /\ q.v \in Version
      BY <1>1, <1>3, <1>7 DEF InsertGrant, GrantRow
  <2>2. CASE q.v \in grant
    <3> DEFINE p == [q EXCEPT !.pc = "done", !.ans = "error"]
    <3>1. p \in GrantRow /\ p.pc = "done" /\ p.ans = "error"
        BY DEF GrantRow, GrantPC
    <3>2. gcall' = [gcall EXCEPT ![r] = p] /\ audit' = audit /\ grant' = grant
        BY <1>1, <1>2, <1>7, <2>2 DEF InsertGrant, Reply
    <3> HIDE DEF p
    <3> QED BY <1>2, <1>7, <3>1, <3>2, RequestStepKeeps DEF InsertGrant, HasSession
  <2>3. CASE q.v \notin grant
    <3>1. PICK G \in SUBSET Version : G = grant \cup {q.v}
        BY <1>2, <2>1
    <3> QED BY <1>1, <1>7, <2>1, <2>3, <3>1, RecordedKeeps DEF InsertGrant
  <2> QED BY <2>2, <2>3
<1>8. CASE StartRotation(r)
  <2>1. PICK s \in q.left :
          /\ gcall' = [gcall EXCEPT ![r].pc = "candidates", ![r].s = s]
          /\ audit' = [audit EXCEPT ![q.aud].started = @ \cup {s}]
      BY <1>1, <1>8 DEF StartRotation
  <2>2. PICK i \in DOMAIN audit : i = q.aud
      BY <1>1, <1>3, <1>8 DEF StartRotation
  <2>3. PICK a \in AuditRow : a = audit[i]
      BY <1>2, <2>2
  <2>4. s \in Session /\ q.ans = "none"
      BY <1>1, <1>3, <1>8 DEF StartRotation, GrantRow
  <2> DEFINE p == [q EXCEPT !.pc = "candidates", !.s = s]
             e == [a EXCEPT !.started = @ \cup {s}]
  <2>5. p \in GrantRow /\ p.pc = "candidates" /\ p.s = s /\ p.aud = q.aud /\ p.left = q.left /\ p.ans = q.ans
      BY <2>4 DEF GrantRow, GrantPC
  <2>6. /\ e \in AuditRow /\ e.v = a.v /\ e.action = a.action /\ e.rotations = a.rotations
        /\ e.applied = a.applied
      BY <2>4 DEF AuditRow
  <2>7. gcall' = [gcall EXCEPT ![r] = p] /\ audit' = [audit EXCEPT ![i] = e]
      BY <1>1, <1>2, <2>1, <2>2, <2>3
  <2>8. a.applied \subseteq a.rotations /\ q.left \subseteq a.rotations /\ a.rotations \ a.applied \subseteq q.left
      BY <1>1, <1>2, <1>3, <1>8, <2>2, <2>3 DEF OnlyListedAreApplied, StartRotation
  <2> HIDE DEF p, e
  <2>9. /\ e.v = audit[i].v /\ e.action = audit[i].action /\ e.rotations = audit[i].rotations
        /\ audit[i].applied \subseteq e.applied /\ e.applied \subseteq e.rotations
        /\ p.aud = i /\ p.left \subseteq e.rotations /\ e.rotations \ e.applied \subseteq p.left
        /\ p.s \in p.left /\ p.ans = "none"
      BY <2>2, <2>3, <2>4, <2>5, <2>6, <2>8
  <2>10. mix' = mix /\ code' = code /\ grant' = grant
      BY <1>8 DEF StartRotation
  <2> QED BY <2>5, <2>6, <2>7, <2>9, <2>10, MarkedKeeps
<1>9. CASE recordSessionRotationApplied(r)
  <2>1. /\ q.pc = "record" /\ q.ans = "none"
        /\ audit' = [audit EXCEPT ![q.aud].applied = @ \cup {q.s}]
        /\ gcall' = [gcall EXCEPT ![r].pc = "rotate", ![r].left = @ \ {q.s}]
      BY <1>1, <1>3, <1>9 DEF recordSessionRotationApplied
  <2>2. q.pc \in HasSession
      BY <2>1 DEF HasSession
  <2>3. PICK i \in DOMAIN audit : i = q.aud
      BY <1>3, <2>2
  <2>4. PICK a \in AuditRow : a = audit[i]
      BY <1>2, <2>3
  <2>5. PICK s \in Session, left \in SUBSET Session : s = q.s /\ left = q.left \ {s} /\ q.left \subseteq Session
    <3>1. q.left \subseteq Session /\ q.s \in q.left
        BY <1>3, <2>2, GrantRowFields
    <3>2. q.s \in Session /\ q.left \ {q.s} \in SUBSET Session
        BY <3>1
    <3> QED BY <3>1, <3>2
  <2> DEFINE p == [q EXCEPT !.pc = "rotate", !.left = left]
             e == [a EXCEPT !.applied = @ \cup {s}]
  <2>6. p \in GrantRow /\ p.pc = "rotate" /\ p.aud = q.aud /\ p.left = left /\ p.ans = q.ans
      BY DEF GrantRow, GrantPC
  <2>7. /\ e \in AuditRow /\ e.v = a.v /\ e.action = a.action /\ e.rotations = a.rotations
        /\ e.applied = a.applied \cup {s}
      BY DEF AuditRow
  <2>8. gcall' = [gcall EXCEPT ![r] = p] /\ audit' = [audit EXCEPT ![i] = e]
      BY <1>1, <1>2, <2>1, <2>3, <2>4, <2>5
  <2>9. /\ a.applied \subseteq a.rotations /\ q.left \subseteq a.rotations /\ a.rotations \ a.applied \subseteq q.left
        /\ s \in q.left
      BY <1>2, <1>3, <2>2, <2>3, <2>4, <2>5 DEF OnlyListedAreApplied
  <2>10. p.left \subseteq a.rotations /\ a.rotations \ e.applied \subseteq p.left /\ e.applied \subseteq a.rotations
      BY <2>5, <2>6, <2>7, <2>9
  <2>11. p.pc \notin HasSession /\ a.applied \subseteq e.applied /\ p.ans = "none"
      BY <2>1, <2>6, <2>7 DEF HasSession
  <2> HIDE DEF p, e
  <2>12. /\ e.v = audit[i].v /\ e.action = audit[i].action /\ e.rotations = audit[i].rotations
         /\ audit[i].applied \subseteq e.applied /\ e.applied \subseteq e.rotations
         /\ p.aud = i /\ p.left \subseteq e.rotations /\ e.rotations \ e.applied \subseteq p.left
      BY <2>3, <2>4, <2>6, <2>7, <2>10, <2>11
  <2>13. mix' = mix /\ code' = code /\ grant' = grant
      BY <1>9 DEF recordSessionRotationApplied
  <2> QED BY <2>6, <2>7, <2>8, <2>11, <2>12, <2>13, MarkedKeeps
<1>10. ASSUME NEW p \in GrantRow, gcall' = [gcall EXCEPT ![r] = p], q.pc \in HasSession,
              p.aud = q.aud, p.left = q.left, p.s = q.s, p.ans = q.ans,
              mix' = mix, code' = code, grant' = grant, audit' = audit
       PROVE  GrantInv'
  <2>1. q.ans = "none"
      BY <1>3, <1>10 DEF HasSession
  <2> QED BY <1>2, <1>3, <1>10, <2>1, RequestStepKeeps
<1>11. ASSUME NEW ans \in {"ok", "error"}, Reply(r, ans),
              mix' = mix, code' = code, grant' = grant, audit' = audit,
              ans = "ok" => q.pc = "rotate" /\ q.left = {}
       PROVE  GrantInv'
  <2> DEFINE p == [q EXCEPT !.pc = "done", !.ans = ans]
  <2>1. p \in GrantRow /\ p.pc = "done" /\ p.ans = ans /\ p.aud = q.aud
      BY DEF GrantRow, GrantPC
  <2>2. gcall' = [gcall EXCEPT ![r] = p]
      BY <1>1, <1>2, <1>11 DEF Reply
  <2>3. p.ans = "ok" => p.aud \in DOMAIN audit /\ audit[p.aud].rotations = audit[p.aud].applied
    <3> SUFFICES ASSUME ans = "ok"
                 PROVE  q.aud \in DOMAIN audit /\ audit[q.aud].rotations = audit[q.aud].applied
        BY <2>1
    <3>1. /\ q.aud \in DOMAIN audit /\ audit[q.aud].rotations \ audit[q.aud].applied \subseteq {}
          /\ audit[q.aud].applied \subseteq audit[q.aud].rotations
        BY <1>2, <1>3, <1>11 DEF OnlyListedAreApplied
    <3> QED BY <3>1
  <2> HIDE DEF p
  <2> QED BY <1>2, <1>11, <2>1, <2>2, <2>3, RequestStepKeeps DEF HasSession
<1>12. ASSUME NEW pc \in GrantPC, Step(r, pc), q.pc \in HasSession, pc \in HasSession,
              mix' = mix, code' = code, grant' = grant, audit' = audit
       PROVE  GrantInv'
  <2> DEFINE p == [q EXCEPT !.pc = pc]
  <2>1. p \in GrantRow /\ p.aud = q.aud /\ p.left = q.left /\ p.s = q.s /\ p.ans = q.ans
      BY DEF GrantRow
  <2>2. gcall' = [gcall EXCEPT ![r] = p]
      BY <1>1, <1>2, <1>12 DEF Step
  <2> HIDE DEF p
  <2> QED BY <1>10, <1>12, <2>1, <2>2
<1>13. CASE loadControlledComponentCandidates(r)
  <2>1. PICK pc \in {"record", "begin"}, offer \in BOOLEAN :
           gcall' = [gcall EXCEPT ![r].offer = offer, ![r].pc = pc]
    <3>1. hasActiveComponentGrant \in BOOLEAN
        BY DEF hasActiveComponentGrant
    <3> QED BY <1>13, <3>1 DEF loadControlledComponentCandidates
  <2> DEFINE p == [q EXCEPT !.offer = offer, !.pc = pc]
  <2>2. p \in GrantRow /\ p.aud = q.aud /\ p.left = q.left /\ p.s = q.s /\ p.ans = q.ans
      BY DEF GrantRow, GrantPC
  <2>3. gcall' = [gcall EXCEPT ![r] = p]
      BY <1>1, <1>2, <2>1
  <2>4. q.pc \in HasSession
      BY <1>1, <1>13 DEF loadControlledComponentCandidates, HasSession
  <2> HIDE DEF p
  <2> QED BY <1>10, <1>13, <2>2, <2>3, <2>4 DEF loadControlledComponentCandidates, registry
<1>14. CASE AllRotated(r)
    BY <1>1, <1>11, <1>14 DEF AllRotated, registry
<1>15. CASE BeginRotation(r)
    BY <1>1, <1>11, <1>12, <1>15 DEF BeginRotation, registry, HasSession, GrantPC
<1>16. CASE CancelActiveTurn(r)
    BY <1>1, <1>12, <1>16 DEF CancelActiveTurn, registry, HasSession, GrantPC
<1>17. CASE SwapGeneration(r)
    BY <1>1, <1>12, <1>17 DEF SwapGeneration, registry, HasSession, GrantPC
<1>18. CASE RotationFails(r)
    BY <1>1, <1>11, <1>18 DEF RotationFails, registry
<1> QED BY <1>4, <1>5, <1>6, <1>7, <1>8, <1>9, <1>13, <1>14, <1>15, <1>16, <1>17, <1>18 DEF GrantStep

\* Whatever leaves the registry, the requests and the mix alone.
LEMMA GrantFrame ==
    ASSUME GrantInv, UNCHANGED <<registry, gcall, mix>>
    PROVE  GrantInv'
BY DEF GrantInv, GrantTypes, LastChangesExplain, IsLastChange, Unchanging, OnlyListedAreApplied,
       LeftAreThoseMissing, registry

\* A request whose process is gone is done, without an answer.
LEMMA RestartKeepsGrants ==
    ASSUME GrantInv, ApiRestart
    PROVE  GrantInv'
<1>1. code' \in Version /\ mix' = mix /\ grant' = grant /\ audit' = audit
    BY ComponentAssumption DEF ApiRestart, GrantInv, GrantTypes, Version
<1>2. ASSUME NEW r \in GrantCall
      PROVE  /\ gcall'[r] \in GrantRow
             /\ gcall'[r] = gcall[r] \/ (gcall'[r].pc = "done" /\ gcall'[r].ans = gcall[r].ans
                                            /\ gcall'[r].aud = gcall[r].aud)
  <2>1. PICK q \in GrantRow : q = gcall[r]
      BY DEF GrantInv, GrantTypes
  <2>2. gcall'[r] = IF q.pc = "new" THEN q ELSE [q EXCEPT !.pc = "done"]
      BY <2>1 DEF ApiRestart
  <2>3. LET p == [q EXCEPT !.pc = "done"]
        IN  p \in GrantRow /\ p.pc = "done" /\ p.ans = q.ans /\ p.aud = q.aud
      BY DEF GrantRow, GrantPC
  <2> QED BY <2>1, <2>2, <2>3
<1>3. GrantTypes'
  <2>1. gcall' = [r \in GrantCall |-> gcall'[r]]
      BY DEF ApiRestart
  <2> QED BY <1>1, <1>2, <2>1 DEF GrantInv, GrantTypes
<1>4. LastChangesExplain' /\ OnlyListedAreApplied'
    BY <1>1 DEF GrantInv, LastChangesExplain, IsLastChange, Unchanging, OnlyListedAreApplied
<1>5. ASSUME NEW r \in GrantCall PROVE LeftAreThoseMissing(r)'
    BY <1>1, <1>2 DEF GrantInv, LeftAreThoseMissing, HasSession
<1> QED BY <1>3, <1>4, <1>5 DEF GrantInv

\* The tables at the start: nothing granted, or one version by one recorded grant.
LEMMA GrantInit ==
    ASSUME Init
    PROVE  GrantInv
<1>1. NewGrantCall \in GrantRow /\ NewGrantCall.pc = "new" /\ NewGrantCall.ans = "none"
    BY ComponentAssumption DEF NewGrantCall, GrantRow, GrantPC, Version
<1>2. /\ EarlierGrant \in AuditRow /\ EarlierGrant.v = 1 /\ EarlierGrant.action = "granted"
      /\ EarlierGrant.applied = {}
    BY ComponentAssumption DEF EarlierGrant, AuditRow, Version
<1>3. 1 \in Version
    BY ComponentAssumption DEF Version
<1> HIDE DEF NewGrantCall, EarlierGrant
<1>4. GrantTypes
    BY <1>1, <1>2, <1>3 DEF Init, GrantTypes
<1>5. ASSUME NEW r \in GrantCall PROVE LeftAreThoseMissing(r)
    BY <1>1 DEF Init, LeftAreThoseMissing, HasSession
<1>6. CASE mix.ready
  <2>1. audit = <<EarlierGrant>> /\ grant = {1} /\ DOMAIN audit = {1} /\ audit[1] = EarlierGrant
      BY <1>6 DEF Init
  <2>2. IsLastChange(1, 1)
      BY <1>2, <2>1 DEF IsLastChange
  <2> QED BY <1>2, <1>4, <1>5, <2>1, <2>2 DEF GrantInv, LastChangesExplain, Unchanging, OnlyListedAreApplied
<1>7. CASE ~ mix.ready
  <2>1. audit = << >> /\ grant = {} /\ DOMAIN audit = {}
      BY <1>7 DEF Init
  <2> QED BY <1>4, <1>5, <2>1 DEF GrantInv, LastChangesExplain, Unchanging, OnlyListedAreApplied
<1> QED BY <1>6, <1>7

\* Every step of the composition keeps the invariant of the grants, one action at a time.
LEMMA GrantsAreKept == GrantInv /\ [Next]_vars => GrantInv'
<1> SUFFICES ASSUME GrantInv, [Next]_vars PROVE GrantInv'
    OBVIOUS
<1>1. ASSUME NEW r \in GrantCall, GrantStep(r) PROVE GrantInv'
    BY <1>1, GrantStepKeeps
<1>2. ASSUME NEW s \in Session, OtherRotation(s) PROVE GrantInv'
    BY <1>2, GrantFrame DEF OtherRotation
<1>3. ASSUME NEW b \in Broker, BrokerStep(b) PROVE GrantInv'
  <2>1. UNCHANGED <<registry, gcall, mix>>
    <3>1. CASE CheckArguments(b) BY <3>1 DEF CheckArguments, registry
    <3>2. CASE FindExisting(b) BY <3>2 DEF FindExisting, registry
    <3>3. CASE BindTurn(b) BY <3>3 DEF BindTurn, registry
    <3>4. CASE CheckBeforeCreate(b) BY <3>4 DEF CheckBeforeCreate, registry
    <3>5. CASE CommitInstance(b) BY <3>5 DEF CommitInstance, registry
    <3> QED BY <1>3, <3>1, <3>2, <3>3, <3>4, <3>5 DEF BrokerStep
  <2> QED BY <2>1, GrantFrame
<1>4. ASSUME InteractionStep PROVE GrantInv'
  <2>1. UNCHANGED <<registry, gcall, mix>>
    <3>1. ASSUME NEW x \in Click, issueUiInteractionToken(x) PROVE UNCHANGED <<registry, gcall, mix>>
        BY <3>1 DEF issueUiInteractionToken, registry
    <3>2. ASSUME NEW x \in Click, TokenLapses(x) PROVE UNCHANGED <<registry, gcall, mix>>
        BY <3>2 DEF TokenLapses, registry
    <3>3. ASSUME NEW x \in Click, commitUiInteraction(x) PROVE UNCHANGED <<registry, gcall, mix>>
        BY <3>3 DEF commitUiInteraction, registry
    <3>4. ASSUME NEW c \in Call, SeedSurface(c) PROVE UNCHANGED <<registry, gcall, mix>>
        BY <3>4 DEF SeedSurface, registry
    <3>5. ASSUME NEW c \in Call, claimTurnQueueItem(c) PROVE UNCHANGED <<registry, gcall, mix>>
        BY <3>5 DEF claimTurnQueueItem, registry
    <3>6. ASSUME NEW c \in Call, WorkerCommand(c) PROVE UNCHANGED <<registry, gcall, mix>>
        BY <3>6 DEF WorkerCommand, registry
    <3>7. ASSUME NEW c \in Call, lockAgentTurnForCreate(c) PROVE UNCHANGED <<registry, gcall, mix>>
        BY <3>7 DEF lockAgentTurnForCreate, registry
    <3>8. ASSUME NEW c \in Call, CreateContinuation(c) PROVE UNCHANGED <<registry, gcall, mix>>
        BY <3>8 DEF CreateContinuation, registry
    <3>9. ASSUME NEW c \in Call, LateCreate(c) PROVE UNCHANGED <<registry, gcall, mix>>
        BY <3>9 DEF LateCreate, registry
    <3>10. ASSUME NEW c \in Call, BindContinuation(c) PROVE UNCHANGED <<registry, gcall, mix>>
        BY <3>10 DEF BindContinuation, registry
    <3>11. ASSUME NEW c \in Call, ReconcileContinuation(c) PROVE UNCHANGED <<registry, gcall, mix>>
        BY <3>11 DEF ReconcileContinuation, registry
    <3>12. ASSUME NEW c \in Call, ContinuationEnds(c) PROVE UNCHANGED <<registry, gcall, mix>>
        BY <3>12 DEF ContinuationEnds, registry
    <3>13. ASSUME NEW s \in Session, requestRunStepStop(s) PROVE UNCHANGED <<registry, gcall, mix>>
        BY <3>13 DEF requestRunStepStop, registry
    <3>14. ASSUME NEW s \in Session, TurnEnds(s) PROVE UNCHANGED <<registry, gcall, mix>>
        BY <3>14 DEF TurnEnds, registry
    <3>15. CASE archiveChannel BY <3>15 DEF archiveChannel, registry
    <3> QED BY <1>4, <3>1, <3>2, <3>3, <3>4, <3>5, <3>6, <3>7, <3>8, <3>9, <3>10, <3>11, <3>12, <3>13, <3>14, <3>15 DEF InteractionStep
  <2> QED BY <2>1, GrantFrame
<1>5. ASSUME UNCHANGED vars PROVE GrantInv'
    BY <1>5, GrantFrame DEF vars
<1> QED BY <1>1, <1>2, <1>3, <1>4, <1>5, RestartKeepsGrants DEF Next

(* A version is granted exactly when the last change recorded of it granted it, for every     *)
(* number of requests, restarts and replays (applyComponentGrantChange).                      *)
THEOREM GrantsAreOnRecord == Spec => []AuditExplainsGrants
<1>1. GrantInv => AuditExplainsGrants
  <2> SUFFICES ASSUME GrantInv, NEW v \in Version
               PROVE  LET changes == {i \in DOMAIN audit : audit[i].v = v /\ audit[i].action # "noop"}
                      IN v \in grant <=> changes # {} /\ audit[Max(changes)].action = "granted"
      BY DEF AuditExplainsGrants
  <2> DEFINE changes == {i \in DOMAIN audit : audit[i].v = v /\ audit[i].action # "noop"}
  <2>1. PICK n \in Nat : DOMAIN audit = 1..n
      BY DEF GrantInv, GrantTypes
  <2>2. ASSUME NEW i \in DOMAIN audit, IsLastChange(i, v) PROVE changes # {} /\ Max(changes) = i
    <3>1. i \in changes /\ changes \in SUBSET (1..n) /\ \A j \in changes : j <= i
        BY <2>1, <2>2 DEF IsLastChange
    <3> HIDE DEF changes
    <3>2. Max(changes) \in changes /\ i <= Max(changes)
        BY <3>1, MaxIsLast
    <3> QED BY <2>1, <3>1, <3>2
  <2>3. Unchanging(v) => changes = {}
      BY DEF Unchanging
  <2> HIDE DEF changes
  <2> QED BY <2>2, <2>3 DEF GrantInv, LastChangesExplain, changes
<1> QED BY <1>1, GrantInit, GrantsAreKept, PTL DEF Spec

(* A grant request answered ok has carried its change to every session the change lists, over *)
(* however many attempts and restarts (applyPendingSessionRotations).                         *)
THEOREM OkIsRotated == Spec => []OkMeansRotated
<1>1. GrantInv => OkMeansRotated
    BY DEF GrantInv, LeftAreThoseMissing, OkMeansRotated
<1> QED BY <1>1, GrantInit, GrantsAreKept, PTL DEF Spec

-----------------------------------------------------------------------------
(***************************************************************************)
(* Rendering.  A broker at its insert has checked its authority under row  *)
(* locks; the invariant says the authority it saw still holds, because     *)
(* each step that would take it away waits for the lock, or is the step of *)
(* a rotation, which only one request makes on a session at a time and     *)
(* never while a broker holds that session.                                *)
(***************************************************************************)

SeatRow == [state : {"active", "rotating"}, gen : Nat, offers : BOOLEAN]

SurfaceRow == [status : {"none", "ready"}, mode : Mode, s : Session \cup {None}, v : Nat,
               gen : Nat, state : Nat]

CallerRow == [pc : {"new", "checked", "opened", "bound", "insert", "done"}, call : Call \cup {None},
              s : Session \cup {None}, gen : Nat, v : Nat,
              ans : {"none", "awaiting_component_input", "quarantined", "error"}]

RenderTypes ==
    /\ pub \in Nat /\ sess \in [Session -> SeatRow] /\ turn \in [Session -> TurnRow]
    /\ ui \in [Call -> SurfaceRow] /\ brk \in [Broker -> CallerRow]

Turning == {"cancel", "swap"}

\* A session is rotated by one request at a time, and is not active meanwhile.
RotationsHold ==
    /\ \A r \in GrantCall : gcall[r].pc \in Turning =>
          gcall[r].s \in Session /\ sess[gcall[r].s].state = "rotating"
    /\ \A r, o \in GrantCall :
          gcall[r].pc \in Turning /\ gcall[o].pc \in Turning /\ gcall[r].s = gcall[o].s => r = o

\* What a broker has seen under its locks is still so.
BrokerHolds(q) ==
    /\ q.pc \in {"checked", "opened", "bound", "insert"} => q.s \in Session /\ q.call \in Call
    /\ q.pc \in {"bound", "insert"} => turn[q.s].state = "streaming"
    /\ q.pc = "insert" =>
          /\ pub = q.v /\ pub \in grant /\ sess[q.s].state = "active"
          /\ sess[q.s].gen = q.gen /\ sess[q.s].offers

RenderInv ==
    GrantInv /\ RenderTypes /\ RotationsHold /\ \A b \in Broker : BrokerHolds(brk[b])

\* Mode of a fresh surface.
LEMMA SurfaceTyped ==
    NoInstance \in SurfaceRow /\ Mode = {"complete_component_interrupt", "local_state", "server_read"}
BY DEF NoInstance, SurfaceRow, Mode

\* A request whose step leaves the sessions alone and begins no rotation.
LEMMA RequestElsewhere ==
    ASSUME RotationsHold, NEW r \in GrantCall, gcall'[r].pc \notin Turning,
           \A o \in GrantCall \ {r} : gcall'[o] = gcall[o], sess' = sess
    PROVE  RotationsHold'
BY DEF RotationsHold

\* What the brokers hold depends on the registry, the sessions and the turns.
LEMMA BrokersElsewhere ==
    ASSUME \A b \in Broker : BrokerHolds(brk[b]),
           brk' = brk, pub' = pub, grant \subseteq grant', sess' = sess,
           \A s \in Session : turn'[s].state = turn[s].state
    PROVE  \A b \in Broker : BrokerHolds(brk[b])'
BY DEF BrokerHolds

\* The steps of a request on the session it rotates.
LEMMA RotationStepsHold ==
    ASSUME RenderInv, NEW r \in GrantCall,
           \/ BeginRotation(r) \/ CancelActiveTurn(r) \/ SwapGeneration(r) \/ RotationFails(r)
    PROVE  RenderTypes' /\ RotationsHold' /\ \A b \in Broker : BrokerHolds(brk[b])'
<1>1. PICK q \in GrantRow : q = gcall[r]
    BY DEF RenderInv, GrantInv, GrantTypes
<1>2. /\ gcall \in [GrantCall -> GrantRow] /\ RenderTypes /\ RotationsHold
      /\ \A b \in Broker : BrokerHolds(brk[b])
    BY DEF RenderInv, GrantInv, GrantTypes
<1>3. q.s \in Session
  <2>1. q.pc \in HasSession
      BY <1>1 DEF BeginRotation, CancelActiveTurn, SwapGeneration, RotationFails, HasSession
  <2>2. q.s \in q.left /\ q.left \subseteq Session
      BY <1>1, <2>1, GrantRowFields DEF RenderInv, GrantInv, LeftAreThoseMissing
  <2> QED BY <2>2
<1>4. \A o \in GrantCall \ {r} : gcall'[o] = gcall[o]
    BY <1>2 DEF BeginRotation, CancelActiveTurn, SwapGeneration, RotationFails, Step, Reply
<1>5. brk' = brk /\ ui' = ui /\ pub' = pub /\ grant' = grant
    BY DEF BeginRotation, CancelActiveTurn, SwapGeneration, RotationFails, registry, surfaces
<1>6. PICK a \in SeatRow : a = sess[q.s]
    BY <1>2, <1>3 DEF RenderTypes
<1>7. CASE BeginRotation(r)
  <2>1. turn' = turn
      BY <1>7 DEF BeginRotation
  <2>2. CASE q.pc = "begin" /\ (a.state = "rotating" \/ a.gen = MaxGen)
    <3>1. gcall'[r].pc = "done" /\ sess' = sess
        BY <1>1, <1>2, <1>6, <1>7, <2>2 DEF BeginRotation, Reply, GrantRow
    <3>2. RenderTypes'
        BY <1>2, <1>5, <2>1, <3>1 DEF RenderTypes
    <3> QED BY <1>2, <1>4, <1>5, <2>1, <3>1, <3>2, RequestElsewhere, BrokersElsewhere DEF Turning
  <2>3. CASE ~ (a.state = "rotating" \/ a.gen = MaxGen)
    <3> DEFINE z == [a EXCEPT !.state = "rotating"]
    <3>1. z \in SeatRow /\ z.state = "rotating"
        BY DEF SeatRow
    <3>2. sess' = [sess EXCEPT ![q.s] = z] /\ ~ SessionLocked(q.s)
        BY <1>1, <1>2, <1>6, <1>7, <2>3 DEF BeginRotation, RenderTypes
    <3>3. gcall'[r].pc = "cancel" /\ gcall'[r].s = q.s
        BY <1>1, <1>2, <1>6, <1>7, <2>3 DEF BeginRotation, Step, GrantRow
    <3> HIDE DEF z
    <3>4. /\ sess' \in [Session -> SeatRow] /\ sess'[q.s] = z
          /\ \A s \in Session \ {q.s} : sess'[s] = sess[s]
        BY <1>2, <1>3, <3>1, <3>2 DEF RenderTypes
    <3>5. RenderTypes'
        BY <1>2, <1>5, <2>1, <3>4 DEF RenderTypes
    <3>6. \A o \in GrantCall : gcall[o].pc \in Turning => gcall[o].s # q.s
        BY <1>2, <1>6, <2>3 DEF RotationsHold
    <3>7. RotationsHold'
        BY <1>2, <1>3, <1>4, <3>1, <3>3, <3>4, <3>6 DEF RotationsHold
    <3>8. \A b \in Broker : brk[b].s = q.s => brk[b].pc # "insert"
        BY <3>2 DEF SessionLocked, lockBrokerAuthorityRows
    <3>9. \A b \in Broker : BrokerHolds(brk[b])'
        BY <1>2, <1>5, <2>1, <3>4, <3>8 DEF BrokerHolds
    <3> QED BY <3>5, <3>7, <3>9
  <2> QED BY <1>1, <1>7, <2>2, <2>3 DEF BeginRotation
<1>8. CASE CancelActiveTurn(r)
  <2>1. sess' = sess /\ gcall'[r].pc = "swap" /\ gcall'[r].s = q.s /\ gcall[r].pc = "cancel"
      BY <1>1, <1>2, <1>8 DEF CancelActiveTurn, Step, GrantRow
  <2>2. turn' \in [Session -> TurnRow] /\ \A s \in Session : turn'[s].state = turn[s].state
    <3>1. PICK t \in TurnRow : t = turn[q.s]
        BY <1>2, <1>3 DEF RenderTypes
    <3> DEFINE z == [t EXCEPT !.step = "cancelling"]
    <3>2. z \in TurnRow /\ z.state = t.state
        BY DEF TurnRow
    <3>3. turn' = turn \/ turn' = [turn EXCEPT ![q.s] = z]
        BY <1>1, <1>2, <1>8, <3>1 DEF CancelActiveTurn, RenderTypes
    <3> HIDE DEF z
    <3> QED BY <1>2, <1>3, <3>1, <3>2, <3>3 DEF RenderTypes
  <2>3. RotationsHold'
      BY <1>1, <1>2, <1>4, <2>1 DEF RotationsHold, Turning
  <2> QED BY <1>2, <1>5, <2>1, <2>2, <2>3, BrokersElsewhere DEF RenderTypes
<1>9. ASSUME NEW z \in SeatRow, sess' = [sess EXCEPT ![q.s] = z], turn' = turn,
             q.pc = "swap", gcall'[r].pc \notin Turning
      PROVE  RenderTypes' /\ RotationsHold' /\ \A b \in Broker : BrokerHolds(brk[b])'
  <2>1. sess' \in [Session -> SeatRow] /\ \A s \in Session \ {q.s} : sess'[s] = sess[s]
      BY <1>2, <1>3, <1>9 DEF RenderTypes
  <2>2. RenderTypes'
      BY <1>2, <1>5, <1>9, <2>1 DEF RenderTypes
  <2>3. \A o \in GrantCall \ {r} : gcall[o].pc \in Turning => gcall[o].s # q.s
      BY <1>1, <1>2, <1>9 DEF RotationsHold, Turning
  <2>4. RotationsHold'
      BY <1>2, <1>4, <1>9, <2>1, <2>3 DEF RotationsHold
  <2>5. sess[q.s].state = "rotating"
      BY <1>1, <1>2, <1>9 DEF RotationsHold, Turning
  <2>6. \A b \in Broker : brk[b].s = q.s => brk[b].pc # "insert"
      BY <1>2, <2>5 DEF BrokerHolds
  <2>7. \A b \in Broker : BrokerHolds(brk[b])'
      BY <1>2, <1>5, <1>9, <2>1, <2>6 DEF BrokerHolds
  <2> QED BY <2>2, <2>4, <2>7
<1>10. CASE SwapGeneration(r)
  <2> DEFINE z == [state |-> "active", gen |-> a.gen + 1, offers |-> q.offer]
  <2>1. z \in SeatRow
      BY DEF SeatRow, GrantRow
  <2>2. sess' = [sess EXCEPT ![q.s] = z] /\ turn' = turn /\ q.pc = "swap"
      BY <1>1, <1>2, <1>3, <1>6, <1>10 DEF SwapGeneration, RenderTypes
  <2>3. gcall'[r].pc = "record"
      BY <1>2, <1>10 DEF SwapGeneration, Step, GrantRow
  <2> QED BY <1>9, <2>1, <2>2, <2>3 DEF Turning
<1>11. CASE RotationFails(r)
  <2> DEFINE z == [a EXCEPT !.state = "active"]
  <2>1. z \in SeatRow
      BY DEF SeatRow
  <2>2. sess' = [sess EXCEPT ![q.s] = z] /\ turn' = turn /\ q.pc = "swap"
      BY <1>1, <1>2, <1>3, <1>6, <1>11 DEF RotationFails, RenderTypes
  <2>3. gcall'[r].pc = "done"
      BY <1>2, <1>11 DEF RotationFails, Reply, GrantRow
  <2> QED BY <1>9, <2>1, <2>2, <2>3 DEF Turning
<1> QED BY <1>7, <1>8, <1>10, <1>11

\* The other steps of a request: the registry and the grants change, the sessions do not.
LEMMA RequestStepsHold ==
    ASSUME RenderInv, NEW r \in GrantCall,
           \/ setCoworkerComponentGrant(r) \/ LookupPriorAudit(r) \/ setComponentGrant(r) \/ InsertGrant(r)
           \/ StartRotation(r) \/ AllRotated(r) \/ loadControlledComponentCandidates(r)
           \/ recordSessionRotationApplied(r)
    PROVE  RenderTypes' /\ RotationsHold' /\ \A b \in Broker : BrokerHolds(brk[b])'
<1>1. PICK q \in GrantRow : q = gcall[r]
    BY DEF RenderInv, GrantInv, GrantTypes
<1>2. /\ gcall \in [GrantCall -> GrantRow] /\ RenderTypes /\ RotationsHold
      /\ \A b \in Broker : BrokerHolds(brk[b])
    BY DEF RenderInv, GrantInv, GrantTypes
<1>3. ASSUME setCoworkerComponentGrant(r)
      PROVE  \E p : gcall' = [gcall EXCEPT ![r] = p] /\ p.pc \in {"lookup", "done"}
  <2>1. PICK k \in mix.keys, v \in Version, granted \in BOOLEAN :
          gcall' = [gcall EXCEPT ![r] = [NewGrantCall EXCEPT
                       !.key = k, !.v = v, !.granted = granted,
                       !.pc = IF v = code THEN "lookup" ELSE "done",
                       !.ans = IF v = code THEN "none" ELSE "error"]]
    <3> HIDE DEF NewGrantCall
    <3> QED BY <1>3, Zenon DEF setCoworkerComponentGrant
  <2> DEFINE p == [NewGrantCall EXCEPT !.key = k, !.v = v, !.granted = granted,
                       !.pc = IF v = code THEN "lookup" ELSE "done",
                       !.ans = IF v = code THEN "none" ELSE "error"]
  <2>2. p.pc \in {"lookup", "done"}
      BY DEF NewGrantCall
  <2> QED BY <2>1, <2>2
<1>4. /\ \A o \in GrantCall \ {r} : gcall'[o] = gcall[o]
      /\ brk' = brk /\ ui' = ui /\ sess' = sess /\ turn' = turn /\ (pub' = pub \/ pub' = code)
  <2>1. CASE setCoworkerComponentGrant(r)
    <3>1. brk' = brk /\ ui' = ui /\ sess' = sess /\ turn' = turn /\ pub' = code
      <4> HIDE DEF NewGrantCall
      <4> QED BY <2>1, Zenon DEF setCoworkerComponentGrant, surfaces
    <3> QED BY <1>2, <1>3, <2>1, <3>1
  <2>2. CASE LookupPriorAudit(r)
      BY <1>2, <2>2 DEF LookupPriorAudit, surfaces, registry, Step, Reply
  <2>3. CASE setComponentGrant(r)
      BY <1>2, <2>3 DEF setComponentGrant, surfaces, registry, applyComponentGrantChange, Step
  <2>4. CASE InsertGrant(r)
      BY <1>2, <2>4 DEF InsertGrant, surfaces, registry, applyComponentGrantChange, Reply
  <2>5. CASE StartRotation(r)
    <3>1. PICK z : gcall' = [gcall EXCEPT ![r].pc = "candidates", ![r].s = z]
        BY <2>5 DEF StartRotation
    <3>2. brk' = brk /\ ui' = ui /\ sess' = sess /\ turn' = turn /\ pub' = pub
        BY <2>5 DEF StartRotation, surfaces
    <3> QED BY <1>2, <3>1, <3>2
  <2>6. CASE AllRotated(r)
      BY <1>2, <2>6 DEF AllRotated, surfaces, registry, Reply
  <2>7. CASE loadControlledComponentCandidates(r)
      BY <1>2, <2>7 DEF loadControlledComponentCandidates, surfaces, registry
  <2>8. CASE recordSessionRotationApplied(r)
      BY <1>2, <2>8 DEF recordSessionRotationApplied, surfaces, registry
  <2> QED BY <2>1, <2>2, <2>3, <2>4, <2>5, <2>6, <2>7, <2>8
<1>5. gcall'[r].pc \notin Turning
  <2>1. CASE setCoworkerComponentGrant(r)
      BY <1>2, <1>3, <2>1 DEF Turning
  <2>2. CASE LookupPriorAudit(r)
      BY <1>2, <2>2 DEF LookupPriorAudit, Step, Reply, GrantRow, Turning
  <2>3. CASE setComponentGrant(r)
      BY <1>2, <2>3 DEF setComponentGrant, applyComponentGrantChange, Step, GrantRow, Turning
  <2>4. CASE InsertGrant(r)
      BY <1>2, <2>4 DEF InsertGrant, applyComponentGrantChange, Reply, GrantRow, Turning
  <2>5. CASE StartRotation(r)
    <3>1. PICK z : gcall' = [gcall EXCEPT ![r].pc = "candidates", ![r].s = z]
        BY <2>5 DEF StartRotation
    <3>2. gcall'[r].pc = "candidates"
        BY <1>2, <3>1 DEF GrantRow
    <3> QED BY <3>2 DEF Turning
  <2>6. CASE AllRotated(r)
      BY <1>2, <2>6 DEF AllRotated, Reply, GrantRow, Turning
  <2>7. CASE loadControlledComponentCandidates(r)
      BY <1>2, <2>7 DEF loadControlledComponentCandidates, GrantRow, Turning
  <2>8. CASE recordSessionRotationApplied(r)
      BY <1>2, <2>8 DEF recordSessionRotationApplied, GrantRow, Turning
  <2> QED BY <2>1, <2>2, <2>3, <2>4, <2>5, <2>6, <2>7, <2>8
<1>6. RotationsHold'
    BY <1>2, <1>3, <1>4, <1>5, RequestElsewhere
<1>7. pub' \in Nat
    BY <1>2, <1>4 DEF RenderTypes, RenderInv, GrantInv, GrantTypes, Version
<1>8. \/ pub' = pub /\ grant \subseteq grant'
      \/ ~ RegistryLocked
  <2>1. CASE setCoworkerComponentGrant(r) BY <2>1, Zenon DEF setCoworkerComponentGrant
  <2>2. CASE LookupPriorAudit(r) BY <2>2 DEF LookupPriorAudit, registry
  <2>3. CASE setComponentGrant(r) BY <2>3 DEF setComponentGrant, Revoked
  <2>4. CASE InsertGrant(r) BY <2>4 DEF InsertGrant
  <2>5. CASE StartRotation(r) BY <2>5 DEF StartRotation
  <2>6. CASE AllRotated(r) BY <2>6 DEF AllRotated, registry
  <2>7. CASE loadControlledComponentCandidates(r) BY <2>7 DEF loadControlledComponentCandidates, registry
  <2>8. CASE recordSessionRotationApplied(r) BY <2>8 DEF recordSessionRotationApplied
  <2> QED BY <2>1, <2>2, <2>3, <2>4, <2>5, <2>6, <2>7, <2>8
<1>9. ASSUME ~ RegistryLocked PROVE \A b \in Broker : BrokerHolds(brk[b])'
  <2>1. \A b \in Broker : brk[b].pc # "insert"
      BY <1>9 DEF RegistryLocked, lockBrokerAuthorityRows
  <2> QED BY <1>2, <1>4, <2>1 DEF BrokerHolds
<1>10. \A b \in Broker : BrokerHolds(brk[b])'
    BY <1>2, <1>4, <1>8, <1>9, BrokersElsewhere
<1> QED BY <1>2, <1>4, <1>6, <1>7, <1>10 DEF RenderTypes

\* A rotation for another reason finds the session active, and no broker at its insert.
LEMMA OtherRotationHolds ==
    ASSUME RenderInv, NEW s \in Session, OtherRotation(s)
    PROVE  RenderTypes' /\ RotationsHold' /\ \A b \in Broker : BrokerHolds(brk[b])'
<1>1. RenderTypes /\ RotationsHold /\ \A b \in Broker : BrokerHolds(brk[b])
    BY DEF RenderInv
<1>2. PICK a \in SeatRow : a = sess[s]
    BY <1>1 DEF RenderTypes
<1>3. PICK offers \in BOOLEAN, gen \in Nat : offers = hasActiveComponentGrant /\ gen = a.gen + 1
  <2>1. hasActiveComponentGrant \in BOOLEAN
      BY DEF hasActiveComponentGrant
  <2>2. a.gen + 1 \in Nat
      BY DEF SeatRow
  <2> QED BY <2>1, <2>2
<1> DEFINE z == [a EXCEPT !.gen = gen, !.offers = offers]
<1>4. z \in SeatRow
    BY DEF SeatRow
<1>5. /\ sess' = [sess EXCEPT ![s] = z] /\ gcall' = gcall /\ brk' = brk /\ turn' = turn
      /\ ui' = ui /\ pub' = pub /\ grant' = grant
    BY <1>1, <1>2, <1>3 DEF OtherRotation, RenderTypes, registry, surfaces
<1> HIDE DEF z
<1>6. sess' \in [Session -> SeatRow] /\ \A o \in Session \ {s} : sess'[o] = sess[o]
    BY <1>1, <1>4, <1>5 DEF RenderTypes
<1>7. \A r \in GrantCall : gcall[r].pc \in Turning => gcall[r].s # s
    BY <1>1 DEF RotationsHold, OtherRotation
<1>8. \A b \in Broker : brk[b].s = s => brk[b].pc # "insert"
    BY DEF OtherRotation, SessionLocked, lockBrokerAuthorityRows
<1>9. RenderTypes'
    BY <1>1, <1>5, <1>6 DEF RenderTypes
<1>10. RotationsHold'
    BY <1>1, <1>5, <1>6, <1>7 DEF RotationsHold
<1>11. \A b \in Broker : BrokerHolds(brk[b])'
    BY <1>1, <1>5, <1>6, <1>8 DEF BrokerHolds
<1> QED BY <1>9, <1>10, <1>11

\* Steps that leave all of it alone but the surfaces.
LEMMA SurfacesElsewhere ==
    ASSUME RenderInv, ui' \in [Call -> SurfaceRow],
           UNCHANGED <<pub, grant, sess, gcall, brk>>,
           turn' \in [Session -> TurnRow], \A s \in Session : turn'[s].state = turn[s].state
    PROVE  RenderTypes' /\ RotationsHold' /\ \A b \in Broker : BrokerHolds(brk[b])'
<1>1. RotationsHold'
    BY DEF RenderInv, RotationsHold
<1> QED BY <1>1, BrokersElsewhere DEF RenderInv, RenderTypes

\* The steps of a broker.
LEMMA BrokerStepHolds ==
    ASSUME RenderInv, NEW b \in Broker, BrokerStep(b)
    PROVE  RenderTypes' /\ RotationsHold' /\ \A o \in Broker : BrokerHolds(brk[o])'
<1>1. /\ mix \in Mixes /\ RenderTypes /\ RotationsHold /\ \A o \in Broker : BrokerHolds(brk[o])
    BY DEF RenderInv, GrantInv, GrantTypes
<1>2. PICK q \in CallerRow : q = brk[b]
    BY <1>1 DEF RenderTypes
<1>3. UNCHANGED <<pub, grant, sess, turn, gcall>>
  <2>1. CASE CheckArguments(b) BY <2>1 DEF CheckArguments, registry
  <2>2. CASE FindExisting(b) BY <2>2 DEF FindExisting, registry
  <2>3. CASE BindTurn(b) BY <2>3 DEF BindTurn, registry
  <2>4. CASE CheckBeforeCreate(b) BY <2>4 DEF CheckBeforeCreate, registry
  <2>5. CASE CommitInstance(b) BY <2>5 DEF CommitInstance, registry
  <2> QED BY <2>1, <2>2, <2>3, <2>4, <2>5 DEF BrokerStep
<1>4. RotationsHold'
    BY <1>1, <1>3 DEF RotationsHold
<1>5. ASSUME NEW p \in CallerRow, brk' = [brk EXCEPT ![b] = p], ui' \in [Call -> SurfaceRow], BrokerHolds(p)
      PROVE  RenderTypes' /\ \A o \in Broker : BrokerHolds(brk[o])'
  <2>1. brk' \in [Broker -> CallerRow] /\ brk'[b] = p /\ \A o \in Broker \ {b} : brk'[o] = brk[o]
      BY <1>1, <1>5 DEF RenderTypes
  <2>2. \A o \in Broker : BrokerHolds(brk'[o])
      BY <1>1, <1>5, <2>1
  <2>3. \A o \in Broker : BrokerHolds(brk[o])'
      BY <1>3, <2>2 DEF BrokerHolds
  <2> QED BY <1>1, <1>3, <1>5, <2>1, <2>3 DEF RenderTypes
<1>6. ASSUME NEW ans \in {"awaiting_component_input", "quarantined", "error"}, BrokerDone(b, ans),
             ui' \in [Call -> SurfaceRow]
      PROVE  RenderTypes' /\ \A o \in Broker : BrokerHolds(brk[o])'
  <2> DEFINE p == [q EXCEPT !.pc = "done", !.ans = ans]
  <2>1. p \in CallerRow /\ p.pc = "done"
      BY DEF CallerRow
  <2>2. brk' = [brk EXCEPT ![b] = p]
      BY <1>1, <1>2, <1>6 DEF BrokerDone, RenderTypes
  <2> HIDE DEF p
  <2> QED BY <1>5, <1>6, <2>1, <2>2 DEF BrokerHolds
<1>7. ASSUME NEW pc \in {"opened", "bound", "insert"}, brk' = [brk EXCEPT ![b].pc = pc], ui' = ui,
             q.s \in Session /\ q.call \in Call,
             pc \in {"bound", "insert"} => turn[q.s].state = "streaming",
             pc = "insert" => /\ pub = q.v /\ pub \in grant /\ sess[q.s].state = "active"
                              /\ sess[q.s].gen = q.gen /\ sess[q.s].offers
      PROVE  RenderTypes' /\ \A o \in Broker : BrokerHolds(brk[o])'
  <2> DEFINE p == [q EXCEPT !.pc = pc]
  <2>1. /\ p \in CallerRow /\ p.pc = pc /\ p.s = q.s /\ p.call = q.call /\ p.v = q.v /\ p.gen = q.gen
      BY DEF CallerRow
  <2>2. brk' = [brk EXCEPT ![b] = p]
      BY <1>1, <1>2, <1>7 DEF RenderTypes
  <2> HIDE DEF p
  <2>3. BrokerHolds(p)
      BY <1>7, <2>1 DEF BrokerHolds
  <2> QED BY <1>1, <1>5, <1>7, <2>1, <2>2, <2>3 DEF RenderTypes
<1>8. CASE CheckArguments(b)
  <2>1. PICK c \in Call, s \in Session, pc \in {"checked", "done"}, ans \in {"none", "quarantined"} :
          brk' = [brk EXCEPT ![b] = [NewBroker EXCEPT !.call = c, !.s = s, !.gen = sess[s].gen, !.v = pub,
                                                      !.pc = pc, !.ans = ans]]
    <3>1. mix.sessions \subseteq Session
        BY <1>1, MixParts
    <3> DEFINE may(s) == recheckBrokerComponentAuthority(s, sess[s].gen)
    <3>2. PICK c \in Call, s \in mix.sessions :
          brk' = [brk EXCEPT ![b] = [NewBroker EXCEPT
                     !.call = c, !.s = s, !.gen = sess[s].gen, !.v = pub,
                     !.pc = IF may(s) THEN "checked" ELSE "done",
                     !.ans = IF may(s) THEN "none" ELSE "quarantined"]]
      <4> HIDE DEF NewBroker
      <4> QED BY <1>8, Zenon DEF CheckArguments
    <3>3. PICK pc \in {"checked", "done"}, ans \in {"none", "quarantined"} :
             /\ pc = IF may(s) THEN "checked" ELSE "done"
             /\ ans = IF may(s) THEN "none" ELSE "quarantined"
        OBVIOUS
    <3> HIDE DEF NewBroker, may
    <3>4. s \in Session
        BY <3>1
    <3>5. brk' = [brk EXCEPT ![b] = [NewBroker EXCEPT !.call = c, !.s = s, !.gen = sess[s].gen, !.v = pub,
                                                      !.pc = pc, !.ans = ans]]
        BY <3>2, <3>3
    <3> QED BY <3>4, <3>5, Zenon
  <2>2. PICK gen \in Nat, v \in Nat : gen = sess[s].gen /\ v = pub
      BY <1>1 DEF RenderTypes, SeatRow
  <2> DEFINE p == [NewBroker EXCEPT !.call = c, !.s = s, !.gen = gen, !.v = v, !.pc = pc, !.ans = ans]
  <2>3. NewBroker \in CallerRow
      BY DEF NewBroker, CallerRow
  <2> HIDE DEF NewBroker
  <2>4. p \in CallerRow /\ p.pc = pc /\ p.s = s /\ p.call = c
      BY <2>3 DEF CallerRow
  <2>5. brk' = [brk EXCEPT ![b] = p]
      BY <2>1, <2>2
  <2> HIDE DEF p
  <2>6. BrokerHolds(p) /\ ui' = ui
      BY <1>8, <2>4 DEF BrokerHolds, CheckArguments, surfaces
  <2> QED BY <1>1, <1>4, <1>5, <2>4, <2>5, <2>6 DEF RenderTypes
<1>9. CASE FindExisting(b)
  <2>1. ui' = ui /\ q.pc = "checked" /\ ui \in [Call -> SurfaceRow] /\ BrokerHolds(q)
      BY <1>1, <1>2, <1>9 DEF FindExisting, surfaces, RenderTypes
  <2> QED BY <1>2, <1>4, <1>6, <1>7, <1>9, <2>1 DEF FindExisting, BrokerHolds
<1>10. CASE BindTurn(b)
  <2>1. ui' = ui /\ q.pc = "opened" /\ ui \in [Call -> SurfaceRow] /\ BrokerHolds(q)
      BY <1>1, <1>2, <1>10 DEF BindTurn, surfaces, RenderTypes
  <2> QED BY <1>2, <1>4, <1>6, <1>7, <1>10, <2>1 DEF BindTurn, BrokerHolds
<1>11. CASE CheckBeforeCreate(b)
  <2>1. ui' = ui /\ q.pc = "bound" /\ ui \in [Call -> SurfaceRow] /\ BrokerHolds(q)
      BY <1>1, <1>2, <1>11 DEF CheckBeforeCreate, surfaces, RenderTypes
  <2> QED BY <1>2, <1>4, <1>6, <1>7, <1>11, <2>1
          DEF CheckBeforeCreate, BrokerHolds, recheckBrokerComponentAuthority, hasActiveComponentGrant,
              loadComponentOfferContext
<1>12. CASE CommitInstance(b)
  <2>1. FinalizedInstance(q) \in SurfaceRow /\ q.call \in Call \cup {None} /\ ui \in [Call -> SurfaceRow]
      BY <1>1 DEF FinalizedInstance, SurfaceRow, CallerRow, Mode, RenderTypes
  <2>2. ui' \in [Call -> SurfaceRow]
    <3> HIDE DEF FinalizedInstance
    <3> QED BY <1>2, <1>12, <2>1 DEF CommitInstance
  <2> QED BY <1>4, <1>6, <1>12, <2>2 DEF CommitInstance
<1> QED BY <1>8, <1>9, <1>10, <1>11, <1>12, <1>4 DEF BrokerStep

\* What people do on the surfaces: a turn ends only when no broker is bound to it.
LEMMA InteractionStepHolds ==
    ASSUME RenderInv, InteractionStep
    PROVE  RenderTypes' /\ RotationsHold' /\ \A o \in Broker : BrokerHolds(brk[o])'
<1>1. /\ mix \in Mixes /\ RenderTypes /\ RotationsHold /\ \A o \in Broker : BrokerHolds(brk[o])
    BY DEF RenderInv, GrantInv, GrantTypes
<1>2. ASSUME UNCHANGED <<pub, grant, sess, gcall, brk, turn, ui>>
      PROVE  RenderTypes' /\ RotationsHold' /\ \A o \in Broker : BrokerHolds(brk[o])'
    BY <1>1, <1>2, SurfacesElsewhere DEF RenderTypes
<1>3. ASSUME NEW x \in Click, issueUiInteractionToken(x) PROVE UNCHANGED <<pub, grant, sess, gcall, brk, turn, ui>>
    BY <1>3 DEF issueUiInteractionToken, registry
<1>4. ASSUME NEW x \in Click, TokenLapses(x) PROVE UNCHANGED <<pub, grant, sess, gcall, brk, turn, ui>>
    BY <1>4 DEF TokenLapses, registry
<1>5. ASSUME NEW c \in Call, claimTurnQueueItem(c) PROVE UNCHANGED <<pub, grant, sess, gcall, brk, turn, ui>>
    BY <1>5 DEF claimTurnQueueItem, registry
<1>6. ASSUME NEW c \in Call, WorkerCommand(c) PROVE UNCHANGED <<pub, grant, sess, gcall, brk, turn, ui>>
    BY <1>6 DEF WorkerCommand, registry
<1>7. ASSUME NEW c \in Call, lockAgentTurnForCreate(c) PROVE UNCHANGED <<pub, grant, sess, gcall, brk, turn, ui>>
    BY <1>7 DEF lockAgentTurnForCreate, registry
<1>8. ASSUME NEW c \in Call, CreateContinuation(c) PROVE UNCHANGED <<pub, grant, sess, gcall, brk, turn, ui>>
    BY <1>8 DEF CreateContinuation, registry
<1>9. ASSUME NEW c \in Call, LateCreate(c) PROVE UNCHANGED <<pub, grant, sess, gcall, brk, turn, ui>>
    BY <1>9 DEF LateCreate, registry
<1>10. ASSUME NEW c \in Call, BindContinuation(c) PROVE UNCHANGED <<pub, grant, sess, gcall, brk, turn, ui>>
    BY <1>10 DEF BindContinuation, registry
<1>11. ASSUME NEW c \in Call, ReconcileContinuation(c) PROVE UNCHANGED <<pub, grant, sess, gcall, brk, turn, ui>>
    BY <1>11 DEF ReconcileContinuation, registry
<1>12. ASSUME NEW c \in Call, ContinuationEnds(c) PROVE UNCHANGED <<pub, grant, sess, gcall, brk, turn, ui>>
    BY <1>12 DEF ContinuationEnds, registry
<1>13. CASE archiveChannel
    BY <1>2, <1>13 DEF archiveChannel, registry, surfaces
<1>14. ASSUME NEW c \in Call, SeedSurface(c)
       PROVE  RenderTypes' /\ RotationsHold' /\ \A o \in Broker : BrokerHolds(brk[o])'
  <2>1. PICK s \in Session, mode \in Mode :
          ui' = [ui EXCEPT ![c] = [NoInstance EXCEPT !.status = "ready", !.mode = mode, !.s = s,
                                                     !.v = 1, !.gen = turn[s].gen]]
    <3>1. mix.sessions \subseteq Session /\ mix.modes \subseteq Mode
        BY <1>1, MixParts DEF Mode
    <3>2. PICK s \in mix.sessions, mode \in mix.modes :
          ui' = [ui EXCEPT ![c] = [NoInstance EXCEPT !.status = "ready", !.mode = mode, !.s = s,
                                                     !.v = 1, !.gen = turn[s].gen]]
      <4> HIDE DEF NoInstance
      <4> QED BY <1>14, Zenon DEF SeedSurface
    <3>3. s \in Session /\ mode \in Mode
        BY <3>1
    <3> HIDE DEF NoInstance
    <3> QED BY <3>2, <3>3, Zenon
  <2>2. PICK gen \in Nat : gen = turn[s].gen
      BY <1>1, ComponentAssumption DEF RenderTypes, TurnRow
  <2> DEFINE z == [NoInstance EXCEPT !.status = "ready", !.mode = mode, !.s = s, !.v = 1, !.gen = gen]
  <2>3. z \in SurfaceRow
    <3>1. NoInstance \in SurfaceRow BY SurfaceTyped
    <3> HIDE DEF NoInstance
    <3> QED BY <3>1 DEF SurfaceRow
  <2>4. ui' = [ui EXCEPT ![c] = z]
      BY <2>1, <2>2
  <2> HIDE DEF z
  <2>5. ui' \in [Call -> SurfaceRow]
      BY <1>1, <2>3, <2>4 DEF RenderTypes
  <2>6. UNCHANGED <<pub, grant, sess, gcall, brk, turn>>
      BY <1>14 DEF SeedSurface, registry
  <2> QED BY <1>1, <2>5, <2>6, SurfacesElsewhere DEF RenderTypes
<1>15. ASSUME NEW x \in Click, commitUiInteraction(x)
       PROVE  RenderTypes' /\ RotationsHold' /\ \A o \in Broker : BrokerHolds(brk[o])'
  <2> DEFINE c == inter[x].call
  <2>1. UNCHANGED <<pub, grant, sess, gcall, brk, turn>>
      BY <1>15 DEF commitUiInteraction, registry
  <2>2. ui' = ui \/ ui' = [ui EXCEPT ![c].state = @ + 1]
    <3>1. \/ UNCHANGED <<ui, act, intr, cont>>
          \/ CommitLocalState(c) \/ CommitServerRead(c) \/ CommitInterrupt(c, x)
        BY <1>15 DEF commitUiInteraction
    <3> QED BY <3>1 DEF CommitLocalState, CommitServerRead, CommitInterrupt
  <2>3. \A d \in Call : [ui[d] EXCEPT !.state = @ + 1] \in SurfaceRow
    <3> SUFFICES ASSUME NEW d \in Call PROVE [ui[d] EXCEPT !.state = @ + 1] \in SurfaceRow
        OBVIOUS
    <3>1. PICK q \in SurfaceRow : q = ui[d]
        BY <1>1 DEF RenderTypes
    <3>2. PICK n \in Nat : n = q.state + 1
        BY DEF SurfaceRow
    <3>3. [q EXCEPT !.state = n] \in SurfaceRow
        BY DEF SurfaceRow
    <3> QED BY <3>1, <3>2, <3>3
  <2>4. ui' \in [Call -> SurfaceRow]
      BY <1>1, <2>2, <2>3 DEF RenderTypes
  <2> QED BY <1>1, <2>1, <2>4, SurfacesElsewhere DEF RenderTypes
<1>16. ASSUME NEW s \in Session, requestRunStepStop(s) \/ TurnEnds(s)
       PROVE  RenderTypes' /\ RotationsHold' /\ \A o \in Broker : BrokerHolds(brk[o])'
  <2>1. UNCHANGED <<pub, grant, sess, gcall, brk, ui>>
      BY <1>16 DEF requestRunStepStop, TurnEnds, registry
  <2>2. PICK t \in TurnRow : t = turn[s]
      BY <1>1 DEF RenderTypes
  <2>3. CASE requestRunStepStop(s)
    <3> DEFINE z == [t EXCEPT !.step = "cancelling"]
    <3>1. z \in TurnRow /\ z.state = t.state
        BY DEF TurnRow
    <3>2. turn' = [turn EXCEPT ![s] = z]
        BY <1>1, <2>2, <2>3 DEF requestRunStepStop, RenderTypes
    <3> HIDE DEF z
    <3>3. turn' \in [Session -> TurnRow] /\ \A o \in Session : turn'[o].state = turn[o].state
        BY <1>1, <2>2, <3>1, <3>2 DEF RenderTypes
    <3> QED BY <1>1, <2>1, <3>3, SurfacesElsewhere DEF RenderTypes
  <2>4. CASE TurnEnds(s)
    <3> DEFINE z == [t EXCEPT !.state = "ended", !.step = "ended"]
    <3>1. z \in TurnRow
        BY DEF TurnRow
    <3>2. turn' = [turn EXCEPT ![s] = z]
        BY <1>1, <2>2, <2>4 DEF TurnEnds, RenderTypes
    <3> HIDE DEF z
    <3>3. turn' \in [Session -> TurnRow] /\ \A o \in Session \ {s} : turn'[o] = turn[o]
        BY <1>1, <3>1, <3>2 DEF RenderTypes
    <3>4. \A b \in Broker : brk[b].s = s => brk[b].pc \notin {"bound", "insert"}
        BY <2>4 DEF TurnEnds, TurnLocked
    <3>5. \A b \in Broker : BrokerHolds(brk[b])'
        BY <1>1, <2>1, <3>3, <3>4 DEF BrokerHolds
    <3>6. RotationsHold'
        BY <1>1, <2>1 DEF RotationsHold
    <3> QED BY <1>1, <2>1, <3>3, <3>5, <3>6 DEF RenderTypes
  <2> QED BY <1>16, <2>3, <2>4
<1> QED BY <1>2, <1>3, <1>4, <1>5, <1>6, <1>7, <1>8, <1>9, <1>10, <1>11, <1>12, <1>13, <1>14, <1>15, <1>16 DEF InteractionStep

\* A restart leaves no request and no broker at work.
LEMMA RestartHolds ==
    ASSUME RenderInv, ApiRestart
    PROVE  RenderTypes' /\ RotationsHold' /\ \A o \in Broker : BrokerHolds(brk[o])'
<1>1. RenderTypes /\ RotationsHold /\ gcall \in [GrantCall -> GrantRow]
    BY DEF RenderInv, GrantInv, GrantTypes
<1>2. pub' = pub /\ sess' = sess /\ turn' = turn /\ ui' = ui
    BY DEF ApiRestart
<1>3. ASSUME NEW b \in Broker PROVE brk'[b] \in CallerRow /\ brk'[b].pc \in {"new", "done"}
  <2>1. PICK q \in CallerRow : q = brk[b]
      BY <1>1 DEF RenderTypes
  <2>2. brk'[b] = IF q.pc = "new" THEN q ELSE [q EXCEPT !.pc = "done"]
      BY <2>1 DEF ApiRestart
  <2>3. [q EXCEPT !.pc = "done"] \in CallerRow /\ [q EXCEPT !.pc = "done"].pc = "done"
      BY DEF CallerRow
  <2> QED BY <2>2, <2>3
<1>4. brk' \in [Broker -> CallerRow]
  <2>1. brk' = [b \in Broker |-> brk'[b]]
      BY DEF ApiRestart
  <2> QED BY <1>3, <2>1
<1>5. ASSUME NEW r \in GrantCall PROVE gcall'[r].pc \notin Turning
  <2>1. PICK q \in GrantRow : q = gcall[r]
      BY <1>1
  <2>2. gcall'[r] = IF q.pc = "new" THEN q ELSE [q EXCEPT !.pc = "done"]
      BY <2>1 DEF ApiRestart
  <2>3. [q EXCEPT !.pc = "done"].pc = "done"
      BY DEF GrantRow
  <2> QED BY <2>2, <2>3 DEF Turning
<1>6. RotationsHold'
    BY <1>5 DEF RotationsHold
<1>7. \A o \in Broker : BrokerHolds(brk[o])'
    BY <1>3 DEF BrokerHolds
<1> QED BY <1>1, <1>2, <1>4, <1>6, <1>7 DEF RenderTypes

\* Every step keeps what ties a surface to the version and generation it was rendered under.
LEMMA RendersAreKept == RenderInv /\ [Next]_vars => RenderInv'
<1> SUFFICES ASSUME RenderInv, [Next]_vars
             PROVE  RenderTypes' /\ RotationsHold' /\ \A o \in Broker : BrokerHolds(brk[o])'
    BY GrantsAreKept DEF RenderInv
<1>1. ASSUME NEW r \in GrantCall, GrantStep(r)
      PROVE  RenderTypes' /\ RotationsHold' /\ \A o \in Broker : BrokerHolds(brk[o])'
    BY <1>1, RequestStepsHold, RotationStepsHold DEF GrantStep
<1>2. CASE UNCHANGED vars
    BY <1>2, SurfacesElsewhere DEF vars, registry, surfaces, RenderInv, RenderTypes
<1> QED BY <1>1, <1>2, OtherRotationHolds, BrokerStepHolds, InteractionStepHolds, RestartHolds DEF Next

\* Nothing is rendered in an initial state.
LEMMA RenderInit ==
    ASSUME Init
    PROVE  RenderInv
<1>1. GrantInv
    BY GrantInit
<1>2. NoInstance \in SurfaceRow /\ NewBroker \in CallerRow /\ NewBroker.pc = "new"
    BY SurfaceTyped DEF NewBroker, CallerRow
<1>3. mix.ready \in BOOLEAN /\ MaxGen \in Nat
    BY ComponentAssumption DEF Init
<1> HIDE DEF NoInstance, NewBroker
<1>4. RenderTypes
  <2>1. pub \in Nat BY DEF Init
  <2>2. sess \in [Session -> SeatRow] BY <1>3 DEF Init, SeatRow
  <2>3. turn \in [Session -> TurnRow] BY <1>3 DEF Init, TurnRow
  <2> QED BY <1>2, <2>1, <2>2, <2>3 DEF Init, RenderTypes
<1>5. RotationsHold
    BY DEF Init, RotationsHold, Turning, NewGrantCall
<1>6. \A b \in Broker : BrokerHolds(brk[b])
    BY <1>2 DEF Init, BrokerHolds
<1> QED BY <1>1, <1>4, <1>5, <1>6 DEF RenderInv

(* A component's surface comes into being only while the coworker may render it, whatever     *)
(* grants, revocations, publications, rotations and ends of turns the call races with         *)
(* (brokerComponentToolMcpCall).                                                              *)
THEOREM SurfacesHaveAuthority == Spec => RendersUnderAuthority
<1>1. RenderInv /\ [Next]_vars =>
        [\A c \in Call :
          /\ ui[c].status = "none" /\ ui'[c].status = "ready"
          /\ ui'[c].mode = "complete_component_interrupt"
          => /\ pub = ui'[c].v /\ pub \in grant
             /\ sess[ui'[c].s] = [state |-> "active", gen |-> ui'[c].gen, offers |-> TRUE]
             /\ turn[ui'[c].s].state = "streaming"]_vars
  <2> SUFFICES ASSUME RenderInv, Next, NEW c \in Call,
                      ui[c].status = "none", ui'[c].status = "ready",
                      ui'[c].mode = "complete_component_interrupt"
               PROVE  /\ pub = ui'[c].v /\ pub \in grant
                      /\ sess[ui'[c].s] = [state |-> "active", gen |-> ui'[c].gen, offers |-> TRUE]
                      /\ turn[ui'[c].s].state = "streaming"
      OBVIOUS
  <2>1. RenderTypes /\ mix \in Mixes
      BY DEF RenderInv, GrantInv, GrantTypes
  <2>2. ASSUME ui' = ui PROVE FALSE
      BY <2>2
  <2>3. ASSUME NEW b \in Broker, CommitInstance(b)
        PROVE  /\ pub = ui'[c].v /\ pub \in grant
               /\ sess[ui'[c].s] = [state |-> "active", gen |-> ui'[c].gen, offers |-> TRUE]
               /\ turn[ui'[c].s].state = "streaming"
    <3>1. PICK q \in CallerRow : q = brk[b] /\ BrokerHolds(q) /\ q.pc = "insert"
        BY <2>1, <2>3 DEF RenderTypes, RenderInv, CommitInstance
    <3>2. ui' = [ui EXCEPT ![q.call] = FinalizedInstance(q)] /\ q.call = c
        BY <2>1, <2>2, <2>3, <3>1 DEF CommitInstance, RenderTypes
    <3>3. ui'[c].v = q.v /\ ui'[c].s = q.s /\ ui'[c].gen = q.gen
        BY <2>1, <3>2 DEF FinalizedInstance, RenderTypes
    <3>4. PICK a \in SeatRow : a = sess[q.s]
        BY <2>1, <3>1 DEF RenderTypes, BrokerHolds
    <3>5. a = [state |-> a.state, gen |-> a.gen, offers |-> a.offers]
        BY DEF SeatRow
    <3>6. a.state = "active" /\ a.gen = q.gen /\ a.offers = TRUE
        BY <3>1, <3>4 DEF BrokerHolds, SeatRow
    <3>7. a = [state |-> "active", gen |-> q.gen, offers |-> TRUE]
        BY <3>5, <3>6
    <3>8. pub = q.v /\ pub \in grant /\ turn[q.s].state = "streaming"
        BY <3>1 DEF BrokerHolds
    <3> QED BY <3>3, <3>4, <3>7, <3>8
  <2>4. ASSUME NEW d \in Call, SeedSurface(d) PROVE FALSE
    <3>1. PICK s \in mix.sessions, mode \in mix.modes :
          ui' = [ui EXCEPT ![d] = [NoInstance EXCEPT !.status = "ready", !.mode = mode, !.s = s,
                                                     !.v = 1, !.gen = turn[s].gen]]
      <4> HIDE DEF NoInstance
      <4> QED BY <2>4, Zenon DEF SeedSurface
    <3>2. mode # "complete_component_interrupt"
        BY <2>1, <3>1, MixParts
    <3>3. ui'[c].mode = mode \/ ui'[c] = ui[c]
        BY <2>1, <3>1 DEF RenderTypes, NoInstance
    <3> QED BY <3>2, <3>3
  <2>5. ASSUME NEW x \in Click, commitUiInteraction(x) PROVE FALSE
    <3> DEFINE d == inter[x].call
    <3>1. ui' = ui \/ CommitLocalState(d) \/ CommitServerRead(d) \/ CommitInterrupt(d, x)
        BY <2>5 DEF commitUiInteraction
    <3>2. ui' = ui \/ ui' = [ui EXCEPT ![d].state = @ + 1]
        BY <3>1 DEF CommitLocalState, CommitServerRead, CommitInterrupt
    <3> QED BY <2>1, <3>2 DEF RenderTypes, SurfaceRow
  <2>6. ASSUME NEW r \in GrantCall, GrantStep(r) PROVE ui' = ui
    <3>1. CASE setCoworkerComponentGrant(r) BY <3>1, Zenon DEF setCoworkerComponentGrant, surfaces
    <3>2. CASE LookupPriorAudit(r) BY <3>2 DEF LookupPriorAudit, surfaces
    <3>3. CASE setComponentGrant(r) BY <3>3 DEF setComponentGrant, surfaces
    <3>4. CASE InsertGrant(r) BY <3>4 DEF InsertGrant, surfaces
    <3>5. CASE StartRotation(r) BY <3>5 DEF StartRotation, surfaces
    <3>6. CASE AllRotated(r) BY <3>6 DEF AllRotated, surfaces
    <3>7. CASE loadControlledComponentCandidates(r) BY <3>7 DEF loadControlledComponentCandidates, surfaces
    <3>8. CASE BeginRotation(r) BY <3>8 DEF BeginRotation, surfaces
    <3>9. CASE CancelActiveTurn(r) BY <3>9 DEF CancelActiveTurn, surfaces
    <3>10. CASE SwapGeneration(r) BY <3>10 DEF SwapGeneration, surfaces
    <3>11. CASE RotationFails(r) BY <3>11 DEF RotationFails, surfaces
    <3>12. CASE recordSessionRotationApplied(r) BY <3>12 DEF recordSessionRotationApplied, surfaces
    <3> QED BY <2>6, <3>1, <3>2, <3>3, <3>4, <3>5, <3>6, <3>7, <3>8, <3>9, <3>10, <3>11, <3>12 DEF GrantStep
  <2>7. ASSUME NEW s \in Session, OtherRotation(s) PROVE ui' = ui
      BY <2>7 DEF OtherRotation, surfaces
  <2>8. ASSUME NEW b \in Broker, BrokerStep(b), ~ CommitInstance(b) PROVE ui' = ui
    <3>1. CASE CheckArguments(b) BY <3>1 DEF CheckArguments, surfaces
    <3>2. CASE FindExisting(b) BY <3>2 DEF FindExisting, surfaces
    <3>3. CASE BindTurn(b) BY <3>3 DEF BindTurn, surfaces
    <3>4. CASE CheckBeforeCreate(b) BY <3>4 DEF CheckBeforeCreate, surfaces
    <3> QED BY <2>8, <3>1, <3>2, <3>3, <3>4 DEF BrokerStep
  <2>9. CASE InteractionStep
    <3>1. ASSUME NEW s \in Session, requestRunStepStop(s) \/ TurnEnds(s) PROVE ui' = ui
        BY <3>1 DEF requestRunStepStop, TurnEnds
    <3>2. ASSUME NEW x \in Click, issueUiInteractionToken(x) \/ TokenLapses(x) PROVE ui' = ui
        BY <3>2 DEF issueUiInteractionToken, TokenLapses
    <3>3. ASSUME NEW d \in Call,
                 \/ claimTurnQueueItem(d) \/ WorkerCommand(d) \/ lockAgentTurnForCreate(d)
                 \/ CreateContinuation(d) \/ LateCreate(d) \/ BindContinuation(d)
                 \/ ReconcileContinuation(d) \/ ContinuationEnds(d)
          PROVE  ui' = ui
        BY <3>3 DEF claimTurnQueueItem, WorkerCommand, lockAgentTurnForCreate, CreateContinuation,
                    LateCreate, BindContinuation, ReconcileContinuation, ContinuationEnds
    <3>4. archiveChannel => ui' = ui
        BY DEF archiveChannel, surfaces
    <3> QED BY <2>2, <2>4, <2>5, <2>9, <3>1, <3>2, <3>3, <3>4 DEF InteractionStep
  <2>10. ApiRestart => ui' = ui
      BY DEF ApiRestart
  <2> QED BY <2>2, <2>3, <2>6, <2>7, <2>8, <2>9, <2>10 DEF Next
<1> QED BY <1>1, RenderInit, RendersAreKept, PTL DEF Spec, RendersUnderAuthority

-----------------------------------------------------------------------------
(***************************************************************************)
(* Answers.  The invariant counts, for every surface, the interactions     *)
(* that succeeded on it, and follows the continuation of its answer from   *)
(* the queue to the provider: while the answer can still be sent it has    *)
(* not been, and once it was, nothing sends it again.                      *)
(***************************************************************************)

ClickRow == [state : {"none", "token_issued", "succeeded", "stale"}, call : Call \cup {None},
             key : Key \cup {None}, base : Nat, lapsed : BOOLEAN]

UseRow == [uses : Nat, revoked : BOOLEAN, reads : Nat]

AnswerRow == [item : {"none", "queued", "claimed"}, gen : Nat,
              turn : {"none", "acquiring", "creating", "uncertain", "streaming", "ended"},
              run : {"none", "claim", "lock", "create", "bind"}, sent : BOOLEAN]

AnswerTypes ==
    /\ inter \in [Click -> ClickRow] /\ act \in [Call -> UseRow] /\ intr \in [Call -> InterruptRow]
    /\ cont \in [Call -> AnswerRow] /\ remote \in [Call -> Nat]

\* The interactions of table I that succeeded on a surface, and the states they were issued for.
Done(I, c) == {x \in Click : I[x].call = c /\ I[x].state = "succeeded"}

Bases(I, c) == {I[x].base : x \in Done(I, c)}

Answered == {"resolved", "continued"}

\* A token is of a surface that exists.
TokensAreOfSurfaces(I, U) ==
    \A x \in Click : I[x].state # "none" => I[x].call \in Call /\ U[I[x].call].status = "ready"

\* Surface u, its grant a and its interrupt i, with the interactions D that succeeded on it,
\* issued for the states B.
SurfaceOK(u, a, i, D, B) ==
    /\ IsFiniteSet(D) /\ a.uses = Cardinality(D)
    /\ u.mode = "local_state" => u.state = Cardinality(D) /\ B = 0..(u.state - 1)
    /\ u.status = "none" => i.state = "none" /\ u.state = 0
    /\ i.state # "none" => u.mode = "complete_component_interrupt"
    /\ i.state \in Answered => D = {i.by}
    /\ u.mode = "complete_component_interrupt" /\ i.state \notin Answered => D = {}

\* Continuation k of an interrupt in state i, with m provider turns that carry the answer.
ContinuationOK(k, m, i) ==
    /\ i \notin Answered => k.item = "none"
    /\ k.item = "none" => k.turn = "none" /\ k.run = "none"
    /\ k.item = "queued" => k.turn = "none"
    /\ k.turn \in {"none", "acquiring"} => m = 0 /\ ~k.sent /\ k.run \notin {"create", "bind"}
    /\ k.run = "create" => m = 0 /\ ~k.sent
    /\ k.run = "bind" => m = 1
    /\ m \in {0, 1} /\ (k.sent => m = 0)
    /\ i = "continued" => m = 1

SurfacesOK == \A c \in Call : SurfaceOK(ui[c], act[c], intr[c], Done(inter, c), Bases(inter, c))

ContinuationsOK == \A c \in Call : ContinuationOK(cont[c], remote[c], intr[c].state)

AnswerInv ==
    /\ RenderInv /\ AnswerTypes /\ TokensAreOfSurfaces(inter, ui) /\ SurfacesOK /\ ContinuationsOK

AnswersOK == AnswerTypes /\ TokensAreOfSurfaces(inter, ui) /\ SurfacesOK /\ ContinuationsOK

\* Interactions that neither begin nor succeed leave what succeeded as it is.
LEMMA DoneKeeps ==
    ASSUME NEW I, NEW J, NEW c,
           \A x \in Click : /\ J[x].call = I[x].call /\ J[x].base = I[x].base
                            /\ J[x].state = "succeeded" <=> I[x].state = "succeeded"
    PROVE  Done(J, c) = Done(I, c) /\ Bases(J, c) = Bases(I, c)
BY DEF Done, Bases

\* A surface with nothing done to it.
LEMMA NothingDone ==
    ASSUME AnswersOK, NEW c \in Call, ui[c].status = "none"
    PROVE  Done(inter, c) = {} /\ Bases(inter, c) = {} /\ intr[c].state = "none" /\ act[c].uses = 0
<1>1. Done(inter, c) = {}
    BY DEF AnswersOK, TokensAreOfSurfaces, Done
<1>2. Bases(inter, c) = {}
    BY <1>1 DEF Bases
<1>3. intr[c].state = "none" /\ act[c].uses = Cardinality(Done(inter, c))
    BY DEF AnswersOK, SurfacesOK, SurfaceOK
<1> QED BY <1>1, <1>2, <1>3, FS_EmptySet

\* What a step that only runs continuations must show.
LEMMA ContinuationStepOK ==
    ASSUME AnswersOK, NEW c \in Call, NEW k \in AnswerRow, NEW m \in Nat, NEW i \in InterruptRow,
           UNCHANGED <<ui, act, inter>>,
           cont' = [cont EXCEPT ![c] = k], remote' = [remote EXCEPT ![c] = m],
           intr' = [intr EXCEPT ![c] = i],
           i = intr[c] \/ (i.by = intr[c].by /\ i.state = "continued" /\ intr[c].state = "resolved"),
           ContinuationOK(k, m, i.state)
    PROVE  AnswersOK'
<1>1. AnswerTypes'
    BY DEF AnswersOK, AnswerTypes
<1>2. TokensAreOfSurfaces(inter, ui)'
    BY DEF AnswersOK, TokensAreOfSurfaces
<1>3. /\ cont'[c] = k /\ remote'[c] = m /\ intr'[c] = i
      /\ \A d \in Call \ {c} : cont'[d] = cont[d] /\ remote'[d] = remote[d] /\ intr'[d] = intr[d]
    BY DEF AnswersOK, AnswerTypes
<1>4. ASSUME NEW d \in Call
      PROVE  SurfaceOK(ui[d], act[d], intr'[d], Done(inter, d), Bases(inter, d))
    BY <1>3 DEF AnswersOK, SurfacesOK, SurfaceOK, Answered
<1>5. SurfacesOK'
    BY <1>4 DEF SurfacesOK
<1>6. \A d \in Call : ContinuationOK(cont'[d], remote'[d], intr'[d].state)
    BY <1>3 DEF AnswersOK, ContinuationsOK
<1>7. ContinuationsOK'
    BY <1>6 DEF ContinuationsOK
<1> QED BY <1>1, <1>2, <1>5, <1>7 DEF AnswersOK

\* A step that withdraws what waits: interrupts become stale, tokens stale, grants revoked.
LEMMA WithdrawalOK ==
    ASSUME AnswersOK, UNCHANGED <<ui, cont, remote>>, AnswerTypes',
           \A x \in Click : /\ inter'[x].call = inter[x].call /\ inter'[x].base = inter[x].base
                            /\ \/ inter'[x].state = inter[x].state
                               \/ inter[x].state = "token_issued" /\ inter'[x].state = "stale",
           \A c \in Call : act'[c].uses = act[c].uses,
           \A c \in Call : \/ intr'[c] = intr[c]
                           \/ intr[c].state = "waiting" /\ intr'[c].state = "stale"
    PROVE  AnswersOK'
<1>1. TokensAreOfSurfaces(inter, ui)'
    BY DEF AnswersOK, TokensAreOfSurfaces
<1>2. \A c \in Call : Done(inter', c) = Done(inter, c) /\ Bases(inter', c) = Bases(inter, c)
    BY DoneKeeps
<1>3. ASSUME NEW c \in Call
      PROVE  SurfaceOK(ui[c], act'[c], intr'[c], Done(inter, c), Bases(inter, c))
    BY DEF AnswersOK, SurfacesOK, SurfaceOK, Answered
<1>4. SurfacesOK'
    BY <1>2, <1>3 DEF SurfacesOK
<1>5. ASSUME NEW c \in Call PROVE ContinuationOK(cont[c], remote[c], intr'[c].state)
    BY DEF AnswersOK, ContinuationsOK, ContinuationOK, Answered
<1>6. ContinuationsOK'
    BY <1>5 DEF ContinuationsOK
<1> QED BY <1>1, <1>4, <1>6 DEF AnswersOK

\* Steps that leave the surfaces alone.
LEMMA AnswersElsewhere ==
    ASSUME AnswersOK, UNCHANGED <<ui, act, inter, intr, cont, remote>>
    PROVE  AnswersOK'
<1>1. AnswerTypes'
    BY DEF AnswersOK, AnswerTypes
<1> QED BY <1>1, WithdrawalOK

\* A surface is created where there was none.
LEMMA SurfaceCreatedOK ==
    ASSUME AnswersOK, NEW c \in Call, ui \in [Call -> SurfaceRow], NEW u \in SurfaceRow,
           NEW i \in InterruptRow, ui[c].status = "none", u.status = "ready", u.state = 0,
           ui' = [ui EXCEPT ![c] = u], intr' = [intr EXCEPT ![c] = i], UNCHANGED <<act, inter, cont, remote>>,
           i.state = "none" \/ (i.state = "waiting" /\ u.mode = "complete_component_interrupt")
    PROVE  AnswersOK'
<1>1. AnswerTypes'
    BY DEF AnswersOK, AnswerTypes
<1>2. ui'[c] = u /\ intr'[c] = i /\ \A d \in Call \ {c} : ui'[d] = ui[d] /\ intr'[d] = intr[d]
    BY DEF AnswersOK, AnswerTypes
<1>3. TokensAreOfSurfaces(inter, ui)'
    BY <1>2 DEF AnswersOK, TokensAreOfSurfaces
<1>4. Done(inter, c) = {} /\ Bases(inter, c) = {} /\ intr[c].state = "none" /\ act[c].uses = 0
    BY NothingDone
<1>5. SurfaceOK(u, act[c], i, {}, {})
  <2>1. IsFiniteSet({}) /\ Cardinality({}) = 0 BY FS_EmptySet
  <2>2. 0..(0 - 1) = {} OBVIOUS
  <2> QED BY <1>4, <2>1, <2>2 DEF SurfaceOK, Answered
<1>6. \A d \in Call : SurfaceOK(ui'[d], act[d], intr'[d], Done(inter, d), Bases(inter, d))
    BY <1>2, <1>4, <1>5 DEF AnswersOK, SurfacesOK
<1>7. SurfacesOK'
    BY <1>6 DEF SurfacesOK
<1>8. ASSUME NEW d \in Call PROVE ContinuationOK(cont[d], remote[d], intr'[d].state)
    BY <1>2, <1>4 DEF AnswersOK, ContinuationsOK, ContinuationOK, Answered
<1>9. ContinuationsOK'
    BY <1>8 DEF ContinuationsOK
<1> QED BY <1>1, <1>3, <1>7, <1>9 DEF AnswersOK

\* The continuation's own steps.
LEMMA ContinuationStepsOK ==
    ASSUME AnswersOK, NEW c \in Call,
           \/ claimTurnQueueItem(c) \/ WorkerCommand(c) \/ lockAgentTurnForCreate(c)
           \/ CreateContinuation(c) \/ LateCreate(c) \/ BindContinuation(c)
           \/ ReconcileContinuation(c) \/ ContinuationEnds(c)
    PROVE  AnswersOK'
<1>1. PICK k \in AnswerRow, m \in Nat, i \in InterruptRow : k = cont[c] /\ m = remote[c] /\ i = intr[c]
    BY DEF AnswersOK, AnswerTypes
<1>2. ContinuationOK(k, m, i.state)
    BY <1>1 DEF AnswersOK, ContinuationsOK
<1>3. /\ cont \in [Call -> AnswerRow] /\ remote \in [Call -> Nat] /\ intr \in [Call -> InterruptRow]
      /\ remote = [remote EXCEPT ![c] = m] /\ intr = [intr EXCEPT ![c] = i]
    BY <1>1 DEF AnswersOK, AnswerTypes
<1>4. UNCHANGED <<ui, act, inter>>
    BY DEF claimTurnQueueItem, WorkerCommand, lockAgentTurnForCreate, CreateContinuation, LateCreate,
           BindContinuation, ReconcileContinuation, ContinuationEnds
<1>5. ASSUME NEW p \in AnswerRow, cont' = [cont EXCEPT ![c] = p], UNCHANGED <<remote, intr>>,
             ContinuationOK(p, m, i.state)
      PROVE  AnswersOK'
    BY <1>1, <1>3, <1>4, <1>5, ContinuationStepOK
<1>6. ASSUME NEW run \in {"none", "claim", "lock"}, cont' = Run(c, run), UNCHANGED <<remote, intr>>,
             run = "none" \/ k.item = "queued" \/ k.turn = "acquiring"
      PROVE  AnswersOK'
  <2> DEFINE p == [k EXCEPT !.run = run]
  <2>1. /\ p \in AnswerRow /\ p.run = run /\ p.item = k.item /\ p.turn = k.turn /\ p.sent = k.sent
      BY DEF AnswerRow
  <2>2. cont' = [cont EXCEPT ![c] = p]
      BY <1>1, <1>3, <1>6 DEF Run
  <2> HIDE DEF p
  <2>3. ContinuationOK(p, m, i.state)
      BY <1>2, <1>6, <2>1 DEF ContinuationOK
  <2> QED BY <1>5, <1>6, <2>1, <2>2, <2>3
<1>7. CASE claimTurnQueueItem(c)
  <2>1. CASE cont' = Run(c, "none")
      BY <1>6, <1>7, <2>1 DEF claimTurnQueueItem
  <2>2. CASE cont' # Run(c, "none")
    <3> DEFINE p == [k EXCEPT !.item = "claimed", !.turn = "acquiring", !.run = "lock"]
    <3>1. /\ p \in AnswerRow /\ p.run = "lock" /\ p.item = "claimed" /\ p.turn = "acquiring"
          /\ p.sent = k.sent
        BY DEF AnswerRow
    <3>2. cont' = [cont EXCEPT ![c] = p] /\ k.item = "queued"
        BY <1>1, <1>3, <1>7, <2>2 DEF claimTurnQueueItem
    <3> HIDE DEF p
    <3>3. ContinuationOK(p, m, i.state)
        BY <1>2, <3>1, <3>2 DEF ContinuationOK
    <3> QED BY <1>5, <1>7, <3>1, <3>2, <3>3 DEF claimTurnQueueItem
  <2> QED BY <2>1, <2>2
<1>8. CASE WorkerCommand(c)
    BY <1>1, <1>6, <1>8 DEF WorkerCommand
<1>9. CASE lockAgentTurnForCreate(c)
  <2>1. CASE k.turn # "acquiring"
      BY <1>1, <1>6, <1>9, <2>1 DEF lockAgentTurnForCreate
  <2>2. CASE k.turn = "acquiring"
    <3> DEFINE p == [k EXCEPT !.turn = "creating", !.run = "create"]
    <3>1. /\ p \in AnswerRow /\ p.run = "create" /\ p.item = k.item /\ p.turn = "creating"
          /\ p.sent = k.sent
        BY DEF AnswerRow
    <3>2. cont' = [cont EXCEPT ![c] = p]
        BY <1>1, <1>3, <1>9, <2>2 DEF lockAgentTurnForCreate
    <3> HIDE DEF p
    <3>3. ContinuationOK(p, m, i.state)
        BY <1>2, <2>2, <3>1 DEF ContinuationOK
    <3> QED BY <1>5, <1>9, <3>1, <3>2, <3>3 DEF lockAgentTurnForCreate
  <2> QED BY <2>1, <2>2
<1>10. CASE CreateContinuation(c)
  <2>1. k.run = "create" /\ intr' = intr
      BY <1>1, <1>10 DEF CreateContinuation
  <2>2. CASE cont' = Run(c, "bind") /\ remote' = [remote EXCEPT ![c] = @ + 1]
    <3> DEFINE p == [k EXCEPT !.run = "bind"]
    <3>1. p \in AnswerRow /\ p.run = "bind" /\ p.item = k.item /\ p.turn = k.turn /\ p.sent = k.sent
        BY DEF AnswerRow
    <3>2. m = 0 /\ 1 \in Nat
        BY <1>2, <2>1 DEF ContinuationOK
    <3>3. cont' = [cont EXCEPT ![c] = p] /\ remote' = [remote EXCEPT ![c] = 1]
        BY <1>1, <1>3, <2>2, <3>2 DEF Run
    <3> HIDE DEF p
    <3>4. ContinuationOK(p, 1, i.state)
        BY <1>2, <2>1, <3>1, <3>2 DEF ContinuationOK
    <3> QED BY <1>1, <1>3, <1>4, <2>1, <3>1, <3>2, <3>3, <3>4, ContinuationStepOK
  <2>3. ASSUME NEW late \in BOOLEAN, remote' = remote,
               cont' = [cont EXCEPT ![c].turn = markAgentTurnUncertain(@), ![c].run = "none", ![c].sent = late]
        PROVE  AnswersOK'
    <3>1. PICK t \in {"none", "acquiring", "creating", "uncertain", "streaming", "ended"} :
             t = markAgentTurnUncertain(k.turn)
        BY DEF markAgentTurnUncertain, AnswerRow
    <3> DEFINE p == [k EXCEPT !.turn = t, !.run = "none", !.sent = late]
    <3>2. p \in AnswerRow /\ p.run = "none" /\ p.item = k.item /\ p.turn = t /\ p.sent = late
        BY DEF AnswerRow
    <3>3. cont' = [cont EXCEPT ![c] = p]
        BY <1>1, <1>3, <2>3, <3>1
    <3> HIDE DEF p
    <3>4. ContinuationOK(p, m, i.state)
        BY <1>2, <2>1, <3>1, <3>2 DEF ContinuationOK, markAgentTurnUncertain
    <3> QED BY <1>5, <2>1, <2>3, <3>2, <3>3, <3>4
  <2> QED BY <1>10, <2>2, <2>3 DEF CreateContinuation
<1>11. CASE LateCreate(c)
  <2> DEFINE p == [k EXCEPT !.sent = FALSE]
  <2>1. p \in AnswerRow /\ p.run = k.run /\ p.item = k.item /\ p.turn = k.turn /\ p.sent = FALSE
      BY DEF AnswerRow
  <2>2. k.sent /\ m = 0 /\ 1 \in Nat
      BY <1>1, <1>2, <1>11 DEF ContinuationOK, LateCreate
  <2>3. cont' = [cont EXCEPT ![c] = p] /\ remote' = [remote EXCEPT ![c] = 1] /\ intr' = intr
      BY <1>1, <1>3, <1>11, <2>2 DEF LateCreate
  <2> HIDE DEF p
  <2>4. ContinuationOK(p, 1, i.state)
      BY <1>2, <2>1, <2>2 DEF ContinuationOK
  <2> QED BY <1>1, <1>3, <1>4, <2>1, <2>2, <2>3, <2>4, ContinuationStepOK
<1>12. ASSUME NEW run \in {"none", "claim", "lock", "create", "bind"}, Bound(c, run), remote' = remote,
              m = 1, run = "none" \/ run = k.run, k.turn \notin {"none", "acquiring"}
       PROVE  AnswersOK'
  <2> DEFINE p == [k EXCEPT !.turn = "streaming", !.run = run]
  <2>1. p \in AnswerRow /\ p.run = run /\ p.item = k.item /\ p.turn = "streaming" /\ p.sent = k.sent
      BY DEF AnswerRow
  <2>2. PICK s \in {"none", "waiting", "resolved", "continued", "stale"} :
           s = IF i.state = "resolved" THEN "continued" ELSE i.state
      BY DEF InterruptRow
  <2> DEFINE j == [i EXCEPT !.state = s]
  <2>3. j \in InterruptRow /\ j.state = s /\ j.by = i.by /\ (s = i.state => j = i)
      BY DEF InterruptRow
  <2>4. cont' = [cont EXCEPT ![c] = p] /\ intr' = [intr EXCEPT ![c] = j]
      BY <1>1, <1>3, <1>12, <2>2 DEF Bound
  <2> HIDE DEF p, j
  <2>5. ContinuationOK(p, m, j.state)
      BY <1>2, <1>12, <2>1, <2>2, <2>3 DEF ContinuationOK, Answered
  <2>6. j = intr[c] \/ (j.by = intr[c].by /\ j.state = "continued" /\ intr[c].state = "resolved")
      BY <1>1, <2>2, <2>3
  <2>7. remote' = [remote EXCEPT ![c] = m]
      BY <1>3, <1>12
  <2> QED BY <1>4, <2>1, <2>3, <2>4, <2>5, <2>6, <2>7, ContinuationStepOK
<1>13. ASSUME NEW run \in {"none", "claim", "lock", "create", "bind"}, UNCHANGED <<remote, intr>>,
              NEW t \in {"uncertain", "ended"}, k.turn \notin {"none", "acquiring"},
              run = "none" \/ run = k.run, cont' = [cont EXCEPT ![c].turn = t, ![c].run = run]
       PROVE  AnswersOK'
  <2> DEFINE p == [k EXCEPT !.turn = t, !.run = run]
  <2>1. p \in AnswerRow /\ p.run = run /\ p.item = k.item /\ p.turn = t /\ p.sent = k.sent
      BY DEF AnswerRow
  <2>2. cont' = [cont EXCEPT ![c] = p]
      BY <1>1, <1>3, <1>13
  <2> HIDE DEF p
  <2>3. ContinuationOK(p, m, i.state)
      BY <1>2, <1>13, <2>1 DEF ContinuationOK
  <2> QED BY <1>5, <1>13, <2>1, <2>2, <2>3
<1>14. /\ k.item = "none" => k.turn = "none"
       /\ k.run \in {"none", "claim", "lock", "create", "bind"}
       /\ k.run = "bind" => m = 1 /\ k.turn \notin {"none", "acquiring"}
    BY <1>2 DEF ContinuationOK, AnswerRow
<1>15. ASSUME NEW t \in {"uncertain", "ended"}, cont' = [cont EXCEPT ![c].turn = t]
       PROVE  cont' = [cont EXCEPT ![c].turn = t, ![c].run = k.run]
  <2>1. [k EXCEPT !.turn = t] = [k EXCEPT !.turn = t, !.run = k.run]
      BY DEF AnswerRow
  <2> QED BY <1>1, <1>3, <1>15, <2>1
<1>16. CASE BindContinuation(c)
  <2>1. k.run = "bind" /\ m = 1 /\ remote' = remote /\ k.turn \notin {"none", "acquiring"}
      BY <1>1, <1>14, <1>16 DEF BindContinuation
  <2>2. CASE k.turn = "creating"
      BY <1>1, <1>12, <1>16, <2>1, <2>2 DEF BindContinuation
  <2>3. CASE k.turn # "creating"
    <3>1. /\ cont' = [cont EXCEPT ![c].turn = markAgentTurnUncertain(@), ![c].run = "none"]
          /\ intr' = intr
        BY <1>1, <1>16, <2>3 DEF BindContinuation
    <3>2. PICK t \in {"uncertain", "ended"} : t = markAgentTurnUncertain(k.turn)
        BY <2>1, <2>3 DEF markAgentTurnUncertain, AnswerRow
    <3>3. cont' = [cont EXCEPT ![c].turn = t, ![c].run = "none"]
        BY <1>1, <1>3, <3>1, <3>2
    <3> QED BY <1>13, <2>1, <3>1, <3>3
  <2> QED BY <2>2, <2>3
<1>17. CASE ReconcileContinuation(c)
  <2>1. k.turn \in {"creating", "uncertain"} /\ remote' = remote
      BY <1>1, <1>17 DEF ReconcileContinuation
  <2>2. CASE m = 1
      BY <1>1, <1>12, <1>14, <1>17, <2>1, <2>2 DEF ReconcileContinuation
  <2>3. CASE m # 1
    <3>1. cont' = [cont EXCEPT ![c].turn = "uncertain"] /\ intr' = intr
        BY <1>1, <1>17, <2>3 DEF ReconcileContinuation, NothingInHistory
    <3> QED BY <1>13, <1>14, <1>15, <2>1, <3>1
  <2> QED BY <2>2, <2>3
<1>18. CASE ContinuationEnds(c)
  <2>1. k.turn = "streaming" /\ cont' = [cont EXCEPT ![c].turn = "ended"] /\ UNCHANGED <<remote, intr>>
      BY <1>1, <1>18 DEF ContinuationEnds
  <2> QED BY <1>13, <1>14, <1>15, <2>1
<1> QED BY <1>7, <1>8, <1>9, <1>10, <1>11, <1>16, <1>17, <1>18

\* A token's interaction in the table: issued, lapsed, refused or committed.
LEMMA ClicksOf ==
    ASSUME AnswersOK, NEW x \in Click, NEW z \in ClickRow, inter' = [inter EXCEPT ![x] = z]
    PROVE  /\ inter' \in [Click -> ClickRow] /\ inter'[x] = z
           /\ \A y \in Click \ {x} : inter'[y] = inter[y]
BY DEF AnswersOK, AnswerTypes

\* An interaction that is not yet, and does not now become, a success.
LEMMA UnsuccessfulOK ==
    ASSUME AnswersOK, NEW x \in Click, NEW z \in ClickRow, inter' = [inter EXCEPT ![x] = z],
           UNCHANGED <<ui, act, intr, cont, remote>>,
           inter[x].state # "succeeded", z.state # "succeeded",
           z.call \in Call, ui[z.call].status = "ready"
    PROVE  AnswersOK'
<1>1. /\ inter' \in [Click -> ClickRow] /\ inter'[x] = z
      /\ \A y \in Click \ {x} : inter'[y] = inter[y]
    BY ClicksOf
<1>2. AnswerTypes'
    BY <1>1 DEF AnswersOK, AnswerTypes
<1>3. TokensAreOfSurfaces(inter, ui)'
    BY <1>1 DEF AnswersOK, TokensAreOfSurfaces
<1>4. ASSUME NEW c \in Call PROVE Done(inter', c) = Done(inter, c) /\ Bases(inter', c) = Bases(inter, c)
  <2>1. Done(inter', c) = Done(inter, c) /\ x \notin Done(inter, c)
      BY <1>1 DEF Done
  <2>2. \A y \in Done(inter, c) : inter'[y] = inter[y]
      BY <1>1, <2>1 DEF Done
  <2> QED BY <2>1, <2>2 DEF Bases
<1>5. SurfacesOK'
    BY <1>4 DEF AnswersOK, SurfacesOK
<1>6. ContinuationsOK'
    BY DEF AnswersOK, ContinuationsOK
<1> QED BY <1>2, <1>3, <1>5, <1>6 DEF AnswersOK

\* An interaction succeeds: it is one more on its surface, issued for its present state.
LEMMA SuccessOK ==
    ASSUME AnswersOK, ui \in [Call -> SurfaceRow], NEW x \in Click, commitUiInteraction(x),
           evaluateUiInteractionCommitCas(x)
    PROVE  AnswersOK'
<1>1. PICK c \in Call, t \in ClickRow : c = inter[x].call /\ t = inter[x] /\ ui[c].status = "ready"
    BY DEF AnswersOK, AnswerTypes, TokensAreOfSurfaces, commitUiInteraction
<1>2. PICK u \in SurfaceRow, a \in UseRow, i \in InterruptRow, k \in AnswerRow :
         u = ui[c] /\ a = act[c] /\ i = intr[c] /\ k = cont[c]
    BY DEF AnswersOK, AnswerTypes
<1> DEFINE D == Done(inter, c)
           B == Bases(inter, c)
           z == [t EXCEPT !.state = "succeeded"]
<1>3. SurfaceOK(u, a, i, D, B) /\ ContinuationOK(k, remote[c], i.state)
    BY <1>2 DEF AnswersOK, SurfacesOK, ContinuationsOK
<1>4. z \in ClickRow /\ z.state = "succeeded" /\ z.call = c /\ z.base = t.base
    BY <1>1 DEF ClickRow
<1>5. /\ inter[x].state = "token_issued" /\ inter' = [inter EXCEPT ![x] = z]
      /\ CommitLocalState(c) \/ CommitServerRead(c) \/ CommitInterrupt(c, x)
      /\ remote' = remote /\ u.state = t.base
    BY <1>1, <1>2 DEF commitUiInteraction, evaluateUiInteractionCommitCas, AnswersOK, AnswerTypes
<1> HIDE DEF z
<1>6. /\ inter' \in [Click -> ClickRow] /\ inter'[x] = z
      /\ \A y \in Click \ {x} : inter'[y] = inter[y]
    BY <1>4, <1>5, ClicksOf
<1>7. x \notin D /\ Done(inter', c) = D \cup {x} /\ Bases(inter', c) = B \cup {u.state}
  <2>1. x \notin D /\ Done(inter', c) = D \cup {x}
      BY <1>1, <1>4, <1>5, <1>6 DEF Done
  <2>2. \A y \in D : inter'[y] = inter[y]
      BY <1>6, <2>1 DEF Done
  <2>3. Bases(inter', c) = {inter'[y].base : y \in D \cup {x}} /\ inter'[x].base = u.state
      BY <1>4, <1>5, <1>6, <2>1 DEF Bases
  <2>4. B = {inter[y].base : y \in D}
      BY DEF Bases
  <2> HIDE DEF D, B
  <2> QED BY <2>1, <2>2, <2>3, <2>4
<1>8. ASSUME NEW d \in Call \ {c}
      PROVE  Done(inter', d) = Done(inter, d) /\ Bases(inter', d) = Bases(inter, d)
  <2>1. Done(inter', d) = Done(inter, d) /\ x \notin Done(inter, d)
      BY <1>1, <1>4, <1>6 DEF Done
  <2>2. \A y \in Done(inter, d) : inter'[y] = inter[y]
      BY <1>6, <2>1 DEF Done
  <2> QED BY <2>1, <2>2 DEF Bases
<1>9. /\ IsFiniteSet(D \cup {x}) /\ Cardinality(D \cup {x}) = Cardinality(D) + 1
      /\ Cardinality(D) \in Nat /\ a.uses = Cardinality(D)
    BY <1>3, <1>7, FS_AddElement, FS_CardinalityType DEF SurfaceOK
<1> HIDE DEF D, B
<1>10. ASSUME NEW v \in SurfaceRow, NEW b \in UseRow, NEW j \in InterruptRow, NEW l \in AnswerRow,
              ui' = [ui EXCEPT ![c] = v], act' = [act EXCEPT ![c] = b],
              intr' = [intr EXCEPT ![c] = j], cont' = [cont EXCEPT ![c] = l],
              v.status = "ready",
              SurfaceOK(v, b, j, D \cup {x}, B \cup {u.state}), ContinuationOK(l, remote[c], j.state)
       PROVE  AnswersOK'
  <2>1. AnswerTypes'
      BY <1>5, <1>6, <1>10 DEF AnswersOK, AnswerTypes
  <2>2. /\ ui'[c] = v /\ act'[c] = b /\ intr'[c] = j /\ cont'[c] = l
        /\ \A d \in Call \ {c} : /\ ui'[d] = ui[d] /\ act'[d] = act[d] /\ intr'[d] = intr[d]
                                 /\ cont'[d] = cont[d]
      BY <1>10 DEF AnswersOK, AnswerTypes
  <2>3. TokensAreOfSurfaces(inter, ui)'
      BY <1>4, <1>6, <1>10, <2>2 DEF AnswersOK, TokensAreOfSurfaces
  <2>4. \A d \in Call : SurfaceOK(ui'[d], act'[d], intr'[d], Done(inter', d), Bases(inter', d))
      BY <1>7, <1>8, <1>10, <2>2 DEF AnswersOK, SurfacesOK
  <2>5. \A d \in Call : ContinuationOK(cont'[d], remote'[d], intr'[d].state)
      BY <1>5, <1>10, <2>2 DEF AnswersOK, ContinuationsOK
  <2>6. SurfacesOK' /\ ContinuationsOK'
      BY <2>4, <2>5 DEF SurfacesOK, ContinuationsOK
  <2> QED BY <2>1, <2>3, <2>6 DEF AnswersOK
<1>11. PICK n \in Nat : n = a.uses + 1
    BY DEF UseRow
<1>12. /\ ui = [ui EXCEPT ![c] = u] /\ intr = [intr EXCEPT ![c] = i] /\ cont = [cont EXCEPT ![c] = k]
       /\ act \in [Call -> UseRow] /\ intr \in [Call -> InterruptRow] /\ cont \in [Call -> AnswerRow]
    BY <1>2 DEF AnswersOK, AnswerTypes
<1>13. CASE CommitLocalState(c)
  <2>1. PICK m \in Nat : m = u.state + 1
      BY DEF SurfaceRow
  <2> DEFINE v == [u EXCEPT !.state = m]
             b == [a EXCEPT !.uses = n]
  <2>2. v \in SurfaceRow /\ v.status = u.status /\ v.mode = u.mode /\ v.state = m
      BY DEF SurfaceRow
  <2>3. b \in UseRow /\ b.uses = n
      BY DEF UseRow
  <2>4. /\ ui' = [ui EXCEPT ![c] = v] /\ act' = [act EXCEPT ![c] = b] /\ UNCHANGED <<intr, cont>>
        /\ u.mode = "local_state"
      BY <1>2, <1>11, <1>12, <1>13, <2>1 DEF CommitLocalState
  <2> HIDE DEF v, b
  <2>5. u.state \in Nat /\ u.state = Cardinality(D) /\ B = 0..(u.state - 1) /\ i.state = "none"
      BY <1>3, <2>4 DEF SurfaceOK, SurfaceRow, InterruptRow
  <2>6. B \cup {u.state} = 0..(m - 1)
      BY <2>1, <2>5
  <2>7. SurfaceOK(v, b, i, D \cup {x}, B \cup {u.state})
      BY <1>1, <1>2, <1>9, <1>11, <2>1, <2>2, <2>3, <2>4, <2>5, <2>6 DEF SurfaceOK, Answered
  <2>8. v.status = "ready" /\ intr' = [intr EXCEPT ![c] = i] /\ cont' = [cont EXCEPT ![c] = k]
      BY <1>1, <1>2, <1>12, <2>2, <2>4
  <2> QED BY <1>3, <1>10, <2>2, <2>3, <2>4, <2>7, <2>8
<1>14. CASE CommitServerRead(c)
  <2>1. PICK m \in Nat : m = a.reads + 1
      BY DEF UseRow
  <2> DEFINE b == [a EXCEPT !.uses = n, !.reads = m]
  <2>2. b \in UseRow /\ b.uses = n
      BY DEF UseRow
  <2>3. act' = [act EXCEPT ![c] = b] /\ UNCHANGED <<ui, intr, cont>> /\ u.mode = "server_read"
      BY <1>2, <1>11, <1>12, <1>14, <2>1 DEF CommitServerRead
  <2> HIDE DEF b
  <2>4. i.state = "none"
      BY <1>3, <2>3 DEF SurfaceOK, InterruptRow
  <2>5. SurfaceOK(u, b, i, D \cup {x}, B \cup {u.state})
      BY <1>1, <1>2, <1>9, <1>11, <2>2, <2>3, <2>4 DEF SurfaceOK, Answered
  <2>6. /\ u.status = "ready" /\ ui' = [ui EXCEPT ![c] = u] /\ intr' = [intr EXCEPT ![c] = i]
        /\ cont' = [cont EXCEPT ![c] = k]
      BY <1>1, <1>2, <1>12, <2>3
  <2> QED BY <1>3, <1>10, <2>2, <2>3, <2>5, <2>6
<1>15. CASE CommitInterrupt(c, x)
  <2> DEFINE b == [a EXCEPT !.uses = n]
             j == [state |-> "resolved", by |-> x]
             l == [k EXCEPT !.item = "queued", !.gen = u.gen, !.run = "claim"]
  <2>1. b \in UseRow /\ b.uses = n
      BY DEF UseRow
  <2>2. j \in InterruptRow /\ j.state = "resolved" /\ j.by = x
      BY DEF InterruptRow
  <2>3. u.gen \in Nat
      BY DEF SurfaceRow
  <2>4. l \in AnswerRow /\ l.item = "queued" /\ l.run = "claim" /\ l.turn = k.turn /\ l.sent = k.sent
      BY <2>3 DEF AnswerRow
  <2>5. /\ act' = [act EXCEPT ![c] = b] /\ intr' = [intr EXCEPT ![c] = j]
        /\ cont' = [cont EXCEPT ![c] = l] /\ ui' = ui
        /\ u.mode = "complete_component_interrupt" /\ i.state = "waiting"
      BY <1>2, <1>11, <1>12, <1>15
         DEF CommitInterrupt, InterruptOpen, enqueueComponentInterruptContinuationInTx
  <2> HIDE DEF b, j, l
  <2>6. D = {} /\ k.item = "none" /\ k.turn = "none" /\ remote[c] = 0 /\ ~ k.sent
      BY <1>3, <2>5 DEF SurfaceOK, ContinuationOK, Answered
  <2>7. SurfaceOK(u, b, j, D \cup {x}, B \cup {u.state})
      BY <1>1, <1>2, <1>9, <1>11, <2>1, <2>2, <2>5, <2>6 DEF SurfaceOK, Answered
  <2>8. ContinuationOK(l, remote[c], j.state)
      BY <2>2, <2>4, <2>6 DEF ContinuationOK, Answered
  <2>9. u.status = "ready" /\ ui' = [ui EXCEPT ![c] = u]
      BY <1>1, <1>2, <1>12, <2>5
  <2> QED BY <1>10, <2>1, <2>2, <2>4, <2>5, <2>7, <2>8, <2>9
<1> QED BY <1>5, <1>13, <1>14, <1>15

\* A token is issued, lapses, is refused or succeeds.
LEMMA ClickStepsOK ==
    ASSUME AnswersOK, mix \in Mixes, ui \in [Call -> SurfaceRow], NEW x \in Click,
           issueUiInteractionToken(x) \/ TokenLapses(x) \/ commitUiInteraction(x)
    PROVE  AnswersOK'
<1>1. PICK t \in ClickRow : t = inter[x]
    BY DEF AnswersOK, AnswerTypes
<1>2. inter \in [Click -> ClickRow] /\ TokensAreOfSurfaces(inter, ui)
    BY DEF AnswersOK, AnswerTypes
<1>3. CASE issueUiInteractionToken(x)
  <2>1. PICK c \in Call, key \in Key :
          /\ IssueAdmitted(c)
          /\ inter' = [inter EXCEPT ![x] = [state |-> "token_issued", call |-> c, key |-> key,
                                            base |-> ui[c].state, lapsed |-> FALSE]]
    <3>1. mix.keys \subseteq Key BY MixParts
    <3> QED BY <1>3, <3>1 DEF issueUiInteractionToken
  <2> DEFINE z == [state |-> "token_issued", call |-> c, key |-> key, base |-> ui[c].state, lapsed |-> FALSE]
  <2>2. z \in ClickRow
      BY DEF ClickRow, SurfaceRow
  <2>3. UNCHANGED <<ui, act, intr, cont, remote>> /\ inter[x].state = "none"
      BY <1>3 DEF issueUiInteractionToken
  <2>4. ui[c].status = "ready"
      BY <2>1 DEF IssueAdmitted
  <2> QED BY <2>1, <2>2, <2>3, <2>4, UnsuccessfulOK
<1>4. CASE TokenLapses(x)
  <2> DEFINE z == [t EXCEPT !.lapsed = TRUE]
  <2>1. z \in ClickRow /\ z.state = t.state /\ z.call = t.call
      BY DEF ClickRow
  <2>2. /\ UNCHANGED <<ui, act, intr, cont, remote>> /\ t.state = "token_issued"
        /\ inter' = [inter EXCEPT ![x] = z]
      BY <1>1, <1>2, <1>4 DEF TokenLapses
  <2>3. t.call \in Call /\ ui[t.call].status = "ready"
      BY <1>1, <1>2, <2>2 DEF TokensAreOfSurfaces
  <2> HIDE DEF z
  <2> QED BY <1>1, <2>1, <2>2, <2>3, UnsuccessfulOK
<1>5. CASE commitUiInteraction(x) /\ ~ evaluateUiInteractionCommitCas(x)
  <2> DEFINE z == [t EXCEPT !.state = "stale"]
  <2>1. z \in ClickRow /\ z.state = "stale" /\ z.call = t.call
      BY DEF ClickRow
  <2>2. /\ UNCHANGED <<ui, act, intr, cont, remote>> /\ t.state = "token_issued"
        /\ inter' = [inter EXCEPT ![x] = z]
      BY <1>1, <1>2, <1>5 DEF commitUiInteraction
  <2>3. t.call \in Call /\ ui[t.call].status = "ready"
      BY <1>1, <1>2, <2>2 DEF TokensAreOfSurfaces
  <2> HIDE DEF z
  <2> QED BY <1>1, <2>1, <2>2, <2>3, UnsuccessfulOK
<1> QED BY <1>3, <1>4, <1>5, SuccessOK

\* Interrupts of C are withdrawn with their grants and tokens.
LEMMA StaleWaitingOK ==
    ASSUME AnswersOK, UNCHANGED <<ui, cont, remote>>, NEW C \in SUBSET Call,
           \A c \in C : intr[c].state = "waiting",
           staleWaitingUiComponentInterruptsForRunStep(C)
    PROVE  AnswersOK'
<1>1. AnswerTypes
    BY DEF AnswersOK
<1>2. ASSUME NEW c \in Call
      PROVE  /\ intr'[c] \in InterruptRow /\ act'[c] \in UseRow /\ act'[c].uses = act[c].uses
             /\ intr'[c] = intr[c] \/ (intr[c].state = "waiting" /\ intr'[c].state = "stale")
  <2>1. PICK i \in InterruptRow, a \in UseRow : i = intr[c] /\ a = act[c]
      BY <1>1 DEF AnswerTypes
  <2>2. /\ intr'[c] = IF c \in C THEN [i EXCEPT !.state = "stale"] ELSE i
        /\ act'[c] = IF c \in C THEN [a EXCEPT !.revoked = TRUE] ELSE a
      BY <2>1 DEF staleWaitingUiComponentInterruptsForRunStep
  <2>3. [i EXCEPT !.state = "stale"] \in InterruptRow /\ [i EXCEPT !.state = "stale"].state = "stale"
      BY DEF InterruptRow
  <2>4. [a EXCEPT !.revoked = TRUE] \in UseRow /\ [a EXCEPT !.revoked = TRUE].uses = a.uses
      BY DEF UseRow
  <2> QED BY <2>1, <2>2, <2>3, <2>4
<1>3. ASSUME NEW x \in Click
      PROVE  /\ inter'[x] \in ClickRow
             /\ inter'[x].call = inter[x].call /\ inter'[x].base = inter[x].base
             /\ \/ inter'[x].state = inter[x].state
                \/ inter[x].state = "token_issued" /\ inter'[x].state = "stale"
  <2>1. PICK t \in ClickRow : t = inter[x]
      BY <1>1 DEF AnswerTypes
  <2>2. inter'[x] = IF Withdrawn(x, C) THEN [t EXCEPT !.state = "stale"] ELSE t
      BY <2>1 DEF staleWaitingUiComponentInterruptsForRunStep
  <2> DEFINE z == [t EXCEPT !.state = "stale"]
  <2>3. z \in ClickRow /\ z.state = "stale" /\ z.call = t.call /\ z.base = t.base
      BY DEF ClickRow
  <2>4. Withdrawn(x, C) => t.state = "token_issued"
      BY <2>1 DEF Withdrawn
  <2> HIDE DEF z
  <2>5. inter'[x] = t \/ (inter'[x] = z /\ t.state = "token_issued")
      BY <2>2, <2>4 DEF z
  <2> QED BY <2>1, <2>3, <2>5
<1>4. /\ intr' = [c \in Call |-> intr'[c]] /\ act' = [c \in Call |-> act'[c]]
      /\ inter' = [x \in Click |-> inter'[x]]
    BY DEF staleWaitingUiComponentInterruptsForRunStep
<1>5. AnswerTypes'
    BY <1>1, <1>2, <1>3, <1>4 DEF AnswerTypes
<1> QED BY <1>2, <1>3, <1>5, WithdrawalOK

\* The steps of a grant request: a restriction withdraws what waits.
LEMMA GrantStepsOK ==
    ASSUME AnswersOK, NEW r \in GrantCall, GrantStep(r)
    PROVE  AnswersOK'
<1>1. \A s : \A c \in OpenOn(s) : intr[c].state = "waiting"
    BY DEF OpenOn
<1>2. \A s : OpenOn(s) \in SUBSET Call
    BY DEF OpenOn
<1>3. CASE CancelActiveTurn(r)
  <2>1. UNCHANGED <<ui, cont, remote>>
      BY <1>3 DEF CancelActiveTurn
  <2>2. UNCHANGED <<intr, act, inter>> \/ staleWaitingUiComponentInterruptsForRunStep(OpenOn(gcall[r].s))
      BY <1>3 DEF CancelActiveTurn
  <2> QED BY <1>1, <1>2, <2>1, <2>2, StaleWaitingOK, AnswersElsewhere
<1>4. CASE SwapGeneration(r)
  <2>1. UNCHANGED <<ui, act, inter, cont, remote>>
      BY <1>4 DEF SwapGeneration
  <2>2. ASSUME NEW c \in Call
        PROVE  /\ intr'[c] \in InterruptRow
               /\ intr'[c] = intr[c] \/ (intr[c].state = "waiting" /\ intr'[c].state = "stale")
    <3>1. PICK i \in InterruptRow : i = intr[c]
        BY DEF AnswersOK, AnswerTypes
    <3>2. intr'[c] = i \/ (i.state = "waiting" /\ intr'[c] = [i EXCEPT !.state = "stale"])
        BY <1>4, <3>1 DEF SwapGeneration
    <3>3. [i EXCEPT !.state = "stale"] \in InterruptRow /\ [i EXCEPT !.state = "stale"].state = "stale"
        BY DEF InterruptRow
    <3> QED BY <3>1, <3>2, <3>3
  <2>3. intr' = [c \in Call |-> intr'[c]]
      BY <1>4 DEF SwapGeneration
  <2>4. AnswerTypes'
      BY <2>1, <2>2, <2>3 DEF AnswersOK, AnswerTypes
  <2> QED BY <2>1, <2>2, <2>4, WithdrawalOK
<1>5. ASSUME UNCHANGED surfaces PROVE AnswersOK'
    BY <1>5, AnswersElsewhere DEF surfaces
<1>6. CASE setCoworkerComponentGrant(r)
  <2>1. UNCHANGED surfaces
      BY <1>6, Zenon DEF setCoworkerComponentGrant
  <2> QED BY <1>5, <2>1
<1>7. CASE LookupPriorAudit(r) BY <1>5, <1>7 DEF LookupPriorAudit
<1>8. CASE setComponentGrant(r) BY <1>5, <1>8 DEF setComponentGrant
<1>9. CASE InsertGrant(r) BY <1>5, <1>9 DEF InsertGrant
<1>10. CASE StartRotation(r) BY <1>5, <1>10 DEF StartRotation
<1>11. CASE AllRotated(r) BY <1>5, <1>11 DEF AllRotated
<1>12. CASE loadControlledComponentCandidates(r) BY <1>5, <1>12 DEF loadControlledComponentCandidates
<1>13. CASE BeginRotation(r) BY <1>5, <1>13 DEF BeginRotation
<1>14. CASE RotationFails(r) BY <1>5, <1>14 DEF RotationFails
<1>15. CASE recordSessionRotationApplied(r) BY <1>5, <1>15 DEF recordSessionRotationApplied
<1> QED BY <1>3, <1>4, <1>6, <1>7, <1>8, <1>9, <1>10, <1>11, <1>12, <1>13, <1>14, <1>15 DEF GrantStep

\* Surfaces come from a broker's commit or from a fixture.
LEMMA CreationStepsOK ==
    ASSUME AnswersOK, RenderInv,
           \/ \E b \in Broker : BrokerStep(b)
           \/ \E c \in Call : SeedSurface(c)
    PROVE  AnswersOK'
<1>1. /\ ui \in [Call -> SurfaceRow] /\ brk \in [Broker -> CallerRow] /\ mix \in Mixes
      /\ turn \in [Session -> TurnRow] /\ intr \in [Call -> InterruptRow]
    BY DEF RenderInv, RenderTypes, GrantInv, GrantTypes, AnswersOK, AnswerTypes
<1>2. ASSUME NEW b \in Broker, CommitInstance(b) PROVE AnswersOK'
  <2>1. PICK q \in CallerRow : q = brk[b] /\ q.pc = "insert" /\ BrokerHolds(q)
      BY <1>1, <1>2 DEF RenderInv, CommitInstance
  <2>2. PICK c \in Call : c = q.call
      BY <2>1 DEF BrokerHolds
  <2>3. UNCHANGED <<act, inter, cont, remote>>
      BY <1>2 DEF CommitInstance
  <2>4. CASE ui[c].status = "none"
    <3> DEFINE u == FinalizedInstance(q)
    <3>1. u \in SurfaceRow /\ u.status = "ready" /\ u.state = 0 /\ u.mode = "complete_component_interrupt"
        BY DEF FinalizedInstance, SurfaceRow, CallerRow, Mode
    <3>2. PICK i \in InterruptRow : i = intr[c]
        BY <1>1
    <3> DEFINE j == [i EXCEPT !.state = "waiting"]
    <3>3. j \in InterruptRow /\ j.state = "waiting"
        BY DEF InterruptRow
    <3>4. ui' = [ui EXCEPT ![c] = u]
      <4> HIDE DEF u
      <4> QED BY <1>2, <2>1, <2>2, <2>4 DEF CommitInstance, u
    <3>5. intr' = [intr EXCEPT ![c] = j]
        BY <1>1, <1>2, <2>1, <2>2, <2>4, <3>2 DEF CommitInstance, setupInteractiveBrokerArtifacts
    <3> HIDE DEF u, j
    <3> QED BY <1>1, <2>3, <2>4, <3>1, <3>3, <3>4, <3>5, SurfaceCreatedOK
  <2>5. CASE ui[c].status # "none"
      BY <1>2, <2>1, <2>2, <2>3, <2>5, AnswersElsewhere DEF CommitInstance
  <2> QED BY <2>4, <2>5
<1>3. ASSUME NEW b \in Broker, BrokerStep(b), ~ CommitInstance(b) PROVE AnswersOK'
  <2>1. UNCHANGED surfaces
    <3>1. CASE CheckArguments(b) BY <3>1, Zenon DEF CheckArguments
    <3>2. CASE FindExisting(b) BY <3>2 DEF FindExisting
    <3>3. CASE BindTurn(b) BY <3>3 DEF BindTurn
    <3>4. CASE CheckBeforeCreate(b) BY <3>4 DEF CheckBeforeCreate
    <3> QED BY <1>3, <3>1, <3>2, <3>3, <3>4 DEF BrokerStep
  <2> QED BY <2>1, AnswersElsewhere DEF surfaces
<1>4. ASSUME NEW c \in Call, SeedSurface(c) PROVE AnswersOK'
  <2>1. mix.sessions \subseteq Session /\ mix.modes \subseteq Mode
      BY <1>1, MixParts DEF Mode
  <2>2. PICK s \in mix.sessions, mode \in mix.modes :
          ui' = [ui EXCEPT ![c] = [NoInstance EXCEPT !.status = "ready", !.mode = mode, !.s = s,
                                                     !.v = 1, !.gen = turn[s].gen]]
    <3> HIDE DEF NoInstance
    <3> QED BY <1>4, Zenon DEF SeedSurface
  <2>3. PICK gen \in Nat : gen = turn[s].gen
      BY <1>1, <2>1, ComponentAssumption DEF TurnRow
  <2> DEFINE u == [NoInstance EXCEPT !.status = "ready", !.mode = mode, !.s = s, !.v = 1, !.gen = gen]
  <2>4. u \in SurfaceRow /\ u.status = "ready" /\ u.state = 0
    <3>1. NoInstance \in SurfaceRow /\ NoInstance.state = 0
        BY SurfaceTyped DEF NoInstance
    <3> HIDE DEF NoInstance
    <3>2. s \in Session /\ mode \in Mode
        BY <2>1
    <3> QED BY <3>1, <3>2 DEF SurfaceRow
  <2>5. ui' = [ui EXCEPT ![c] = u]
      BY <2>2, <2>3
  <2>6. UNCHANGED <<act, inter, cont, remote, intr>> /\ ui[c].status = "none"
      BY <1>4, Zenon DEF SeedSurface
  <2> HIDE DEF u
  <2>7. PICK i \in InterruptRow : i = intr[c] /\ i.state = "none" /\ intr' = [intr EXCEPT ![c] = i]
      BY <1>1, <2>6, NothingDone
  <2> QED BY <1>1, <2>4, <2>5, <2>6, <2>7, SurfaceCreatedOK
<1> QED BY <1>2, <1>3, <1>4

\* A restart stops the runs of the continuations.
LEMMA RestartOK ==
    ASSUME AnswersOK, ApiRestart
    PROVE  AnswersOK'
<1>1. UNCHANGED <<ui, act, intr, inter, remote>>
    BY DEF ApiRestart
<1>2. ASSUME NEW c \in Call
      PROVE  cont'[c] \in AnswerRow /\ ContinuationOK(cont'[c], remote[c], intr[c].state)
  <2>1. PICK k \in AnswerRow : k = cont[c]
      BY DEF AnswersOK, AnswerTypes
  <2> DEFINE p == [k EXCEPT !.run = "none"]
  <2>2. p \in AnswerRow /\ p.run = "none" /\ p.item = k.item /\ p.turn = k.turn /\ p.sent = k.sent
      BY DEF AnswerRow
  <2>3. cont'[c] = p
      BY <2>1 DEF ApiRestart
  <2> HIDE DEF p
  <2>4. ContinuationOK(k, remote[c], intr[c].state)
      BY <2>1 DEF AnswersOK, ContinuationsOK
  <2>5. ContinuationOK(p, remote[c], intr[c].state)
      BY <2>2, <2>4 DEF ContinuationOK
  <2> QED BY <2>2, <2>3, <2>5
<1>3. cont' = [c \in Call |-> cont'[c]]
    BY DEF ApiRestart
<1>4. AnswerTypes'
    BY <1>1, <1>2, <1>3 DEF AnswersOK, AnswerTypes
<1>5. TokensAreOfSurfaces(inter, ui)' /\ SurfacesOK'
    BY <1>1 DEF AnswersOK, TokensAreOfSurfaces, SurfacesOK
<1>6. ContinuationsOK'
    BY <1>1, <1>2 DEF ContinuationsOK
<1> QED BY <1>4, <1>5, <1>6 DEF AnswersOK

\* Every step keeps what ties interrupts, interactions and continuation items together.
LEMMA AnswersAreKept == AnswerInv /\ [Next]_vars => AnswerInv'
<1> SUFFICES ASSUME AnswerInv, [Next]_vars PROVE AnswersOK'
    BY RendersAreKept DEF AnswerInv, AnswersOK
<1>1. RenderInv /\ AnswersOK /\ mix \in Mixes /\ ui \in [Call -> SurfaceRow]
    BY DEF AnswerInv, AnswersOK, RenderInv, RenderTypes, GrantInv, GrantTypes
<1>2. ASSUME UNCHANGED surfaces PROVE AnswersOK'
    BY <1>1, <1>2, AnswersElsewhere DEF surfaces
<1>3. ASSUME NEW s \in Session, OtherRotation(s) PROVE AnswersOK'
    BY <1>2, <1>3 DEF OtherRotation
<1>4. ASSUME UNCHANGED vars PROVE AnswersOK'
    BY <1>2, <1>4 DEF vars
<1>5. ASSUME NEW s \in Session, requestRunStepStop(s) \/ TurnEnds(s) PROVE AnswersOK'
  <2>1. OpenOn(s) \in SUBSET Call /\ \A c \in OpenOn(s) : intr[c].state = "waiting"
      BY DEF OpenOn
  <2>2. UNCHANGED <<ui, cont, remote>>
      BY <1>5 DEF requestRunStepStop, TurnEnds
  <2>3. UNCHANGED <<intr, act, inter>> \/ staleWaitingUiComponentInterruptsForRunStep(OpenOn(s))
      BY <1>5 DEF requestRunStepStop, TurnEnds
  <2> QED BY <1>1, <2>1, <2>2, <2>3, StaleWaitingOK, AnswersElsewhere
<1>6. CASE InteractionStep
    BY <1>1, <1>2, <1>5, <1>6, ClickStepsOK, CreationStepsOK, ContinuationStepsOK
       DEF InteractionStep, archiveChannel
<1> QED BY <1>1, <1>3, <1>4, <1>6, GrantStepsOK, CreationStepsOK, RestartOK DEF Next

\* Nothing is asked or answered in an initial state.
LEMMA AnswerInit ==
    ASSUME Init
    PROVE  AnswerInv
<1>1. RenderInv
    BY RenderInit
<1>2. NoInteraction \in ClickRow /\ NoInteraction.state = "none"
    BY DEF NoInteraction, ClickRow
<1>3. /\ NoInstance.status = "none" /\ NoInstance.state = 0 /\ NoInstance.mode = "local_state"
    BY DEF NoInstance
<1> HIDE DEF NoInteraction, NoInstance
<1>4. AnswerTypes
  <2>1. inter \in [Click -> ClickRow] BY <1>2 DEF Init
  <2>2. act \in [Call -> UseRow] BY DEF Init, UseRow
  <2>3. intr \in [Call -> InterruptRow] BY DEF Init, InterruptRow
  <2>4. cont \in [Call -> AnswerRow] BY DEF Init, AnswerRow
  <2>5. remote \in [Call -> Nat] BY DEF Init
  <2> QED BY <2>1, <2>2, <2>3, <2>4, <2>5 DEF AnswerTypes
<1>5. TokensAreOfSurfaces(inter, ui)
    BY <1>2 DEF Init, TokensAreOfSurfaces
<1>6. ASSUME NEW c \in Call
      PROVE  SurfaceOK(ui[c], act[c], intr[c], Done(inter, c), Bases(inter, c))
  <2>1. Done(inter, c) = {}
      BY <1>2 DEF Init, Done
  <2>2. Bases(inter, c) = {}
      BY <2>1 DEF Bases
  <2>3. IsFiniteSet({}) /\ Cardinality({}) = 0 /\ 0..(0 - 1) = {}
      BY FS_EmptySet
  <2> QED BY <1>3, <2>1, <2>2, <2>3 DEF Init, SurfaceOK, Answered
<1>7. ASSUME NEW c \in Call PROVE ContinuationOK(cont[c], remote[c], intr[c].state)
    BY DEF Init, ContinuationOK, Answered
<1> QED BY <1>1, <1>4, <1>5, <1>6, <1>7 DEF AnswerInv, SurfacesOK, ContinuationsOK

(* An interrupt is answered at most once: by the one interaction it records, in at most one   *)
(* provider turn, however often the interaction is repeated, the continuation is run again,   *)
(* its create times out or its process dies; a withdrawn interrupt is never answered          *)
(* (commitUiInteraction, enqueueComponentInterruptContinuationInTx and the runner).           *)
THEOREM AnswersAreGivenOnce == Spec => []AnsweredOnce
<1>1. AnswerInv => AnsweredOnce
  <2> SUFFICES ASSUME AnswerInv, NEW c \in Call, ui[c].mode = "complete_component_interrupt"
               PROVE  /\ IF intr[c].state \in Answered THEN Done(inter, c) = {intr[c].by}
                         ELSE Done(inter, c) = {} /\ cont[c].item = "none"
                      /\ remote[c] + (IF cont[c].sent THEN 1 ELSE 0) <= 1
                      /\ intr[c].state = "continued" => remote[c] = 1
      BY DEF AnsweredOnce, Done, Answered
  <2>1. SurfaceOK(ui[c], act[c], intr[c], Done(inter, c), Bases(inter, c))
      BY DEF AnswerInv, SurfacesOK
  <2>2. ContinuationOK(cont[c], remote[c], intr[c].state)
      BY DEF AnswerInv, ContinuationsOK
  <2> QED BY <2>1, <2>2 DEF SurfaceOK, ContinuationOK
<1> QED BY <1>1, AnswerInit, AnswersAreKept, PTL DEF Spec

(* No state update of a surface is lost, and no use of its grant goes uncounted, for every    *)
(* number of people clicking at once (evaluateUiInteractionCommitCas).                        *)
THEOREM UpdatesAreKept == Spec => []NoLostStateUpdate
<1>1. AnswerInv => NoLostStateUpdate
  <2> SUFFICES ASSUME AnswerInv, NEW c \in Call
               PROVE  /\ act[c].uses = Cardinality(Done(inter, c))
                      /\ ui[c].mode = "local_state" => /\ ui[c].state = Cardinality(Done(inter, c))
                                                       /\ Bases(inter, c) = 0..(ui[c].state - 1)
      BY DEF NoLostStateUpdate, Done, Bases
  <2> QED BY DEF AnswerInv, SurfacesOK, SurfaceOK
<1> QED BY <1>1, AnswerInit, AnswersAreKept, PTL DEF Spec
====
