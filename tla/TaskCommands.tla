---------------------------- MODULE TaskCommands ---------------------------
(***************************************************************************)
(* Tasks, written by people and by coworkers through their TaskRecord tool.*)
(***************************************************************************)
EXTENDS MembershipCommands

CONSTANTS
    Goal,      \* the statuses a task update may ask for
    Expected   \* the revisions a caller may expect

ASSUME GoalAssumption == Goal \subseteq TaskStatus /\ Expected \subseteq Nat

canTransitionTask(from, to) == to \in TASK_TRANSITIONS[from]

\* authorizeCoworkerTaskCreate and authorizeCoworkerTaskUpdate: an active grant on the channel.
Authorized(by, c) == by = NoRequest \/ c \in cow[by].grants

\* executeTaskRecordTool is called from a turn of a session.
executeTaskRecordTool(by) == \E c \in Channel : csess[c][by].state = "ready"

createTask(r) == \E k \in Key, c \in Channel, w \in Coworker \cup {NoRequest} :
    Arrive(r, [NewReq EXCEPT !.kind = "task.create", !.key = k, !.ch = c, !.w = w], "claim")

\* The grant is read before the key is claimed.
createTaskForCoworker(r) == \E k \in Key, c \in Channel, by \in Coworker :
    /\ executeTaskRecordTool(by)
    /\ Arrive(r, [NewReq EXCEPT !.kind = "task.create", !.key = k, !.ch = c, !.by = by],
           IF cow[by].status = "active" /\ Authorized(by, c) THEN "claim" ELSE "done")

updateTask(r) == \E k \in Key, t \in ObjId, st \in Goal, rev \in Expected :
    /\ task[t].status # "absent"
    /\ Arrive(r, [NewReq EXCEPT !.kind = "task.update", !.key = k, !.obj = t, !.st = st,
                                !.rev = rev, !.ch = task[t].chan], "claim")

updateTaskForCoworker(r) ==
    \E k \in Key, t \in ObjId, st \in Goal, rev \in Expected, by \in Coworker :
    /\ task[t].status # "absent" /\ executeTaskRecordTool(by)
    /\ Arrive(r, [NewReq EXCEPT !.kind = "task.update", !.key = k, !.obj = t, !.st = st,
                                !.rev = rev, !.ch = task[t].chan, !.by = by],
              IF cow[by].status = "active" THEN "claim" ELSE "done")

\* The reload of an update answers with a task that has reached the revision expected.
ReloadedTask(r) ==
    LET res == Receipt(r).res IN
    IF req[r].kind = "task.create"
    THEN {v \in {res} : task[v.obj].status # "absent" /\ task[v.obj].chan = req[r].ch}
    ELSE {v \in {res} : task[v.obj].rev >= req[r].rev}

ReloadTask(r) ==
    /\ req[r].pc = "reload" /\ req[r].kind \in {"task.create", "task.update"}
    /\ IF Receipt(r) = NoReceipt THEN Refuse(r)
       ELSE Replayed(r, req[r].kind = "task.update" /\ Receipt(r).res.obj # req[r].obj,
                     ReloadedTask(r))
    /\ UNCHANGED <<tables, lock, mix>>

\* validateTaskToolGenerationGuardSql: a coworker's tool offer may have been withdrawn.
OfferHolds(r) == IF req[r].by = NoRequest THEN {TRUE} ELSE BOOLEAN

WriteNewTask(r) ==
    LET q == req[r] IN
    /\ q.pc = "run" /\ q.kind = "task.create"
    /\ \E offered \in OfferHolds(r) :
          IF offered /\ TaskWriteValid(q.ch, q.w)
          THEN insertTaskWithRevision(r, q.ch, q.w) /\ Succeeded(r, ResultId(r))
          ELSE Goto(r, "fail") /\ UNCHANGED <<task, chan>>
    /\ UNCHANGED <<part, cow, csess, msg, pin, draft, receipt, lock, mix>>

\* The new row is made from the task read here.
ReadTask(r) ==
    LET q   == req[r]
        cur == task[q.obj]
    IN
    /\ q.pc = "run" /\ q.kind = "task.update"
    /\ IF /\ chan[cur.chan].status = "active"
          /\ canTransitionTask(cur.status, q.st)
          /\ Authorized(q.by, cur.chan)
       THEN req' = [req EXCEPT ![r].pc = "write", ![r].seen.task = cur]
       ELSE Goto(r, "fail")
    /\ UNCHANGED <<tables, lock, mix>>

\* The revision the caller expects is compared with the row, and the next revision,
\* counted from the row read, must be free.
WriteTask(r) ==
    LET q    == req[r]
        next == [q.seen.task EXCEPT !.status = q.st, !.rev = @ + 1]
    IN
    /\ q.pc = "write" /\ q.kind = "task.update"
    /\ \E offered \in OfferHolds(r) :
          IF /\ offered
             /\ task[q.obj].rev = q.rev
             /\ TaskWriteValid(next.chan, next.who)
             /\ RevisionFree(q.obj, next.rev)
          THEN updateTaskWithRevision(q.obj, next) /\ Succeeded(r, ResultId(r))
          ELSE Goto(r, "fail") /\ UNCHANGED <<task, chan>>
    /\ UNCHANGED <<part, cow, csess, msg, pin, draft, receipt, lock, mix>>

TaskStep(r) ==
    \/ createTask(r) \/ createTaskForCoworker(r) \/ updateTask(r) \/ updateTaskForCoworker(r)
    \/ ReloadTask(r) \/ WriteNewTask(r) \/ ReadTask(r) \/ WriteTask(r)
=============================================================================
