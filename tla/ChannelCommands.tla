-------------------------- MODULE ChannelCommands --------------------------
(***************************************************************************)
(* The channel commands of the workspace service: create, rename, archive, *)
(* post a message, pin and unpin a message.                                *)
(***************************************************************************)
EXTENDS CommandReceipts

\* A request arrives: it is given its command and reads the rows it names.
Arrive(r, q, pc) ==
    /\ req[r].pc = "new"
    /\ q.kind \in mix.kinds /\ q.key \in mix.keys \cup {NoRequest}
    /\ req' = [req EXCEPT ![r] =
          [q EXCEPT !.pc = pc, !.ans = IF pc = "done" THEN "error" ELSE "none",
                    !.seen = [chan    |-> chan[q.ch].status,
                              cow     |-> IF q.w = NoRequest THEN NoCow ELSE cow[q.w],
                              task    |-> IF q.obj = NoRequest THEN NoTask ELSE task[q.obj],
                              draft   |-> IF q.obj = NoRequest THEN NoDraft ELSE draft[q.obj],
                              members |-> IF q.w = NoRequest THEN {}
                                          ELSE {c \in Channel : part[c][q.w] = "member"},
                              owner   |-> NoRequest]]]
    /\ UNCHANGED <<tables, lock, mix>>

\* loadOwnedChannel, then the early return on an archived channel.
loadOwnedChannel(r, q, pc) ==
    Arrive(r, q, IF chan[q.ch].status = "archived" THEN "done" ELSE pc)

createChannel(r) == \E k \in Key :
    Arrive(r, [NewReq EXCEPT !.kind = "channel.create", !.key = k], "claim")

updateChannel(r) == \E k \in Key, c \in Channel :
    loadOwnedChannel(r, [NewReq EXCEPT !.kind = "channel.update", !.key = k, !.ch = c], "claim")

archiveChannel(r) == \E k \in Key, c \in Channel :
    Arrive(r, [NewReq EXCEPT !.kind = "channel.archive", !.key = k, !.ch = c], "claim")

\* A replay is looked for before the channel is found archived.
postMessage(r) == \E k \in Key, c \in Channel, w \in Coworker :
    Arrive(r, [NewReq EXCEPT !.kind = "channel.message", !.key = k, !.ch = c, !.w = w], "replay")

createPin(r) == \E k \in Key, m \in ObjId :
    /\ msg[m].chan # NoRequest
    /\ Arrive(r, [NewReq EXCEPT !.kind = "channel.pin.create", !.key = k, !.ch = msg[m].chan,
                                !.obj = m], "claim")

removePin(r) == \E k \in Key, p \in Request :
    /\ pin[p].state # "absent"
    /\ Arrive(r, [NewReq EXCEPT !.kind = "channel.pin.remove", !.key = k, !.ch = pin[p].chan,
                                !.obj = p], "claim")

-----------------------------------------------------------------------------
(* Replay. *)

\* What the row a receipt names reloads to.
ReloadedChannel(r) ==
    LET res == Receipt(r).res IN
    IF req[r].kind = "channel.create"
    THEN {v \in {res} : chan[v.obj].status # "absent"}
    ELSE {res}

ReloadedPin(r) ==
    LET rc == Receipt(r)
        q  == req[r] IN
    IF q.kind = "channel.pin.create"
    THEN IF rc.final
         THEN {[NoResult EXCEPT !.obj = rc.res.obj]}
         ELSE {[NoResult EXCEPT !.obj = p] : p \in findActivePinBySource(q.ch, q.obj)}
    ELSE IF rc.final /\ pin[q.obj].state = "removed" THEN {rc.res} ELSE {}

\* assertReceipt and idempotencyMismatch: the key was used for another target.
ChannelMismatch(r) ==
    LET rc == Receipt(r)
        q  == req[r] IN
    CASE q.kind = "channel.message" -> rc.res.obj # NoRequest /\ msg[rc.res.obj].chan \notin {NoRequest, q.ch}
      [] q.kind = "channel.pin.create" ->
             IF rc.final THEN pin[rc.res.obj].chan # q.ch \/ pin[rc.res.obj].src # q.obj
                         ELSE rc.res # ResultId(r)
      [] q.kind = "channel.pin.remove" -> rc.res.obj # q.obj
      [] OTHER -> FALSE

\* Mutant: a stored message is replayed as it is.
replayWithoutRepair(r) ==
    /\ UNCHANGED msg
    /\ IF Receipt(r) # NoReceipt /\ msg[Receipt(r).res.obj].chan = req[r].ch
       THEN Answer(r, "ok", Receipt(r).res)
       ELSE IF req[r].pc = "replay" THEN Goto(r, "plan") ELSE Replayed(r, FALSE, {})

\* reloadPostedMessage repairs a stored message that has no run; the repair may fail.
reloadPostedMessage(r) ==
    LET m == Receipt(r).res.obj IN
    IF Receipt(r) # NoReceipt /\ msg[m].chan = req[r].ch
    THEN \E created \in {TRUE, msg[m].run \/ ~mix.slow} :
            /\ msg' = IF created THEN CreateRun(m) ELSE msg
            /\ IF created THEN Answer(r, "ok", Receipt(r).res)
               ELSE IF req[r].pc = "replay" THEN Goto(r, "plan")
               ELSE Replayed(r, FALSE, {})
    ELSE /\ UNCHANGED msg
         /\ IF Receipt(r) # NoReceipt /\ ChannelMismatch(r) THEN Refuse(r)
            ELSE IF req[r].pc = "replay" THEN Goto(r, "plan")
            ELSE Replayed(r, FALSE, {})

ReplayMessage(r) ==
    /\ req[r].pc \in {"replay", "reload"}
    /\ req[r].kind = "channel.message"
    /\ reloadPostedMessage(r)
    /\ UNCHANGED <<chan, part, cow, csess, task, pin, draft, receipt, lock, mix>>

ReloadChannel(r) ==
    /\ req[r].pc = "reload"
    /\ req[r].kind \in {"channel.create", "channel.update", "channel.archive"}
    /\ Replayed(r, FALSE, IF Receipt(r) = NoReceipt THEN {} ELSE ReloadedChannel(r))
    /\ UNCHANGED <<tables, lock, mix>>

ReloadPin(r) ==
    /\ req[r].pc = "reload"
    /\ req[r].kind \in {"channel.pin.create", "channel.pin.remove"}
    /\ IF Receipt(r) = NoReceipt THEN Refuse(r)
       ELSE Replayed(r, ChannelMismatch(r), ReloadedPin(r))
    /\ UNCHANGED <<tables, lock, mix>>

-----------------------------------------------------------------------------
(* Execution. *)

RunCreateChannel(r) ==
    /\ req[r].pc = "run" /\ req[r].kind = "channel.create"
    /\ chan' = insertChannelWithOwner(r)
    /\ Succeeded(r, ResultId(r))
    /\ UNCHANGED <<part, cow, csess, msg, task, pin, draft, receipt, lock, mix>>

RunUpdateChannel(r) ==
    LET q == req[r] IN
    /\ q.pc = "run" /\ q.kind = "channel.update"
    /\ IF chan[q.ch].status = "active"
       THEN chan' = appendChannelEvent(q.ch, "active") /\ Succeeded(r, ResultId(r))
       ELSE Goto(r, "fail") /\ UNCHANGED chan
    /\ UNCHANGED <<part, cow, csess, msg, task, pin, draft, receipt, lock, mix>>

\* An archive that finds the channel archived, when it read it or now, is a success.
RunArchiveChannel(r) ==
    LET q == req[r] IN
    /\ q.pc = "run" /\ q.kind = "channel.archive"
    /\ chan' = IF q.seen.chan = "active" /\ chan[q.ch].status = "active"
               THEN appendChannelEvent(q.ch, "archived") ELSE chan
    /\ Succeeded(r, ResultId(r))
    /\ UNCHANGED <<part, cow, csess, msg, task, pin, draft, receipt, lock, mix>>

\* Routing: the mentioned coworker is an active member with a session that takes new work.
Routable(c, w) == cow[w].status = "active" /\ part[c][w] = "member" /\ csess[c][w].state = "ready"

PlanMessage(r) ==
    LET q == req[r] IN
    /\ q.pc = "plan" /\ q.kind = "channel.message"
    /\ IF q.seen.chan = "active" /\ Routable(q.ch, q.w) THEN Goto(r, "claim") ELSE Refuse(r)
    /\ UNCHANGED <<tables, lock, mix>>

appendMessage(r) ==
    LET q == req[r] IN
    /\ q.pc = "run" /\ q.kind = "channel.message"
    /\ IF chan[q.ch].status = "active"
       THEN /\ msg' = [msg EXCEPT ![r].chan = q.ch]
            /\ chan' = appendChannelEvent(q.ch, "active")
            /\ Goto(r, "fanout")
       ELSE Goto(r, "fail") /\ UNCHANGED <<msg, chan>>
    /\ UNCHANGED <<part, cow, csess, task, pin, draft, receipt, lock, mix>>

\* The run's transaction may fail; the message is stored already.
ensureRunForMessage(r) ==
    /\ req[r].pc = "fanout" /\ req[r].kind = "channel.message"
    /\ \/ msg' = CreateRun(r) /\ Succeeded(r, ResultId(r))
       \/ Goto(r, "fail") /\ UNCHANGED msg
    /\ UNCHANGED <<chan, part, cow, csess, task, pin, draft, receipt, lock, mix>>

RunCreatePin(r) ==
    LET q == req[r] IN
    /\ q.pc = "run" /\ q.kind = "channel.pin.create"
    /\ IF q.seen.chan = "active" /\ chan[q.ch].status = "active"
             /\ findActivePinBySource(q.ch, q.obj) = {}
       THEN createPinWithEvent(r, q.ch, q.obj) /\ Succeeded(r, [NoResult EXCEPT !.obj = r])
       ELSE Goto(r, "fail") /\ UNCHANGED <<pin, chan>>
    /\ UNCHANGED <<part, cow, csess, msg, task, draft, receipt, lock, mix>>

RunRemovePin(r) ==
    LET q == req[r] IN
    /\ q.pc = "run" /\ q.kind = "channel.pin.remove"
    /\ IF q.seen.chan = "active" /\ chan[q.ch].status = "active" /\ pin[q.obj].state = "active"
       THEN removePinWithEvent(q.obj) /\ Succeeded(r, ResultId(r))
       ELSE Goto(r, "fail") /\ UNCHANGED <<pin, chan>>
    /\ UNCHANGED <<part, cow, csess, msg, task, draft, receipt, lock, mix>>

ChannelStep(r) ==
    \/ createChannel(r) \/ updateChannel(r) \/ archiveChannel(r) \/ postMessage(r)
    \/ createPin(r) \/ removePin(r)
    \/ ReplayMessage(r) \/ ReloadChannel(r) \/ ReloadPin(r)
    \/ RunCreateChannel(r) \/ RunUpdateChannel(r) \/ RunArchiveChannel(r)
    \/ PlanMessage(r) \/ appendMessage(r) \/ ensureRunForMessage(r)
    \/ RunCreatePin(r) \/ RunRemovePin(r)
=============================================================================
