------------------------------ MODULE Workspace ----------------------------
(***************************************************************************)
(* The workspace service as a whole: requests of every kind, crashes,      *)
(* lapsed leases, and the properties of the rows they leave.               *)
(***************************************************************************)
EXTENDS CoworkerDrafts

Init == InitTables /\ InitReceipts

Step(r) ==
    \/ ChannelStep(r) \/ MembershipStep(r) \/ TaskStep(r) \/ DraftStep(r)
    \/ Claim(r) \/ reclaimStaleCommandReceipt(r) \/ Finish(r) \/ Rebind(r) \/ Fail(r)

Environment ==
    \/ \E r \in Request : Crash(r) \/ touchCommandReceipt(r)
    \/ \E kind \in mix.kinds, key \in mix.keys : LeaseLapses(kind, key)
    \/ \E c \in Channel, w \in Coworker : ReconcileWindowCloses(c, w)
    \/ \E d \in ObjId : DraftExpires(d)

Next == (\E r \in Request : Step(r)) \/ Environment

Spec == Init /\ [][Next]_vars

-----------------------------------------------------------------------------
\* Every row keeps its type.
TypeOK ==
    /\ TablesOK
    /\ req \in [Request -> ReqRow]
    /\ lock \in [Coworker -> Request \cup {NoRequest}]
    /\ mix \in Mixes

SameKey(r1, r2) == req[r1].kind = req[r2].kind /\ req[r1].key = req[r2].key

\* Commands that insert a row of their own.
Inserts == {"channel.create", "channel.message", "task.create", "coworker.draft.create"}

Effect(r) ==
    CASE req[r].kind = "channel.create"  -> chan[r].status # "absent"
      [] req[r].kind = "channel.message" -> msg[r].run
      [] req[r].kind = "task.create"     -> task[r].status # "absent"
      [] OTHER -> FALSE

\* The reload of a task answers only in the task's channel: under a key that was used for
\* two channels a stored task may be reclaimed and made again.
TwoChannels(r1) ==
    /\ req[r1].kind = "task.create"
    /\ \E r \in Request : req[r].pc # "new" /\ SameKey(r, r1) /\ req[r].ch # req[r1].ch

\* A command repeated under one key takes effect once and is answered with one row, whatever
\* crashed or was reclaimed between the attempts, as long as no attempt outlives its lease:
\* one channel, one task, one run of a message (withIdempotency, the reloads).
OneEffectPerKey ==
    ~mix.slow => \A r1, r2 \in Request : SameKey(r1, r2) /\ ~TwoChannels(r1) =>
        /\ /\ req[r1].ans = "ok" /\ req[r2].ans = "ok"
           /\ req[r1].kind \in Inserts
           => req[r1].res = req[r2].res
        /\ Effect(r1) /\ Effect(r2) => r1 = r2

\* What a request that succeeded answered with is there, and complete: a message has its
\* run, a removed pin is removed (the reloads and the two steps of postMessage).
AnswersAreTrue ==
    \A r \in Request : req[r].ans = "ok" =>
        LET q == req[r] IN
        CASE q.kind = "channel.create"     -> chan[q.res.obj].status # "absent"
          [] q.kind = "channel.message"    -> msg[q.res.obj].run /\ msg[q.res.obj].chan = q.ch
          [] q.kind = "task.create"        -> task[q.res.obj].status # "absent"
          [] q.kind = "channel.pin.create" -> pin[q.res.obj].src = q.obj
                                              /\ pin[q.res.obj].state # "absent"
          [] q.kind = "channel.pin.remove" -> pin[q.obj].state = "removed"
          [] q.kind = "coworker.draft.create"  -> draft[q.res.obj].state # "absent"
          [] q.kind = "coworker.draft.confirm" -> cow[draft[q.res.obj].who].status # "absent"
          [] OTHER -> TRUE

\* The channels of a coworker's configuration are the channels it is a member of, and a
\* disabled coworker has neither memberships nor grants, although memberships are written
\* by four commands that plan before they write (commitCoworkerUpdate and the others).
MembershipMatchesConfig ==
    \A w \in Coworker :
        /\ cow[w].status # "absent" =>
               {c \in Channel : part[c][w] = "member"} = cow[w].chans
        /\ cow[w].status = "disabled" => cow[w].chans = {} /\ cow[w].grants = {}

\* Nothing is written to an archived channel by a command that read it while it was open,
\* and it is never reopened (the status check inside each transaction).
ArchivedIsFrozen ==
    [][\A c \in ChanId : chan[c].status = "archived" =>
          /\ chan'[c].status = "archived"
          /\ \A m \in ObjId : msg'[m].chan = c => msg[m].chan = c
          /\ \A t \in ObjId : task'[t].status # "absent" /\ task'[t].chan = c => task'[t] = task[t]
          /\ \A p \in Request : pin'[p].chan = c => pin'[p].state = pin[p].state]_vars

\* Each write of a task builds on the row it replaces: no update is lost, and no two updates
\* that are legal one by one take the task through an illegal transition.
NoLostTaskUpdate ==
    [][\A t \in ObjId : task[t].status # "absent" /\ task'[t] # task[t] =>
          /\ task'[t].rev = task[t].rev + 1
          /\ canTransitionTask(task[t].status, task'[t].status)]_vars

\* Attempts to provision a coworker in a channel, however many crash or lose the provider's
\* answer, leave one provider session of a spec, while the window reconciliation searches
\* is open (the advisory lock, the marker and reconcileProviderSession).
OneProviderSession ==
    \A c \in Channel, w \in Coworker : \A s1, s2 \in csess[c][w].made :
        s1 # s2 /\ s1.spec = s2.spec => s1.late /\ s2.late
=============================================================================
