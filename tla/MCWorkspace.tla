----------------------------- MODULE MCWorkspace ---------------------------
(* The instance of Workspace that TLC checks. *)
EXTENDS Workspace

CONSTANTS c1, w1, w2, r1, r2, r3, k1, k2

Mix(kinds, keys, slow) == [kinds |-> kinds, keys |-> keys, slow |-> slow]

MCMixes ==
    {Mix(K, {k1, k2}, FALSE) : K \in
        {{"channel.create", "channel.update", "channel.archive"},
         {"channel.message", "channel.archive"},
         {"channel.pin.create", "channel.pin.remove"},
         {"channel.participant.add", "channel.participant.remove", "coworker.update"},
         {"coworker.update", "coworker.disable"},
         {"task.update"}}}
    \cup {Mix(K, {k1}, FALSE) : K \in
        {{"channel.participant.add", "coworker.disable", "channel.message"},
         {"channel.pin.create", "channel.pin.remove", "channel.archive"},
         {"coworker.update", "coworker.disable", "channel.archive"},
         {"task.create", "channel.archive", "channel.participant.remove"},
         {"coworker.draft.confirm", "channel.participant.add"},
         {"coworker.draft.confirm", "coworker.draft.create"},
         {"coworker.draft.confirm", "coworker.draft.revise"},
         {"coworker.draft.confirm", "coworker.draft.reject"}}}
    \cup {Mix(K, {k1}, TRUE) : K \in
        {{"channel.message"}, {"channel.participant.add"}, {"task.create"}, {"channel.create"}}}

IdSymmetry == Permutations(Request) \cup Permutations(Key)
=============================================================================
