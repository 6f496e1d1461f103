---------------------------- MODULE PromptLedger ----------------------------
(***************************************************************************)
(* What the sampling pipeline promises about the prompts of its dataset:   *)
(* they are read in order, each one read stays open until it is taken for  *)
(* a rollout or dropped, a checkpoint of rollout r keeps what was settled  *)
(* by then and leaves the rest open, and a restart goes back to one.       *)
(***************************************************************************)
EXTENDS Naturals

CONSTANTS Prompts, NumRollouts

VARIABLES
  state,   \* prompt -> Unread, Open, Dropped, or the rollout that took it
  disk     \* rollout -> the state its checkpoint restores

Rollouts == 0..(NumRollouts - 1)
Open == NumRollouts
Dropped == NumRollouts + 1
Unread == NumRollouts + 2
Fresh == [p \in 1..Prompts |-> Unread]

Init == state = Fresh /\ disk = <<>>

Become(p, s) == state' = [state EXCEPT ![p] = s] /\ UNCHANGED disk

Read(p) ==
  /\ state[p] = Unread /\ \A q \in 1..(p - 1) : state[q] # Unread
  /\ Become(p, Open)

Take(p, r) == state[p] = Open /\ Become(p, r)

Discard(p) == state[p] = Open /\ Become(p, Dropped)

\* What later rollouts took is open again in the checkpoint of rollout r.
Checkpoint(r) ==
  /\ disk' = [k \in DOMAIN disk \cup {r} |->
       IF k # r THEN disk[k]
       ELSE [p \in 1..Prompts |->
              IF state[p] \in Rollouts /\ state[p] > r THEN Open ELSE state[p]]]
  /\ UNCHANGED state

Restart ==
  /\ state' = Fresh \/ \E r \in DOMAIN disk : state' = disk[r]
  /\ UNCHANGED disk

Next ==
  \/ \E p \in 1..Prompts : \/ Read(p) \/ Discard(p)
                           \/ \E r \in Rollouts : Take(p, r)
  \/ \E r \in Rollouts : Checkpoint(r)
  \/ Restart

Spec == Init /\ [][Next]_<<state, disk>>
=============================================================================
