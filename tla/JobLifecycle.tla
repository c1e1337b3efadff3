---------------------------- MODULE JobLifecycle ----------------------------
(***************************************************************************)
(* What the chat pipeline promises about one job, whatever the queue, the  *)
(* worker and the API do underneath: a submitted job is settled once, with *)
(* one terminal status, and keeps that status for ever.  "Settled" means   *)
(* that nothing in the system is going to act on the job any more.         *)
(***************************************************************************)

CONSTANTS Jobs,       \* job ids
          Terminal,   \* the terminal values of AutomationJob.status
          Open        \* stands for any other value: not in Terminal

VARIABLES stage,      \* "absent", "open" or "settled"
          verdict     \* the terminal status of a settled job, Open before

lifecycleVars == <<stage, verdict>>

LifecycleTypeOK == /\ stage \in [Jobs -> {"absent", "open", "settled"}]
                   /\ verdict \in [Jobs -> Terminal \cup {Open}]

LifecycleInit == /\ stage = [j \in Jobs |-> "absent"]
                 /\ verdict = [j \in Jobs |-> Open]

Submit(j) == /\ stage[j] = "absent"
            /\ stage' = [stage EXCEPT ![j] = "open"]
            /\ UNCHANGED verdict

\* One step may settle several jobs: a process that dies takes the last
\* handlers of all of them with it.
Settle(S) == /\ S # {}
             /\ \A j \in S : stage[j] = "open"
             /\ stage' = [j \in Jobs |-> IF j \in S THEN "settled" ELSE stage[j]]
             /\ \E v \in [S -> Terminal] :
                    verdict' = [j \in Jobs |-> IF j \in S THEN v[j] ELSE verdict[j]]

LifecycleNext == \/ \E j \in Jobs : Submit(j)
                 \/ \E S \in SUBSET Jobs : Settle(S)

LifecycleSpec == LifecycleInit /\ [][LifecycleNext]_lifecycleVars
=============================================================================
