---------------------------- MODULE MCOperations -----------------------------
(* What the owner of a workspace administers, side by side for TLC: provider   *)
(* connections, the settings pages, backups, releases, files of conversations *)
(* and the first-run wizard share no state.                                   *)
EXTENDS ProviderConnection, SettingsPages, Backup, Release, Transfer, Onboarding

VARIABLE part

allVars ==
    <<part, vars, pagesVars, backupVars, releaseVars, transferVars, onboardingVars>>

OperationsInit ==
    /\ part \in {"connections", "pages", "backup", "release", "transfer", "wizard"}
    /\ Init
    /\ PagesInit
    /\ BackupInit
    /\ ReleaseInit
    /\ TransferInit
    /\ OnboardingInit

OperationsNext ==
    \/ /\ part = "connections" /\ Next
       /\ UNCHANGED <<part, pagesVars, backupVars, releaseVars, transferVars, onboardingVars>>
    \/ /\ part = "pages" /\ PagesNext
       /\ UNCHANGED <<part, vars, backupVars, releaseVars, transferVars, onboardingVars>>
    \/ /\ part = "backup" /\ BackupNext
       /\ UNCHANGED <<part, vars, pagesVars, releaseVars, transferVars, onboardingVars>>
    \/ /\ part = "release" /\ ReleaseNext
       /\ UNCHANGED <<part, vars, pagesVars, backupVars, transferVars, onboardingVars>>
    \/ /\ part = "transfer" /\ TransferNext
       /\ UNCHANGED <<part, vars, pagesVars, backupVars, releaseVars, onboardingVars>>
    \/ /\ part = "wizard" /\ OnboardingNext
       /\ UNCHANGED <<part, vars, pagesVars, backupVars, releaseVars, transferVars>>

OperationsSpec ==
    /\ OperationsInit
    /\ [][OperationsNext]_allVars
==============================================================================
