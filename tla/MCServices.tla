----------------------------- MODULE MCServices ------------------------------
(* Services of the API that share no state, side by side for TLC: a behaviour *)
(* chooses one of them and the others stay as they are.                       *)
EXTENDS Gateway, Incidents, Drift, Schedulers, TLC

VARIABLE part

allVars ==
    <<part, gatewayVars, incidentVars, driftVars, schedulerVars>>

ServicesInit ==
    /\ part \in {"gateway", "incidents", "drift", "schedulers"}
    /\ GatewayInit
    /\ IncidentsInit
    /\ DriftInit
    /\ SchedulersInit

ServicesNext ==
    \/ /\ part = "gateway" /\ GatewayNext
       /\ UNCHANGED <<part, incidentVars, driftVars, schedulerVars>>
    \/ /\ part = "incidents" /\ IncidentsNext
       /\ UNCHANGED <<part, gatewayVars, driftVars, schedulerVars>>
    \/ /\ part = "drift" /\ DriftNext
       /\ UNCHANGED <<part, gatewayVars, incidentVars, schedulerVars>>
    \/ /\ part = "schedulers" /\ SchedulersNext
       /\ UNCHANGED <<part, gatewayVars, incidentVars, driftVars>>

ServicesSpec ==
    /\ ServicesInit
    /\ [][ServicesNext]_allVars

ServicesSymmetry == Permutations(Requests) \cup Permutations(Keys) \cup Permutations(Refreshes)
==============================================================================
