----------------------------- MODULE NodeManager -----------------------------
(***************************************************************************)
(* The long operations of the Node Manager: restores with their cutover      *)
(* (Cutover) and changes of models (ModelSwitch).  The Node's operation lock *)
(* lets one of them go on at a time, each writes settings of .env that the   *)
(* other leaves alone, and both kinds are recovered by their own entries of  *)
(* the journal: each behaviour here is one of either.                        *)
(***************************************************************************)
EXTENDS Cutover

CONSTANTS
    Embeddings, Models, Apis, Bridge, Keep, None, MaxSwitches, MaxDaemonDeaths

VARIABLES
    settings, compose, desired, runtime, database, journal, task, process, engine,
    undone, deaths, failures,
    doing       \* "restores" or "models"

Switch == INSTANCE ModelSwitch WITH
    env <- settings, stack <- runtime, job <- task, daemon <- process,
    docker <- engine, outages <- failures

ASSUME NodeManagerAssumption == Switch!ModelSwitchAssumption

switchVars == <<settings, compose, desired, runtime, database, journal, task, process,
                engine, undone, deaths, failures>>

\* What the part that rests begins with makes no difference.
ManagerInit ==
    /\ Init /\ Switch!SwitchInit
    /\ \/ doing = "models"
       \/ doing = "restores" /\ settings.embedding = CHOOSE e \in Embeddings : TRUE

ManagerNext ==
    \/ doing = "restores" /\ Next /\ UNCHANGED <<switchVars, doing>>
    \/ doing = "models" /\ Switch!SwitchNext /\ UNCHANGED <<vars, doing>>

ManagerSpec == ManagerInit /\ [][ManagerNext]_<<vars, switchVars, doing>>

-----------------------------------------------------------------------------
\* "Changing the embedding model requires an empty Node": a database holds no
\* vectors but those of the model in .env and of models that were taken back after
\* their containers had run (configureModelsLocked and its rollback).
VectorsComparable == Switch!VectorsComparable

\* A models_configure that reports success, recovery or failure tells what .env
\* and the containers are (configureModelsLocked and the recovery at a restart).
ReportsAreTrue == [][Switch!ReportIsTrue]_switchVars
=============================================================================
