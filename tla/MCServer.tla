------------------------------- MODULE MCServer -------------------------------
(***************************************************************************)
(* The server's job scheduling, command resources, state stream,           *)
(* content-addressed files, schema migrations and rate limits, and the     *)
(* atomic commits of risk decisions and executions, for TLC.  They share   *)
(* no state, so their interleavings would only multiply the states: a      *)
(* behaviour is one of one part, the others standing still.                *)
(***************************************************************************)
EXTENDS JobScheduling, Commands, MCStream, ObjectStore, SchemaMigration, RequestLimits,
        MCCommit

VARIABLE part \* the part that runs

commitVars == vars

serverVars ==
    <<part, jobVars, commandVars, streamVars, objectVars, migrationVars, limitVars, commitVars>>

ServerInit ==
    /\ part \in {"jobs", "commands", "stream", "objects", "migrations", "limits", "commits"}
    /\ JobInit /\ CommandInit /\ StreamInit /\ ObjectInit /\ MigrationInit /\ LimitInit /\ Init

ServerNext ==
    /\ \/ /\ part = "jobs" /\ JobNext
          /\ UNCHANGED <<commandVars, streamVars, objectVars, migrationVars, limitVars, commitVars>>
       \/ /\ part = "commands" /\ CommandNext
          /\ UNCHANGED <<jobVars, streamVars, objectVars, migrationVars, limitVars, commitVars>>
       \/ /\ part = "stream" /\ StreamNext
          /\ UNCHANGED <<jobVars, commandVars, objectVars, migrationVars, limitVars, commitVars>>
       \/ /\ part = "objects" /\ ObjectNext
          /\ UNCHANGED <<jobVars, commandVars, streamVars, migrationVars, limitVars, commitVars>>
       \/ /\ part = "migrations" /\ MigrationNext
          /\ UNCHANGED <<jobVars, commandVars, streamVars, objectVars, limitVars, commitVars>>
       \/ /\ part = "limits" /\ LimitNext
          /\ UNCHANGED <<jobVars, commandVars, streamVars, objectVars, migrationVars, commitVars>>
       \/ /\ part = "commits" /\ Next
          /\ UNCHANGED <<jobVars, commandVars, streamVars, objectVars, migrationVars, limitVars>>
    /\ UNCHANGED part

ServerSpec ==
    ServerInit /\ [][ServerNext]_serverVars /\ (part = "stream" => StreamFairness)
=============================================================================
