------------------------------- MODULE Runner -------------------------------
(***************************************************************************)
(* The "dyo up" / "dyo down" stack runner of golang/pkg/cli/runner.go,     *)
(* driving the Docker runtime of one host.                                 *)
(*                                                                         *)
(* One CLI process runs one command at a time.  "up" walks the fixed plan  *)
(* of StartContainers: for each enabled container Create() then Start(),   *)
(* for the migration jobs StartWaitUntilExit(), and after Traefik the      *)
(* routing file is written into it (TraefikConfiguration).  "down" walks   *)
(* the plan of StopContainers: GetContainerID, then CleanupContainer       *)
(* (ContainerStop, ContainerRemove).  Every error ends in log.Fatal, which *)
(* exits the process at once: there is no rollback.                        *)
(*                                                                         *)
(* The runtime is shared state: the status of each managed container name *)
(* and whether the Traefik container holds its routing file.  Besides the  *)
(* CLI, the containers themselves act: a migration job runs to an exit     *)
(* code, and (when EnvFaults) a service may die or a container may be      *)
(* removed by someone else.                                                *)
(***************************************************************************)
EXTENDS Naturals, Sequences

CONSTANTS
  EnvFaults,        \* containers may die or be removed outside the CLI
  MaxFaults,        \* bound on those faults in one behaviour
  SettingsEditable  \* the Disabled flags may be edited between commands

ASSUME ConstAssumption ==
  /\ EnvFaults \in BOOLEAN
  /\ MaxFaults \in Nat
  /\ SettingsEditable \in BOOLEAN

VARIABLES
  status,       \* runtime: container name -> its Docker state
  traefikConf,  \* runtime: the Traefik container holds traefik.dev.yml
  disabled,     \* settings: optional component -> its Disabled flag
  cmd,          \* the CLI process: "idle", "up" or "down"
  step,         \* index of the current container in the command's plan
  phase,        \* the call of that container the process is about to make
  last,         \* how the last finished command ended
  faults        \* environment faults so far (bounded by MaxFaults)

vars == <<status, traefikConf, disabled, cmd, step, phase, last, faults>>

(***************************************************************************)
(* The managed containers (DyrectorioStack) and the two plans.             *)
(***************************************************************************)
Traefik        == "traefik"
CruxPostgres   == "crux-postgres"
KratosPostgres == "kratos-postgres"
KratosMigrate  == "kratos-migrate"
Kratos         == "kratos"
CruxMigrate    == "crux-migrate"
Crux           == "crux"
CruxUI         == "crux-ui"
MailSlurper    == "mailslurper"

Managed == {Traefik, CruxPostgres, KratosPostgres, KratosMigrate, Kratos,
            CruxMigrate, Crux, CruxUI, MailSlurper}

N == 9

\* The order of StartContainers.
UpPlan == <<Traefik, CruxPostgres, KratosPostgres, KratosMigrate, Kratos,
            CruxMigrate, Crux, CruxUI, MailSlurper>>

\* The order of StopContainers.
DownPlan == <<MailSlurper, CruxUI, Crux, CruxMigrate, KratosMigrate, Kratos,
              CruxPostgres, KratosPostgres, Traefik>>

\* One-shot jobs started with StartWaitUntilExit, and the service each gates.
Migrations == {KratosMigrate, CruxMigrate}
MigrationOf == [s \in {Kratos, Crux} |-> IF s = Kratos THEN KratosMigrate
                                                       ELSE CruxMigrate]

\* The settings flags and the containers each one switches off.
Flags == {"Crux", "CruxUI"}
GuardedBy == [f \in Flags |-> IF f = "Crux" THEN {CruxMigrate, Crux}
                                            ELSE {CruxUI}]

IsDisabled(c) == \E f \in Flags : c \in GuardedBy[f] /\ disabled[f]

Statuses == {"absent", "created", "running", "exited", "failed"}
Present(c) == status[c] # "absent"
Phases == {"none", "create", "start", "wait", "config",
           "lookup", "stop", "remove"}
Outcomes == {"none", "up_ok", "down_ok", "runtime", "conflict",
             "notfound"}

FirstPhase(c) == IF c = "up" THEN "create" ELSE "lookup"

(***************************************************************************)
(* Control of the CLI process.                                             *)
(***************************************************************************)
\* log.Fatal: the process exits with the error, leaving the runtime as is.
Fatal(err) ==
  /\ cmd' = "idle"
  /\ step' = 1
  /\ phase' = "none"
  /\ last' = err

\* Variant with an off-by-one end test: the plan is left one step too late.
NextContainerPastEnd ==
  IF step > N
    THEN /\ cmd' = "idle"
         /\ step' = 1
         /\ phase' = "none"
         /\ last' = IF cmd = "up" THEN "up_ok" ELSE "down_ok"
    ELSE /\ step' = step + 1
         /\ phase' = FirstPhase(cmd)
         /\ UNCHANGED <<cmd, last>>

\* Go on with the next container of the plan, or return from the command.
NextContainer ==
  IF step = N
    THEN /\ cmd' = "idle"
         /\ step' = 1
         /\ phase' = "none"
         /\ last' = IF cmd = "up" THEN "up_ok" ELSE "down_ok"
    ELSE /\ step' = step + 1
         /\ phase' = FirstPhase(cmd)
         /\ UNCHANGED <<cmd, last>>

\* ProcessCommand: the operator runs "dyo up" or "dyo down".
Invoke ==
  /\ cmd = "idle"
  /\ \E c \in {"up", "down"} :
       /\ cmd' = c
       /\ step' = 1
       /\ phase' = FirstPhase(c)
  /\ last' = "none"
  /\ UNCHANGED <<status, traefikConf, disabled, faults>>

\* Between commands the operator may switch an optional component on or off.
EditSettings ==
  /\ SettingsEditable
  /\ cmd = "idle"
  /\ \E f \in Flags : disabled' = [disabled EXCEPT ![f] = ~@]
  /\ UNCHANGED <<status, traefikConf, cmd, step, phase, last, faults>>

(***************************************************************************)
(* StartContainers.                                                        *)
(***************************************************************************)
UpC == UpPlan[step]

\* `if !containers.Containers.X.Disabled`: the container is not touched.
UpSkip ==
  /\ cmd = "up" /\ phase = "create"
  /\ IsDisabled(UpC)
  /\ NextContainer
  /\ UNCHANGED <<status, traefikConf, disabled, faults>>

\* Create(): a container of that name must not exist yet.
UpCreate ==
  /\ cmd = "up" /\ phase = "create"
  /\ ~IsDisabled(UpC)
  /\ IF Present(UpC)
       THEN /\ Fatal("conflict")
            /\ UNCHANGED status
       ELSE /\ status' = [status EXCEPT ![UpC] = "created"]
            /\ phase' = "start"
            /\ UNCHANGED <<cmd, step, last>>
  /\ UNCHANGED <<traefikConf, disabled, faults>>

\* Variant where Traefik is treated like any other service: the routing
\* file is never written.
UpStartNoConfig ==
  /\ cmd = "up" /\ phase = "start"
  /\ IF ~Present(UpC)
       THEN /\ Fatal("notfound")
            /\ UNCHANGED status
       ELSE /\ status' = [status EXCEPT ![UpC] = "running"]
            /\ IF UpC \in Migrations
                 THEN phase' = "wait" /\ UNCHANGED <<cmd, step, last>>
                 ELSE NextContainer
  /\ UNCHANGED <<traefikConf, disabled, faults>>

\* Variant that starts a migration job with Start() instead of
\* StartWaitUntilExit(): "up" does not wait for it.
UpStartNoWait ==
  /\ cmd = "up" /\ phase = "start"
  /\ IF ~Present(UpC)
       THEN /\ Fatal("notfound")
            /\ UNCHANGED status
       ELSE /\ status' = [status EXCEPT ![UpC] = "running"]
            /\ IF UpC = Traefik
                 THEN phase' = "config" /\ UNCHANGED <<cmd, step, last>>
                 ELSE NextContainer
  /\ UNCHANGED <<traefikConf, disabled, faults>>

\* Start() / the start half of StartWaitUntilExit(); starting a running
\* container is a no-op.  Traefik is configured next, a migration awaited.
UpStart ==
  /\ cmd = "up" /\ phase = "start"
  /\ IF ~Present(UpC)
       THEN /\ Fatal("notfound")
            /\ UNCHANGED status
       ELSE /\ status' = [status EXCEPT ![UpC] = "running"]
            /\ CASE UpC = Traefik    -> phase' = "config" /\ UNCHANGED <<cmd, step, last>>
                 [] UpC \in Migrations -> phase' = "wait" /\ UNCHANGED <<cmd, step, last>>
                 [] OTHER             -> NextContainer
  /\ UNCHANGED <<traefikConf, disabled, faults>>

\* The wait half of StartWaitUntilExit(): blocks until the job is no longer
\* running.  runner.go:106 and 119 keep only its error (`_, err = ...`), so
\* the job's exit code is dropped and a failed job lets "up" go on; a job
\* that is gone makes the wait fail.
UpWait ==
  /\ cmd = "up" /\ phase = "wait"
  /\ status[UpC] \notin {"created", "running"}
  /\ IF status[UpC] \in {"exited", "failed"}
       THEN NextContainer
       ELSE Fatal("notfound")
  /\ UNCHANGED <<status, traefikConf, disabled, faults>>

\* TraefikConfiguration: WriteContainerFile of the rendered routing file.
UpConfig ==
  /\ cmd = "up" /\ phase = "config"
  /\ IF Present(Traefik)
       THEN traefikConf' = TRUE /\ NextContainer
       ELSE Fatal("notfound") /\ UNCHANGED traefikConf
  /\ UNCHANGED <<status, disabled, faults>>

(***************************************************************************)
(* StopContainers and CleanupContainer.                                    *)
(***************************************************************************)
DownC == DownPlan[step]

\* A disabled component is skipped without being probed.
DownSkip ==
  /\ cmd = "down" /\ phase = "lookup"
  /\ IsDisabled(DownC)
  /\ NextContainer
  /\ UNCHANGED <<status, traefikConf, disabled, faults>>

\* Variant of the lookup that lists running containers only (All: false).
DownLookupRunningOnly ==
  /\ cmd = "down" /\ phase = "lookup"
  /\ ~IsDisabled(DownC)
  /\ IF status[DownC] = "running"
       THEN phase' = "stop" /\ UNCHANGED <<cmd, step, last>>
       ELSE NextContainer
  /\ UNCHANGED <<status, traefikConf, disabled, faults>>

\* Variant that forgets to move on after a name that is not found.
DownLookupStuck ==
  /\ cmd = "down" /\ phase = "lookup"
  /\ ~IsDisabled(DownC)
  /\ IF Present(DownC)
       THEN phase' = "stop" /\ UNCHANGED <<cmd, step, last>>
       ELSE UNCHANGED <<cmd, step, phase, last>>
  /\ UNCHANGED <<status, traefikConf, disabled, faults>>

\* GetContainerID(name) != "": no container of that name is no error.
DownLookup ==
  /\ cmd = "down" /\ phase = "lookup"
  /\ ~IsDisabled(DownC)
  /\ IF Present(DownC)
       THEN phase' = "stop" /\ UNCHANGED <<cmd, step, last>>
       ELSE NextContainer
  /\ UNCHANGED <<status, traefikConf, disabled, faults>>

\* ContainerStop with a 10s timeout; stopping a container that is not
\* running succeeds, stopping one that is gone is an error.
DownStop ==
  /\ cmd = "down" /\ phase = "stop"
  /\ IF Present(DownC)
       THEN /\ status' = [status EXCEPT ![DownC] =
                            IF @ = "running" THEN "exited" ELSE @]
            /\ phase' = "remove"
            /\ UNCHANGED <<cmd, step, last>>
       ELSE Fatal("notfound") /\ UNCHANGED status
  /\ UNCHANGED <<traefikConf, disabled, faults>>

\* ContainerRemove{Force: true, RemoveVolumes: false}.
DownRemove ==
  /\ cmd = "down" /\ phase = "remove"
  /\ IF Present(DownC)
       THEN /\ status' = [status EXCEPT ![DownC] = "absent"]
            /\ traefikConf' = (traefikConf /\ DownC # Traefik)
            /\ NextContainer
       ELSE Fatal("notfound") /\ UNCHANGED <<status, traefikConf>>
  /\ UNCHANGED <<disabled, faults>>

\* Any Docker API call of the current step fails (transport, image pull,
\* daemon error) before it takes effect: log.Fatal.
RuntimeError ==
  /\ cmd # "idle"
  /\ phase # "wait"
  /\ Fatal("runtime")
  /\ UNCHANGED <<status, traefikConf, disabled, faults>>

(***************************************************************************)
(* The containers themselves.                                              *)
(***************************************************************************)
\* A migration job runs to completion with exit code zero or not.
MigrationExits(c) ==
  /\ status[c] = "running"
  /\ \E s \in {"exited", "failed"} : status' = [status EXCEPT ![c] = s]
  /\ UNCHANGED <<traefikConf, disabled, cmd, step, phase, last, faults>>

\* A long-running service dies.
ServiceDies(c) ==
  /\ EnvFaults /\ faults < MaxFaults
  /\ status[c] = "running"
  /\ status' = [status EXCEPT ![c] = "failed"]
  /\ faults' = faults + 1
  /\ UNCHANGED <<traefikConf, disabled, cmd, step, phase, last>>

\* Someone else removes the container (docker rm -f, auto-remove).
ExternalRemove(c) ==
  /\ EnvFaults /\ faults < MaxFaults
  /\ Present(c)
  /\ status' = [status EXCEPT ![c] = "absent"]
  /\ traefikConf' = (traefikConf /\ c # Traefik)
  /\ faults' = faults + 1
  /\ UNCHANGED <<disabled, cmd, step, phase, last>>

(***************************************************************************)
(* The specification.                                                      *)
(***************************************************************************)
Init ==
  /\ status = [c \in Managed |-> "absent"]
  /\ traefikConf = FALSE
  /\ disabled \in [Flags -> BOOLEAN]
  /\ cmd = "idle"
  /\ step = 1
  /\ phase = "none"
  /\ last = "none"
  /\ faults = 0

\* The steps the CLI process takes by itself, once it runs a command.
CliStep ==
  \/ UpSkip \/ UpCreate \/ UpStart \/ UpWait \/ UpConfig
  \/ DownSkip \/ DownLookup \/ DownStop \/ DownRemove

Next ==
  \/ Invoke
  \/ EditSettings
  \/ CliStep
  \/ RuntimeError
  \/ \E c \in Migrations : MigrationExits(c)
  \/ \E c \in Managed \ Migrations : ServiceDies(c)
  \/ \E c \in Managed : ExternalRemove(c)

\* The process runs until it exits, and a migration job eventually ends.
\* Errors, faults and the operator are not forced to happen.
Fairness ==
  /\ WF_vars(CliStep)
  /\ \A c \in Migrations : WF_vars(MigrationExits(c))

Spec == Init /\ [][Next]_vars /\ Fairness

(***************************************************************************)
(* Properties.                                                             *)
(***************************************************************************)
TypeOK ==
  /\ status \in [Managed -> Statuses]
  /\ traefikConf \in BOOLEAN
  /\ disabled \in [Flags -> BOOLEAN]
  /\ cmd \in {"idle", "up", "down"}
  /\ step \in 1..N
  /\ phase \in Phases
  /\ last \in Outcomes
  /\ faults \in 0..MaxFaults

\* StartContainers starts each migration job with StartWaitUntilExit and
\* creates its service (Kratos, Crux) only after that call returned
\* (runner.go:105-125): a service never comes into being while its
\* migration job has not run to an exit, whatever its exit code.
MigrationFinishedFirst ==
  [][\A s \in DOMAIN MigrationOf :
       (~Present(s) /\ Present(s)') =>
         status[MigrationOf[s]] \in {"exited", "failed"}
    ]_vars

\* spec.md 4.4 and its scenario "if the migration job for a service exits
\* non-zero, the corresponding service container's create/start must never
\* be invoked": a service is created only after its migration job exited
\* with code zero.
MigrationGate ==
  [][\A s \in DOMAIN MigrationOf :
       (~Present(s) /\ Present(s)') => status[MigrationOf[s]] = "exited"
    ]_vars

\* TraefikConfiguration runs right after Traefik starts and before anything
\* else is created (runner.go:85-95): no other container comes into being
\* while the Traefik container lacks its routing file.
ProxyConfiguredFirst ==
  [][\A c \in Managed \ {Traefik} :
       (~Present(c) /\ Present(c)') => traefikConf
    ]_vars

\* A "down" that returns normally has removed every managed container
\* (StopContainers, runner.go:145-185), so the next "up" cannot conflict.
CleanDown ==
  (cmd = "idle" /\ last = "down_ok") => \A c \in Managed : ~Present(c)

\* Every command the CLI starts ends, normally or by log.Fatal: no call of
\* StartContainers or StopContainers blocks forever, given that migration
\* jobs terminate.
Termination == (cmd # "idle") ~> (cmd = "idle")

\* spec.md 4.4: "down" is the strict reverse of the creation order, so no
\* container is removed while one created after it is still there.
StrictReverseTeardown ==
  [][\A i \in 1..N :
       (cmd = "down" /\ Present(UpPlan[i]) /\ ~Present(UpPlan[i])')
         => \A j \in i+1..N : ~Present(UpPlan[j])
    ]_vars

\* spec.md 4.3/7: a container that is not found during teardown is not an
\* error, so "down" never fails with not-found.
DownNotFoundIsNoError ==
  [][(cmd = "down" /\ cmd' = "idle") => last' # "notfound"]_vars


(***************************************************************************)
(* Refinement of Stack.                                                    *)
(***************************************************************************)
\* The outcome of the last command as Stack sees it: every log.Fatal is an
\* error.
AbsOutcome == IF last \in {"none", "up_ok", "down_ok"} THEN last ELSE "error"

Abs == INSTANCE Stack WITH Names <- Managed, StartOrder <- UpPlan,
                           present <- {c \in Managed : Present(c)},
                           outcome <- AbsOutcome

\* Seen through which containers exist, the runner does what Stack promises
\* (runner.go:83-185): "up" creates only enabled containers, each after the
\* enabled ones before it in StartContainers' order, and returns normally
\* only when all enabled ones exist; "down" removes only enabled ones and
\* returns normally only when none is left; every command returns.
StackRefined == Abs!Spec

=============================================================================
