--------------------------- MODULE RunnerGateProofs ---------------------------
(***************************************************************************)
(* Proofs of the two ordering gates of StartContainers (runner.go:83-131), *)
(* for every value of the constants, when nothing outside the CLI removes *)
(* containers: a service is created only after its migration job ran to  *)
(* an exit (MigrationFinishedFirst), and nothing but Traefik is created    *)
(* before the routing file is in Traefik (ProxyConfiguredFirst).  The      *)
(* exit code is not checked by the code, so MigrationGate does not hold.   *)
(*                                                                         *)
(* Both are action properties about the one step that creates a container *)
(* (UpCreate).  What that step needs to know about the past is GInv: where *)
(* "up" can be (UpShape), that Traefik got its file once "up" is past it   *)
(* (ConfiguredAfterTraefik), and that every enabled migration job "up" has *)
(* passed has run to an exit and is still stopped (MigrationsDone).        *)
(***************************************************************************)
EXTENDS RunnerRefinement

USE ConstAssumption

\* The phases of "up": the config phase only for Traefik, the wait phase
\* only for a migration job.
UpShape ==
  cmd = "up" =>
    /\ phase \in {"create", "start", "wait", "config"}
    /\ phase = "config" => UpC = Traefik
    /\ phase = "wait" => UpC \in Migrations

\* Once "up" is past Traefik, Traefik holds its routing file.
ConfiguredAfterTraefik == cmd = "up" /\ step > 1 => traefikConf

\* Every enabled migration job that "up" has passed has run to an exit.
MigrationsDone ==
  cmd = "up" =>
    \A i \in 1..N : UpPlan[i] \in Migrations /\ i < step /\ ~IsDisabled(UpPlan[i])
                      => status[UpPlan[i]] \in {"exited", "failed"}

GInv == TypeOK /\ UpShape /\ ConfiguredAfterTraefik /\ MigrationsDone

(***************************************************************************)
(* Facts about the plan and the flags.                                     *)
(***************************************************************************)
\* Traefik and the Kratos migration are switched off by no flag; the Crux
\* migration by exactly the flags that switch off Crux.
LEMMA FlagsOfPlan ==
  /\ ~IsDisabled(Traefik)
  /\ ~IsDisabled(KratosMigrate)
  /\ IsDisabled(CruxMigrate) <=> IsDisabled(Crux)
<1>1. \A f \in Flags : Traefik \notin GuardedBy[f] /\ KratosMigrate \notin GuardedBy[f]
  BY DEF Flags, GuardedBy, Traefik, KratosMigrate, CruxMigrate, Crux, CruxUI
<1>2. \A f \in Flags : CruxMigrate \in GuardedBy[f] <=> Crux \in GuardedBy[f]
  BY DEF Flags, GuardedBy, CruxMigrate, Crux, CruxUI
<1>3. QED BY <1>1, <1>2 DEF IsDisabled

\* Where the containers the gates are about stand in the start order.
LEMMA PlanPositions ==
  /\ UpPlan[1] = Traefik
  /\ UpPlan[4] = KratosMigrate /\ UpPlan[5] = Kratos
  /\ UpPlan[6] = CruxMigrate /\ UpPlan[7] = Crux
  /\ MigrationOf[Kratos] = KratosMigrate /\ MigrationOf[Crux] = CruxMigrate
  /\ DOMAIN MigrationOf = {Kratos, Crux}
  /\ Migrations = {UpPlan[4], UpPlan[6]}
BY DEF UpPlan, MigrationOf, Migrations, Traefik, KratosMigrate, Kratos,
       CruxMigrate, Crux

(***************************************************************************)
(* The invariant.                                                          *)
(***************************************************************************)
\* GInv holds in the initial states.
LEMMA GInvInit == Init => GInv
BY TypeInit DEF Init, GInv, UpShape, ConfiguredAfterTraefik, MigrationsDone

\* Every step keeps the shape of "up": StartContainers enters the config
\* phase only for Traefik and the wait phase only for a migration job.
LEMMA UpShapeStep ==
  ASSUME TypeOK, UpShape, [Next]_vars
  PROVE  UpShape'
<1> SUFFICES ASSUME cmd' = "up"
             PROVE  /\ phase' \in {"create", "start", "wait", "config"}
                    /\ phase' = "config" => UpC' = Traefik
                    /\ phase' = "wait" => UpC' \in Migrations
  BY DEF UpShape
<1>1. CASE Invoke BY <1>1 DEF Invoke, FirstPhase
<1>2. CASE UpSkip \/ UpWait \/ UpConfig
  <2>1. NextContainer BY <1>2 DEF UpSkip, UpWait, UpConfig, Fatal
  <2>2. QED BY <2>1 DEF NextContainer, FirstPhase, UpSkip, UpWait, UpConfig
<1>3. CASE UpCreate BY <1>3 DEF UpCreate, Fatal
<1>4. CASE UpStart
  <2>1. ~Present(UpC) => cmd' = "idle" BY <1>4 DEF UpStart, Fatal
  <2>2. Present(UpC) =>
          \/ UpC = Traefik /\ phase' = "config" /\ step' = step
          \/ UpC \in Migrations /\ phase' = "wait" /\ step' = step
          \/ NextContainer
    BY <1>4 DEF UpStart
  <2>3. QED BY <1>4, <2>1, <2>2 DEF NextContainer, FirstPhase, UpStart, UpC
<1>5. CASE DownSkip \/ DownLookup \/ DownStop \/ DownRemove \/ RuntimeError
           \/ EditSettings
  BY <1>5 DEF DownSkip, DownLookup, DownStop, DownRemove, RuntimeError,
              EditSettings, Fatal, NextContainer
<1>6. CASE UNCHANGED <<cmd, step, phase>>
  BY <1>6 DEF UpShape, UpC
<1>7. QED
  BY <1>1, <1>2, <1>3, <1>4, <1>5, <1>6
  DEF Next, CliStep, vars, MigrationExits, ServiceDies, ExternalRemove

\* "up" leaves Traefik only through TraefikConfiguration, which writes the
\* file; nothing but the removal of Traefik deletes it.
LEMMA ConfiguredStep ==
  ASSUME ~EnvFaults, TypeOK, UpShape, ConfiguredAfterTraefik, [Next]_vars
  PROVE  ConfiguredAfterTraefik'
<1> SUFFICES ASSUME cmd' = "up", step' > 1 PROVE traefikConf'
  BY DEF ConfiguredAfterTraefik
<1> USE DEF TypeOK
<1>1. CASE Invoke BY <1>1 DEF Invoke
<1>2. CASE UpConfig BY <1>2 DEF UpConfig, Fatal
<1>3. CASE UpSkip
  \* Traefik, the first container, is never skipped.
  <2>1. IsDisabled(UpPlan[step]) /\ traefikConf' = traefikConf /\ cmd = "up"
    BY <1>3 DEF UpSkip, UpC
  <2>2. step # 1 BY <2>1, FlagsOfPlan, PlanPositions
  <2>3. QED BY <2>1, <2>2 DEF ConfiguredAfterTraefik
<1>4. CASE UpWait
  \* The wait phase is a migration job's, never Traefik's.
  <2>1. UpPlan[step] \in Migrations /\ traefikConf' = traefikConf /\ cmd = "up"
    BY <1>4 DEF UpWait, UpShape, UpC
  <2>2. step # 1 BY <2>1, PlanPositions DEF Migrations, KratosMigrate,
                                            CruxMigrate, Traefik
  <2>3. QED BY <2>1, <2>2 DEF ConfiguredAfterTraefik
<1>5. CASE UpCreate BY <1>5 DEF UpCreate, Fatal, ConfiguredAfterTraefik
<1>6. CASE UpStart
  \* Starting Traefik leads to its config phase; another container has a
  \* step past 1.
  <2>1. traefikConf' = traefikConf /\ cmd = "up" BY <1>6 DEF UpStart
  <2>2. CASE step = 1
    <3>1. UpC = Traefik BY <2>2, PlanPositions DEF UpC
    <3>2. step' = step \/ cmd' = "idle" BY <1>6, <3>1 DEF UpStart, Fatal
    <3>3. QED BY <2>2, <3>2
  <2>3. CASE step # 1 BY <2>1, <2>3 DEF ConfiguredAfterTraefik
  <2>4. QED BY <2>2, <2>3
<1>7. CASE DownSkip \/ DownLookup \/ DownStop \/ DownRemove \/ RuntimeError
           \/ EditSettings
  BY <1>7 DEF DownSkip, DownLookup, DownStop, DownRemove, RuntimeError,
              EditSettings, Fatal, NextContainer
<1>8. ASSUME NEW x \in Migrations, MigrationExits(x) PROVE traefikConf'
  BY <1>8 DEF MigrationExits, ConfiguredAfterTraefik
<1>9. CASE UNCHANGED vars BY <1>9 DEF vars, ConfiguredAfterTraefik
<1>10. QED
  BY <1>1, <1>2, <1>3, <1>4, <1>5, <1>6, <1>7, <1>8, <1>9
  DEF Next, CliStep, ServiceDies, ExternalRemove

\* A migration job "up" has passed keeps its exit status: "up" touches only
\* the current container, moves past a migration job only once it is no
\* longer running, and an exited job does not run again.
LEMMA MigrationsDoneStep ==
  ASSUME ~EnvFaults, TypeOK, UpShape, MigrationsDone, [Next]_vars
  PROVE  MigrationsDone'
<1> SUFFICES ASSUME cmd' = "up", NEW i \in 1..N, UpPlan[i] \in Migrations,
                    i < step', ~IsDisabled(UpPlan[i])'
             PROVE  status'[UpPlan[i]] \in {"exited", "failed"}
  BY DEF MigrationsDone
<1> USE PlansInManaged DEF TypeOK
\* The facts every case of "up" uses: the earlier jobs have exited, and the
\* current container differs from every earlier one.
<1>0. /\ cmd = "up" => \A k \in 1..N : UpPlan[k] \in Migrations /\ k < step
                          /\ ~IsDisabled(UpPlan[k]) => status[UpPlan[k]] \in {"exited", "failed"}
      /\ \A k \in 1..N : k < step => UpPlan[k] # UpPlan[step]
  BY UpPlanInjective DEF MigrationsDone
<1>1. CASE Invoke BY <1>1 DEF Invoke
<1>2. CASE UpSkip
  <2>1. /\ cmd = "up" /\ IsDisabled(UpPlan[step]) /\ step' = step + 1
        /\ UNCHANGED <<status, disabled>>
    BY <1>2 DEF UpSkip, UpC, NextContainer
  <2>2. ~IsDisabled(UpPlan[i]) BY <2>1 DEF IsDisabled
  <2>3. i < step BY <2>1, <2>2
  <2>4. QED BY <1>0, <2>1, <2>2, <2>3
<1>3. CASE UpCreate
  <2>1. /\ cmd = "up" /\ step' = step /\ disabled' = disabled
        /\ status' = [status EXCEPT ![UpPlan[step]] = "created"]
    BY <1>3 DEF UpCreate, UpC, Fatal
  <2>2. ~IsDisabled(UpPlan[i]) BY <2>1 DEF IsDisabled
  <2>3. QED BY <1>0, <2>1, <2>2
<1>4. CASE UpStart
  <2>1. /\ cmd = "up" /\ disabled' = disabled
        /\ status' = [status EXCEPT ![UpPlan[step]] = "running"]
        /\ \/ step' = step
           \/ UpPlan[step] \notin Migrations /\ NextContainer
    BY <1>4 DEF UpStart, UpC, Fatal
  <2>2. ~IsDisabled(UpPlan[i]) BY <2>1 DEF IsDisabled
  <2>3. i < step BY <2>1 DEF NextContainer
  <2>4. QED BY <1>0, <2>1, <2>2, <2>3
<1>5. CASE UpWait
  <2>1. /\ cmd = "up" /\ UNCHANGED <<status, disabled>>
        /\ status[UpPlan[step]] \in {"exited", "failed"} /\ NextContainer
    BY <1>5 DEF UpWait, UpC, Fatal
  <2>2. ~IsDisabled(UpPlan[i]) BY <2>1 DEF IsDisabled
  <2>3. i < step \/ i = step BY <2>1 DEF NextContainer
  <2>4. QED BY <1>0, <2>1, <2>2, <2>3
<1>6. CASE UpConfig
  <2>1. /\ cmd = "up" /\ UNCHANGED <<status, disabled>> /\ NextContainer
        /\ UpPlan[step] = Traefik
    BY <1>6 DEF UpConfig, UpC, Fatal, UpShape
  <2>2. ~IsDisabled(UpPlan[i]) BY <2>1 DEF IsDisabled
  <2>3. UpPlan[i] # Traefik BY DEF Migrations, KratosMigrate, CruxMigrate, Traefik
  <2>4. i < step BY <2>1, <2>3 DEF NextContainer
  <2>5. QED BY <1>0, <2>1, <2>2, <2>4
<1>7. ASSUME NEW x \in Migrations, MigrationExits(x)
      PROVE  status'[UpPlan[i]] \in {"exited", "failed"}
  \* Only a running job exits, and the ones passed have exited already.
  <2>1. /\ cmd = "up" /\ UNCHANGED <<step, disabled>> /\ status[x] = "running"
        /\ \E s \in {"exited", "failed"} : status' = [status EXCEPT ![x] = s]
    BY <1>7 DEF MigrationExits
  <2>2. ~IsDisabled(UpPlan[i]) BY <2>1 DEF IsDisabled
  <2>3. status[UpPlan[i]] \in {"exited", "failed"} BY <1>0, <2>1, <2>2
  <2>4. QED BY <2>1, <2>3
<1>8. CASE DownSkip \/ DownLookup \/ DownStop \/ DownRemove \/ RuntimeError
           \/ EditSettings
  BY <1>8 DEF DownSkip, DownLookup, DownStop, DownRemove, RuntimeError,
              EditSettings, Fatal, NextContainer
<1>9. CASE UNCHANGED vars
  <2>1. ~IsDisabled(UpPlan[i]) BY <1>9 DEF vars, IsDisabled
  <2>2. QED BY <1>0, <1>9, <2>1 DEF vars
<1>10. QED
  BY <1>1, <1>2, <1>3, <1>4, <1>5, <1>6, <1>7, <1>8, <1>9
  DEF Next, CliStep, ServiceDies, ExternalRemove

\* Without faults of the environment, GInv holds in every reachable state.
THEOREM GInvHolds == ~EnvFaults => (Spec => []GInv)
<1> SUFFICES ASSUME ~EnvFaults PROVE Spec => []GInv
  OBVIOUS
<1>1. GInv /\ [Next]_vars => GInv'
  BY TypeStep, UpShapeStep, ConfiguredStep, MigrationsDoneStep DEF GInv
<1>2. QED BY GInvInit, <1>1, PTL DEF Spec

(***************************************************************************)
(* The gates.                                                              *)
(***************************************************************************)
\* The one step that makes a container appear is a successful Create() of
\* the current container of "up", which is enabled.
LEMMA CreatedIsCurrent ==
  ASSUME TypeOK, [Next]_vars, NEW c \in Managed, ~Present(c), Present(c)'
  PROVE  /\ UpCreate /\ cmd = "up" /\ c = UpPlan[step]
         /\ ~IsDisabled(UpPlan[step]) /\ step \in 1..N
<1>1. UpCreate BY OnlyCreateAdds
<1>2. QED BY <1>1, PlansInManaged DEF UpCreate, UpC, Fatal, Present, TypeOK

\* MigrationFinishedFirst (runner.go:105-125): without faults of the
\* environment, Kratos and Crux are created only while their migration job
\* has run to an exit, whatever its exit code.
THEOREM MigrationFinishedFirstHolds == ~EnvFaults => (Spec => MigrationFinishedFirst)
<1> SUFFICES ASSUME ~EnvFaults PROVE Spec => MigrationFinishedFirst
  OBVIOUS
<1>1. GInv /\ [Next]_vars =>
        \A s \in DOMAIN MigrationOf :
          (~Present(s) /\ Present(s)') => status[MigrationOf[s]] \in {"exited", "failed"}
  <2> SUFFICES ASSUME GInv, [Next]_vars, NEW s \in DOMAIN MigrationOf,
                      ~Present(s), Present(s)'
               PROVE  status[MigrationOf[s]] \in {"exited", "failed"}
    OBVIOUS
  <2> USE DEF GInv
  <2>1. s \in Managed BY PlanPositions DEF Managed, Kratos, Crux
  <2>2. cmd = "up" /\ s = UpPlan[step] /\ ~IsDisabled(s) /\ step \in 1..N
    BY <2>1, CreatedIsCurrent
  <2>3. CASE s = Kratos
    <3>0. UpPlan[step] = UpPlan[5] BY <2>2, <2>3, PlanPositions
    <3>1. step = 5
      <4>1. 5 \in 1..N BY DEF N
      <4>2. QED BY <2>2, <3>0, <4>1, UpPlanInjective
    <3>2. QED BY <2>2, <2>3, <3>1, PlanPositions, FlagsOfPlan
                 DEF MigrationsDone, N
  <2>4. CASE s = Crux
    <3>0. UpPlan[step] = UpPlan[7] BY <2>2, <2>4, PlanPositions
    <3>1. step = 7
      <4>1. 7 \in 1..N BY DEF N
      <4>2. QED BY <2>2, <3>0, <4>1, UpPlanInjective
    <3>2. QED BY <2>2, <2>4, <3>1, PlanPositions, FlagsOfPlan
                 DEF MigrationsDone, N
  <2>5. QED BY <2>3, <2>4, PlanPositions
<1>2. QED BY <1>1, GInvHolds, PTL DEF MigrationFinishedFirst, Spec

\* ProxyConfiguredFirst (runner.go:85-95): without faults of the environment,
\* no container but Traefik is created while Traefik lacks its routing file.
THEOREM ProxyConfiguredFirstHolds == ~EnvFaults => (Spec => ProxyConfiguredFirst)
<1> SUFFICES ASSUME ~EnvFaults PROVE Spec => ProxyConfiguredFirst
  OBVIOUS
<1>1. GInv /\ [Next]_vars =>
        \A c \in Managed \ {Traefik} : (~Present(c) /\ Present(c)') => traefikConf
  <2> SUFFICES ASSUME GInv, [Next]_vars, NEW c \in Managed \ {Traefik},
                      ~Present(c), Present(c)'
               PROVE  traefikConf
    OBVIOUS
  <2> USE DEF GInv
  <2>1. cmd = "up" /\ c = UpPlan[step] /\ step \in 1..N
    BY CreatedIsCurrent
  <2>2. step > 1 BY <2>1, PlanPositions
  <2>3. QED BY <2>1, <2>2 DEF ConfiguredAfterTraefik
<1>2. QED BY <1>1, GInvHolds, PTL DEF ProxyConfiguredFirst, Spec

====
