-------------------------- MODULE RunnerRefinement --------------------------
(***************************************************************************)
(* Proof that the runner implements the safety part of Stack when nothing  *)
(* outside the CLI removes or kills containers: the refinement mapping of *)
(* Runner (Abs) maps every initial state to an initial state of Stack and *)
(* every step to a step of Stack or a stutter.                             *)
(***************************************************************************)
EXTENDS RunnerProofs

USE ConstAssumption

\* During "up", every enabled container before the current one exists, and
\* so does the current one once Create() has succeeded.
UpProgress ==
  cmd = "up" =>
    /\ \A i \in 1..N : i < step /\ ~IsDisabled(UpPlan[i]) => Present(UpPlan[i])
    /\ phase \in {"start", "wait", "config"} => Present(UpC)

\* During "down", no enabled container before the current one exists, and
\* the current one was looked up because it is enabled.
DownProgressEnabled ==
  cmd = "down" =>
    /\ \A j \in 1..N : j < step /\ ~IsDisabled(DownPlan[j]) => ~Present(DownPlan[j])
    /\ phase \in {"stop", "remove"} => ~IsDisabled(DownC)

RInv == TypeOK /\ UpProgress /\ DownProgressEnabled

(***************************************************************************)
(* The start order.                                                        *)
(***************************************************************************)
\* No container occurs twice in the start order of StartContainers.
LEMMA UpPlanInjective ==
  \A i, j \in 1..N : UpPlan[i] = UpPlan[j] => i = j
BY DEF N, UpPlan, Traefik, CruxPostgres, KratosPostgres, KratosMigrate,
       Kratos, CruxMigrate, Crux, CruxUI, MailSlurper

\* Every managed container occurs in the start order.
LEMMA UpPlanCovers ==
  \A c \in Managed : \E j \in 1..N : UpPlan[j] = c
<1> SUFFICES ASSUME NEW c \in Managed PROVE \E j \in 1..N : UpPlan[j] = c
  OBVIOUS
<1> USE DEF N, UpPlan, Managed, Traefik, CruxPostgres, KratosPostgres,
            KratosMigrate, Kratos, CruxMigrate, Crux, CruxUI, MailSlurper
<1>1. CASE c = Traefik BY <1>1
<1>2. CASE c = CruxPostgres BY <1>2
<1>3. CASE c = KratosPostgres BY <1>3
<1>4. CASE c = KratosMigrate BY <1>4
<1>5. CASE c = Kratos BY <1>5
<1>6. CASE c = CruxMigrate BY <1>6
<1>7. CASE c = Crux BY <1>7
<1>8. CASE c = CruxUI BY <1>8
<1>9. CASE c = MailSlurper BY <1>9
<1>10. QED BY <1>1, <1>2, <1>3, <1>4, <1>5, <1>6, <1>7, <1>8, <1>9

\* The containers before the k-th of the start order are the first k - 1.
LEMMA BeforeIsPrefix ==
  ASSUME NEW k \in 1..N
  PROVE  Abs!Before(UpPlan[k]) = {UpPlan[i] : i \in {j \in 1..N : j < k}}
<1>1. DOMAIN UpPlan = 1..N BY DEF UpPlan, N
<1>2. \A j \in 1..N : (\E m \in 1..N : UpPlan[m] = UpPlan[k] /\ j < m) <=> j < k
  BY UpPlanInjective
<1>3. QED BY <1>1, <1>2 DEF Abs!Before

(***************************************************************************)
(* The invariant.                                                          *)
(***************************************************************************)
\* RInv holds in the initial states.
LEMMA RInvInit == Init => RInv
BY TypeInit DEF Init, RInv, UpProgress, DownProgressEnabled

\* Without faults of the environment, only ContainerRemove in a "down"
\* makes an existing container disappear.
LEMMA OnlyRemoveDrops ==
  ASSUME ~EnvFaults, TypeOK, [Next]_vars, ~DownRemove
  PROVE  \A c \in Managed : Present(c) => Present(c)'
<1> SUFFICES ASSUME NEW c \in Managed, Present(c) PROVE Present(c)'
  OBVIOUS
<1> USE DEF TypeOK, Present, Statuses, Fatal, NextContainer, UpC, DownC
<1>1. CASE UpCreate BY <1>1 DEF UpCreate
<1>2. CASE UpStart BY <1>2 DEF UpStart
<1>3. CASE DownStop BY <1>3 DEF DownStop
<1>4. ASSUME NEW x \in Migrations, MigrationExits(x) PROVE Present(c)'
  BY <1>4 DEF MigrationExits
<1>5. CASE Invoke \/ EditSettings \/ UpSkip \/ UpWait \/ UpConfig
           \/ DownSkip \/ DownLookup \/ RuntimeError \/ UNCHANGED vars
  BY <1>5 DEF Invoke, EditSettings, UpSkip, UpWait, UpConfig, DownSkip,
              DownLookup, RuntimeError, vars
<1>6. QED
  BY <1>1, <1>2, <1>3, <1>4, <1>5 DEF Next, CliStep, ServiceDies,
     ExternalRemove

\* The steps that leave cmd at "up" are Invoke and the steps of StartContainers
\* that neither fail nor return, and MigrationExits.
LEMMA UpProgressStep ==
  ASSUME ~EnvFaults, RInv, [Next]_vars
  PROVE  UpProgress'
<1> SUFFICES ASSUME cmd' = "up"
             PROVE  /\ \A i \in 1..N : i < step' /\ ~IsDisabled(UpPlan[i])'
                                         => Present(UpPlan[i])'
                    /\ phase' \in {"start", "wait", "config"} => Present(UpC)'
  BY DEF UpProgress
<1> USE PlansInManaged DEF RInv, TypeOK
<1>0. ~DownRemove BY DEF DownRemove, NextContainer, Fatal
<1>1. \A c \in Managed : Present(c) => Present(c)' BY <1>0, OnlyRemoveDrops
<1>2. CASE Invoke BY <1>2 DEF Invoke, FirstPhase
<1>3. CASE UpSkip
  <2>1. /\ cmd = "up" /\ step # N /\ step' = step + 1 /\ phase' = "create"
        /\ IsDisabled(UpC) /\ UNCHANGED <<status, disabled>>
    BY <1>3 DEF UpSkip, NextContainer, FirstPhase
  <2>2. \A i \in 1..N : IsDisabled(UpPlan[i])' = IsDisabled(UpPlan[i])
    BY <2>1 DEF IsDisabled
  <2>3. \A i \in 1..N : i < step' /\ ~IsDisabled(UpPlan[i]) => i < step
    BY <2>1 DEF UpC
  <2>4. QED BY <2>1, <2>2, <2>3, <1>1 DEF UpProgress
<1>4. CASE UpCreate
  <2>1. /\ cmd = "up" /\ step' = step /\ phase' = "start" /\ disabled' = disabled
        /\ status' = [status EXCEPT ![UpC] = "created"]
    BY <1>4 DEF UpCreate, Fatal
  <2>2. QED BY <2>1, <1>1 DEF UpProgress, UpC, Present, IsDisabled
<1>5. CASE UpStart
  <2>1. /\ cmd = "up" /\ phase = "start" /\ disabled' = disabled
        /\ status' = [status EXCEPT ![UpC] = "running"]
        /\ \/ step' = step /\ phase' \in {"config", "wait"}
           \/ step # N /\ step' = step + 1 /\ phase' = "create"
    BY <1>5 DEF UpStart, Fatal, NextContainer, FirstPhase
  <2>2. QED BY <2>1, <1>1 DEF UpProgress, UpC, Present, IsDisabled
<1>6. CASE UpWait
  <2>1. /\ cmd = "up" /\ status[UpC] \in {"exited", "failed"} /\ UNCHANGED <<status, disabled>>
        /\ step # N /\ step' = step + 1 /\ phase' = "create"
    BY <1>6 DEF UpWait, Fatal, NextContainer, FirstPhase
  <2>2. QED BY <2>1, <1>1 DEF UpProgress, UpC, Present, IsDisabled
<1>7. CASE UpConfig
  <2>1. /\ cmd = "up" /\ phase = "config" /\ UNCHANGED <<status, disabled>>
        /\ step # N /\ step' = step + 1 /\ phase' = "create"
    BY <1>7 DEF UpConfig, Fatal, NextContainer, FirstPhase
  <2>2. QED BY <2>1, <1>1 DEF UpProgress, UpC, Present, IsDisabled
<1>8. ASSUME NEW x \in Migrations, MigrationExits(x) PROVE UpProgress'
  <2>1. cmd = "up" /\ UNCHANGED <<step, phase, disabled>>
    BY <1>8 DEF MigrationExits
  <2>2. QED BY <2>1, <1>1 DEF UpProgress, UpC, Present, IsDisabled
<1>9. CASE UNCHANGED vars
  BY <1>9, <1>1 DEF vars, UpProgress, UpC, Present, IsDisabled
<1>10. CASE EditSettings \/ DownSkip \/ DownLookup \/ DownStop \/ DownRemove
            \/ RuntimeError
  BY <1>10 DEF EditSettings, DownSkip, DownLookup, DownStop, DownRemove,
               RuntimeError, Fatal, NextContainer
<1>11. QED
  BY <1>2, <1>3, <1>4, <1>5, <1>6, <1>7, <1>8, <1>9, <1>10
  DEF Next, CliStep, ServiceDies, ExternalRemove, UpProgress

\* The steps that leave cmd at "down" are Invoke, the steps of StopContainers
\* that neither fail nor return, and MigrationExits.
LEMMA DownProgressStep ==
  ASSUME ~EnvFaults, RInv, [Next]_vars
  PROVE  DownProgressEnabled'
<1> SUFFICES ASSUME cmd' = "down"
             PROVE  /\ \A j \in 1..N : j < step' /\ ~IsDisabled(DownPlan[j])'
                                         => ~Present(DownPlan[j])'
                    /\ phase' \in {"stop", "remove"} => ~IsDisabled(DownC)'
  BY DEF DownProgressEnabled
<1> USE PlansInManaged DEF RInv, TypeOK
<1>0. ~UpCreate BY DEF UpCreate, Fatal
<1>1. \A c \in Managed : ~Present(c) => ~Present(c)' BY <1>0, OnlyCreateAdds
<1>2. CASE Invoke BY <1>2 DEF Invoke, FirstPhase
<1>3. CASE DownSkip
  <2>1. /\ cmd = "down" /\ step # N /\ step' = step + 1 /\ phase' = "lookup"
        /\ IsDisabled(DownC) /\ UNCHANGED <<status, disabled>>
    BY <1>3 DEF DownSkip, NextContainer, FirstPhase
  <2>2. \A j \in 1..N : IsDisabled(DownPlan[j])' = IsDisabled(DownPlan[j])
    BY <2>1 DEF IsDisabled
  <2>3. \A j \in 1..N : j < step' /\ ~IsDisabled(DownPlan[j]) => j < step
    BY <2>1 DEF DownC
  <2>4. QED BY <2>1, <2>2, <2>3, <1>1 DEF DownProgressEnabled
<1>4. CASE DownLookup
  <2>1. /\ cmd = "down" /\ ~IsDisabled(DownC) /\ UNCHANGED <<status, disabled>>
        /\ \/ step' = step /\ phase' = "stop"
           \/ ~Present(DownC) /\ step # N /\ step' = step + 1 /\ phase' = "lookup"
    BY <1>4 DEF DownLookup, NextContainer, FirstPhase
  <2>2. \A j \in 1..N : IsDisabled(DownPlan[j])' = IsDisabled(DownPlan[j])
    BY <2>1 DEF IsDisabled
  <2>3. QED BY <2>1, <2>2, <1>1 DEF DownProgressEnabled, DownC, Present,
                                     IsDisabled
<1>5. CASE DownStop
  <2>1. /\ cmd = "down" /\ phase = "stop" /\ Present(DownC)
        /\ step' = step /\ phase' = "remove" /\ disabled' = disabled
        /\ status' = [status EXCEPT ![DownC] = IF @ = "running" THEN "exited" ELSE @]
    BY <1>5 DEF DownStop, Fatal
  <2>2. \A c \in Managed : Present(c)' = Present(c)
    BY <2>1 DEF Present, DownC
  <2>3. QED BY <2>1, <2>2 DEF DownProgressEnabled, DownC, IsDisabled
<1>6. CASE DownRemove
  <2>1. /\ cmd = "down" /\ Present(DownC) /\ disabled' = disabled
        /\ status' = [status EXCEPT ![DownC] = "absent"]
        /\ step # N /\ step' = step + 1 /\ phase' = "lookup"
    BY <1>6 DEF DownRemove, NextContainer, FirstPhase, Fatal
  <2>2. \A j \in 1..N : IsDisabled(DownPlan[j])' = IsDisabled(DownPlan[j])
    BY <2>1 DEF IsDisabled
  <2>3. status'[DownPlan[step]] = "absent" BY <2>1 DEF DownC
  <2>4. QED BY <2>1, <2>2, <2>3, <1>1 DEF DownProgressEnabled, DownC, Present
<1>7. ASSUME NEW x \in Migrations, MigrationExits(x) PROVE DownProgressEnabled'
  <2>1. cmd = "down" /\ UNCHANGED <<step, phase, disabled>>
    BY <1>7 DEF MigrationExits
  <2>2. QED BY <2>1, <1>1 DEF DownProgressEnabled, DownC, Present, IsDisabled
<1>8. CASE UNCHANGED vars
  BY <1>8, <1>1 DEF vars, DownProgressEnabled, DownC, Present, IsDisabled
<1>9. CASE EditSettings \/ UpSkip \/ UpCreate \/ UpStart \/ UpWait \/ UpConfig
           \/ RuntimeError
  BY <1>9 DEF EditSettings, UpSkip, UpCreate, UpStart, UpWait, UpConfig,
              RuntimeError, Fatal, NextContainer
<1>10. QED
  BY <1>2, <1>3, <1>4, <1>5, <1>6, <1>7, <1>8, <1>9
  DEF Next, CliStep, ServiceDies, ExternalRemove, DownProgressEnabled

\* Without faults of the environment, every step keeps RInv.
LEMMA RInvStep ==
  ASSUME ~EnvFaults, RInv, [Next]_vars
  PROVE  RInv'
BY TypeStep, UpProgressStep, DownProgressStep DEF RInv

\* RInv holds in every state of a run without faults of the environment.
THEOREM RInvHolds == ~EnvFaults => (Spec => []RInv)
<1> SUFFICES ASSUME ~EnvFaults PROVE Spec => []RInv
  OBVIOUS
<1>1. Init => RInv BY RInvInit
<1>2. RInv /\ [Next]_vars => RInv' BY RInvStep
<1>3. QED BY <1>1, <1>2, PTL DEF Spec

(***************************************************************************)
(* The refinement mapping, step by step.                                   *)
(***************************************************************************)
\* The containers that exist, as Stack sees them.
AbsPresent == {c \in Managed : Present(c)}

\* Stack's enabled containers are those whose Disabled flag is not set.
LEMMA EnabledIsNotDisabled ==
  Abs!Enabled = {c \in Managed : ~IsDisabled(c)}
BY DEF Abs!Enabled, Abs!Off, IsDisabled

\* A step that keeps the command, the flags, the outcome and which containers
\* exist is a stutter of Stack.
LEMMA AbsStutter ==
  ASSUME TypeOK, TypeOK', UNCHANGED <<cmd, disabled, last>>,
         \A c \in Managed : Present(c)' = Present(c)
  PROVE  UNCHANGED Abs!vars
<1>1. AbsPresent' = AbsPresent BY DEF AbsPresent
<1>2. QED BY <1>1 DEF Abs!vars, AbsPresent, AbsOutcome

\* log.Fatal in a command is Stack's Return("error").
LEMMA FatalIsError ==
  ASSUME NEW e \in Outcomes \ {"none", "up_ok", "down_ok"},
         cmd # "idle", Fatal(e), UNCHANGED <<status, disabled>>
  PROVE  Abs!Return("error")
BY DEF Abs!Return, Abs!Finish, Fatal, AbsOutcome, Present

\* When the last container of the start order is done, every enabled
\* container exists.
LEMMA UpDone ==
  ASSUME TypeOK, UpProgress, cmd = "up", step = N, disabled' = disabled,
         \A c \in Managed : Present(c) => Present(c)',
         ~IsDisabled(UpPlan[N]) => Present(UpPlan[N])'
  PROVE  Abs!Enabled \subseteq AbsPresent'
<1> SUFFICES ASSUME NEW c \in Managed, ~IsDisabled(c) PROVE Present(c)'
  BY EnabledIsNotDisabled DEF AbsPresent, Present
<1>2. PICK j \in 1..N : UpPlan[j] = c BY UpPlanCovers
<1>3. CASE j < N BY <1>2, <1>3 DEF UpProgress
<1>4. CASE j = N BY <1>2, <1>4
<1>5. QED BY <1>3, <1>4 DEF N

\* When the last container of the stop order is done, no enabled container
\* is left.
LEMMA DownDone ==
  ASSUME TypeOK, DownProgressEnabled, cmd = "down", step = N,
         disabled' = disabled,
         \A c \in Managed : ~Present(c) => ~Present(c)',
         ~IsDisabled(DownPlan[N]) => ~Present(DownPlan[N])'
  PROVE  Abs!Enabled \cap AbsPresent' = {}
<1> SUFFICES ASSUME NEW c \in Managed, ~IsDisabled(c) PROVE ~Present(c)'
  BY EnabledIsNotDisabled DEF AbsPresent, Present
<1>2. PICK j \in 1..N : DownPlan[j] = c BY DownPlanCovers
<1>3. CASE j < N BY <1>2, <1>3 DEF DownProgressEnabled
<1>4. CASE j = N BY <1>2, <1>4
<1>5. QED BY <1>3, <1>4 DEF N

\* The normal return of "up".
LEMMA UpOk ==
  ASSUME cmd = "up", cmd' = "idle", last' = "up_ok", disabled' = disabled,
         AbsPresent' = AbsPresent, Abs!Enabled \subseteq AbsPresent'
  PROVE  Abs!Return("up_ok")
BY DEF Abs!Return, Abs!Finish, AbsOutcome, AbsPresent

\* The normal return of "down".
LEMMA DownOk ==
  ASSUME cmd = "down", cmd' = "idle", last' = "down_ok", disabled' = disabled,
         AbsPresent' = AbsPresent, Abs!Enabled \cap AbsPresent' = {}
  PROVE  Abs!Return("down_ok")
BY DEF Abs!Return, Abs!Finish, AbsOutcome, AbsPresent

\* NextContainer in an "up", once the current container is done: a stutter,
\* or after the last one the normal return.
LEMMA UpNext ==
  ASSUME TypeOK, TypeOK', UpProgress, cmd = "up", NextContainer,
         disabled' = disabled, \A c \in Managed : Present(c)' = Present(c),
         ~IsDisabled(UpPlan[step]) => Present(UpPlan[step])
  PROVE  [Abs!Next]_Abs!vars
<1>1. CASE step # N
  BY <1>1, AbsStutter DEF NextContainer
<1>2. CASE step = N
  <2>1. cmd' = "idle" /\ last' = "up_ok" BY <1>2 DEF NextContainer
  <2>2. AbsPresent' = AbsPresent BY DEF AbsPresent
  <2>3. Abs!Enabled \subseteq AbsPresent'
    <3>1. \A c \in Managed : Present(c) => Present(c)' OBVIOUS
    <3>2. ~IsDisabled(UpPlan[N]) => Present(UpPlan[N])'
      BY <1>2, PlansInManaged DEF N, Present
    <3>3. QED BY <1>2, <3>1, <3>2, UpDone
  <2>4. Abs!Return("up_ok") BY <2>1, <2>2, <2>3, UpOk
  <2>5. QED BY <2>4 DEF Abs!Next
<1>3. QED BY <1>1, <1>2

\* NextContainer in a "down", once the current container is gone or
\* skipped: a stutter, or after the last one the normal return.
LEMMA DownNext ==
  ASSUME TypeOK, TypeOK', DownProgressEnabled, cmd = "down", NextContainer,
         disabled' = disabled, \A c \in Managed : Present(c)' = Present(c),
         ~IsDisabled(DownPlan[step]) => ~Present(DownPlan[step])
  PROVE  [Abs!Next]_Abs!vars
<1>1. CASE step # N
  BY <1>1, AbsStutter DEF NextContainer
<1>2. CASE step = N
  <2>1. cmd' = "idle" /\ last' = "down_ok" BY <1>2 DEF NextContainer
  <2>2. AbsPresent' = AbsPresent BY DEF AbsPresent
  <2>3. Abs!Enabled \cap AbsPresent' = {}
    <3>1. \A c \in Managed : ~Present(c) => ~Present(c)' OBVIOUS
    <3>2. ~IsDisabled(DownPlan[N]) => ~Present(DownPlan[N])'
      BY <1>2, PlansInManaged DEF N, Present
    <3>3. QED BY <1>2, <3>1, <3>2, DownDone
  <2>4. Abs!Return("down_ok") BY <2>1, <2>2, <2>3, DownOk
  <2>5. QED BY <2>4 DEF Abs!Next
<1>3. QED BY <1>1, <1>2

\* Each step of StartContainers is Create of the current container, Return
\* of an error, the normal return, or a stutter.
LEMMA UpStepRefines ==
  ASSUME RInv, RInv', UpSkip \/ UpCreate \/ UpStart \/ UpWait \/ UpConfig
  PROVE  [Abs!Next]_Abs!vars
<1> USE PlansInManaged DEF RInv
<1>0. cmd = "up" /\ step \in 1..N
  BY DEF UpSkip, UpCreate, UpStart, UpWait, UpConfig, TypeOK
<1>1. CASE UpSkip
  <2>1. NextContainer /\ UNCHANGED <<status, disabled>> /\ IsDisabled(UpPlan[step])
    BY <1>1 DEF UpSkip, UpC
  <2>2. \A c \in Managed : Present(c)' = Present(c) BY <2>1 DEF Present
  <2>3. QED BY <1>0, <2>1, <2>2, UpNext
<1>2. CASE UpCreate
  <2>1. CASE Present(UpC)
    <3>1. Fatal("conflict") /\ UNCHANGED <<status, disabled>>
      BY <1>2, <2>1 DEF UpCreate
    <3>2. Abs!Return("error") BY <1>0, <3>1, FatalIsError DEF Outcomes
    <3>3. QED BY <3>2 DEF Abs!Next
  <2>2. CASE ~Present(UpC)
    <3>1. /\ status' = [status EXCEPT ![UpC] = "created"]
          /\ UNCHANGED <<cmd, last, disabled>> /\ ~IsDisabled(UpC)
      BY <1>2, <2>2 DEF UpCreate
    <3>2. UpC \in Abs!Enabled \ AbsPresent
      BY <1>0, <2>2, <3>1, EnabledIsNotDisabled DEF AbsPresent, UpC
    <3>3. Abs!Before(UpC) \cap Abs!Enabled \subseteq AbsPresent
      <4>1. Abs!Before(UpC) = {UpPlan[i] : i \in {j \in 1..N : j < step}}
        BY <1>0, BeforeIsPrefix DEF UpC
      <4>2. QED BY <1>0, <4>1, EnabledIsNotDisabled DEF UpProgress, AbsPresent
    <3>4. AbsPresent' = AbsPresent \cup {UpC}
      BY <1>0, <3>1 DEF AbsPresent, Present, UpC, TypeOK
    <3>5. Abs!Create(UpC)
      BY <1>0, <3>1, <3>2, <3>3, <3>4 DEF Abs!Create, AbsOutcome, AbsPresent
    <3>6. QED BY <1>0, <3>5 DEF Abs!Next, UpC
  <2>3. QED BY <2>1, <2>2
<1>3. CASE UpStart
  <2>1. Present(UpPlan[step]) BY <1>3 DEF UpStart, UpProgress, UpC
  <2>2. status' = [status EXCEPT ![UpC] = "running"] /\ disabled' = disabled
    BY <1>3, <2>1 DEF UpStart, UpC
  <2>3. \A c \in Managed : Present(c)' = Present(c)
    BY <1>0, <2>1, <2>2 DEF Present, UpC, TypeOK
  <2>4. UNCHANGED <<cmd, last>> \/ NextContainer
    BY <1>3, <2>1 DEF UpStart, UpC
  <2>5. CASE UNCHANGED <<cmd, last>> BY <2>2, <2>3, <2>5, AbsStutter
  <2>6. CASE NextContainer BY <1>0, <2>1, <2>2, <2>3, <2>6, UpNext
  <2>7. QED BY <2>4, <2>5, <2>6
<1>4. CASE UpWait
  <2>1. Present(UpPlan[step]) BY <1>4 DEF UpWait, UpProgress, UpC
  <2>2. UNCHANGED <<status, disabled>> BY <1>4 DEF UpWait
  <2>3. \A c \in Managed : Present(c)' = Present(c) BY <2>2 DEF Present
  <2>4. NextContainer \/ Fatal("notfound")
    BY <1>4 DEF UpWait
  <2>5. CASE NextContainer BY <1>0, <2>1, <2>2, <2>3, <2>5, UpNext
  <2>6. CASE Fatal("notfound")
    <3>1. Abs!Return("error") BY <1>0, <2>2, <2>6, FatalIsError DEF Outcomes
    <3>2. QED BY <3>1 DEF Abs!Next
  <2>7. QED BY <2>4, <2>5, <2>6
<1>5. CASE UpConfig
  <2>1. Present(UpPlan[step]) BY <1>5 DEF UpConfig, UpProgress, UpC
  <2>2. UNCHANGED <<status, disabled>> BY <1>5 DEF UpConfig
  <2>3. \A c \in Managed : Present(c)' = Present(c) BY <2>2 DEF Present
  <2>4. NextContainer \/ Fatal("notfound") BY <1>5 DEF UpConfig
  <2>5. CASE NextContainer BY <1>0, <2>1, <2>2, <2>3, <2>5, UpNext
  <2>6. CASE Fatal("notfound")
    <3>1. Abs!Return("error") BY <1>0, <2>2, <2>6, FatalIsError DEF Outcomes
    <3>2. QED BY <3>1 DEF Abs!Next
  <2>7. QED BY <2>4, <2>5, <2>6
<1>6. QED BY <1>1, <1>2, <1>3, <1>4, <1>5

\* Each step of StopContainers is Remove of the current container (with the
\* normal return after the last one), Return of an error, the normal
\* return, or a stutter.
LEMMA DownStepRefines ==
  ASSUME RInv, RInv', DownSkip \/ DownLookup \/ DownStop \/ DownRemove
  PROVE  [Abs!Next]_Abs!vars
<1> USE PlansInManaged DEF RInv
<1>0. cmd = "down" /\ step \in 1..N
  BY DEF DownSkip, DownLookup, DownStop, DownRemove, TypeOK
<1>1. CASE DownSkip
  <2>1. NextContainer /\ UNCHANGED <<status, disabled>>
        /\ IsDisabled(DownPlan[step])
    BY <1>1 DEF DownSkip, DownC
  <2>2. \A c \in Managed : Present(c)' = Present(c) BY <2>1 DEF Present
  <2>3. QED BY <1>0, <2>1, <2>2, DownNext
<1>2. CASE DownLookup
  <2>1. UNCHANGED <<status, disabled>> BY <1>2 DEF DownLookup
  <2>2. \A c \in Managed : Present(c)' = Present(c) BY <2>1 DEF Present
  <2>3. CASE Present(DownC)
    BY <1>2, <2>1, <2>2, <2>3, AbsStutter DEF DownLookup
  <2>4. CASE ~Present(DownC)
    BY <1>0, <1>2, <2>1, <2>2, <2>4, DownNext DEF DownLookup, DownC
  <2>5. QED BY <2>3, <2>4
<1>3. CASE DownStop
  <2>1. CASE Present(DownC)
    <3>1. /\ status' = [status EXCEPT ![DownC] = IF @ = "running" THEN "exited" ELSE @]
          /\ UNCHANGED <<cmd, last, disabled>>
      BY <1>3, <2>1 DEF DownStop
    <3>2. \A c \in Managed : Present(c)' = Present(c)
      BY <1>0, <3>1 DEF Present, DownC, TypeOK
    <3>3. QED BY <3>1, <3>2, AbsStutter
  <2>2. CASE ~Present(DownC)
    <3>1. Abs!Return("error")
      BY <1>0, <1>3, <2>2, FatalIsError DEF DownStop, Outcomes
    <3>2. QED BY <3>1 DEF Abs!Next
  <2>3. QED BY <2>1, <2>2
<1>4. CASE DownRemove
  <2>1. CASE Present(DownC)
    <3>1. /\ status' = [status EXCEPT ![DownC] = "absent"]
          /\ NextContainer /\ disabled' = disabled /\ phase = "remove"
      BY <1>4, <2>1 DEF DownRemove
    <3>2. DownC \in Abs!Enabled \cap AbsPresent
      BY <1>0, <2>1, <3>1, EnabledIsNotDisabled
      DEF DownProgressEnabled, AbsPresent, DownC
    <3>3. AbsPresent' = AbsPresent \ {DownC}
      BY <1>0, <3>1 DEF AbsPresent, Present, DownC, TypeOK
    <3>4. CASE step # N
      <4>1. UNCHANGED <<cmd, last>> BY <3>1, <3>4 DEF NextContainer
      <4>2. Abs!Remove(DownC)
        BY <1>0, <3>1, <3>2, <3>3, <4>1 DEF Abs!Remove, AbsOutcome, AbsPresent
      <4>3. QED BY <1>0, <4>2 DEF Abs!Next, DownC
    <3>5. CASE step = N
      <4>1. cmd' = "idle" /\ last' = "down_ok" BY <1>0, <3>1, <3>5 DEF NextContainer
      <4>2. \A c \in Managed : ~Present(c) => ~Present(c)'
        BY <1>0, <3>1 DEF Present, TypeOK
      <4>3. ~IsDisabled(DownPlan[N]) => ~Present(DownPlan[N])'
        BY <1>0, <3>1, <3>5 DEF Present, DownC, TypeOK
      <4>4. Abs!Enabled \cap AbsPresent' = {}
        BY <1>0, <3>1, <3>5, <4>2, <4>3, DownDone
      <4>5. Abs!Finish("down_ok")
        BY <1>0, <4>1, <4>4 DEF Abs!Finish, AbsOutcome, AbsPresent
      <4>6. Abs!Remove(DownC)
        BY <1>0, <3>1, <3>2, <3>3, <4>5 DEF Abs!Remove, AbsPresent
      <4>7. QED BY <1>0, <4>6 DEF Abs!Next, DownC
    <3>6. QED BY <3>4, <3>5
  <2>2. CASE ~Present(DownC)
    <3>1. Abs!Return("error")
      BY <1>0, <1>4, <2>2, FatalIsError DEF DownRemove, Outcomes
    <3>2. QED BY <3>1 DEF Abs!Next
  <2>3. QED BY <2>1, <2>2
<1>5. QED BY <1>1, <1>2, <1>3, <1>4

\* Without faults of the environment, every step of the runner maps to a step
\* of Stack or a stutter.
LEMMA StepRefines ==
  ASSUME ~EnvFaults, RInv, [Next]_vars
  PROVE  [Abs!Next]_Abs!vars
<1>0. RInv' BY RInvStep
<1> USE DEF RInv
<1>1. CASE Invoke
  <2>1. Abs!Begin BY <1>1 DEF Invoke, Abs!Begin, AbsOutcome, Present
  <2>2. QED BY <2>1 DEF Abs!Next
<1>2. CASE EditSettings
  <2>1. Abs!Configure
    BY <1>0, <1>2 DEF EditSettings, Abs!Configure, AbsOutcome, Present, TypeOK
  <2>2. QED BY <2>1 DEF Abs!Next
<1>3. CASE UpSkip \/ UpCreate \/ UpStart \/ UpWait \/ UpConfig
  BY <1>0, <1>3, UpStepRefines
<1>4. CASE DownSkip \/ DownLookup \/ DownStop \/ DownRemove
  BY <1>0, <1>4, DownStepRefines
<1>5. CASE RuntimeError
  <2>1. Abs!Return("error") BY <1>5, FatalIsError DEF RuntimeError, Outcomes
  <2>2. QED BY <2>1 DEF Abs!Next
<1>6. ASSUME NEW x \in Migrations, MigrationExits(x) PROVE [Abs!Next]_Abs!vars
  <2>1. status' = [status EXCEPT ![x] = "exited"] \/ status' = [status EXCEPT ![x] = "failed"]
    BY <1>6 DEF MigrationExits
  <2>2. \A c \in Managed : Present(c)' = Present(c)
    BY <2>1, <1>6 DEF MigrationExits, Present, TypeOK
  <2>3. QED BY <1>0, <1>6, <2>2, AbsStutter DEF MigrationExits
<1>7. CASE UNCHANGED vars
  BY <1>0, <1>7, AbsStutter DEF vars, Present
<1>8. QED
  BY <1>1, <1>2, <1>3, <1>4, <1>5, <1>6, <1>7
  DEF Next, CliStep, ServiceDies, ExternalRemove

\* The runner's initial states are initial states of Stack.
LEMMA InitRefines == Init => Abs!Init
BY DEF Init, Abs!Init, AbsOutcome, Present

\* Runner refines the safety part of Stack (StackRefined without its
\* fairness) for every run in which no container dies or is removed outside
\* the CLI: "dyo up" creates only enabled containers, each after the enabled
\* ones before it in StartContainers' order (runner.go:83-131), and returns
\* normally only when all enabled ones exist; "dyo down" removes only
\* enabled ones and returns normally only when none is left
\* (runner.go:145-185); every log.Fatal is Stack's error return.
THEOREM RefinesStack == ~EnvFaults => (Spec => Abs!Safety)
<1> SUFFICES ASSUME ~EnvFaults PROVE Spec => Abs!Safety
  OBVIOUS
<1>1. Spec => []RInv BY RInvHolds
<1>2. RInv /\ [Next]_vars => [Abs!Next]_Abs!vars BY StepRefines
<1>3. QED BY <1>1, <1>2, InitRefines, PTL DEF Spec, Abs!Safety

==============================================================================
