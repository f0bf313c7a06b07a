---------------------------- MODULE RunnerProofs ----------------------------
(***************************************************************************)
(* Proofs about the runner of Runner.tla, for every value of the           *)
(* constants: the type invariant, and that a "down" which returns normally *)
(* leaves no managed container behind as long as the Disabled flags are    *)
(* not edited between commands.                                            *)
(***************************************************************************)
EXTENDS Runner, TLAPS

USE ConstAssumption

(***************************************************************************)
(* The two plans walk the managed containers; "down" visits every one.     *)
(***************************************************************************)
LEMMA PlansInManaged ==
  \A j \in 1..N : UpPlan[j] \in Managed /\ DownPlan[j] \in Managed
BY DEF N, UpPlan, DownPlan, Managed, Traefik, CruxPostgres, KratosPostgres,
       KratosMigrate, Kratos, CruxMigrate, Crux, CruxUI, MailSlurper

LEMMA DownPlanCovers ==
  \A c \in Managed : \E j \in 1..N : DownPlan[j] = c
<1> SUFFICES ASSUME NEW c \in Managed PROVE \E j \in 1..N : DownPlan[j] = c
  OBVIOUS
<1> USE DEF N, DownPlan, Managed, Traefik, CruxPostgres, KratosPostgres,
           KratosMigrate, Kratos, CruxMigrate, Crux, CruxUI, MailSlurper
<1>1. CASE c = MailSlurper     BY <1>1
<1>2. CASE c = CruxUI          BY <1>2
<1>3. CASE c = Crux            BY <1>3
<1>4. CASE c = CruxMigrate     BY <1>4
<1>5. CASE c = KratosMigrate   BY <1>5
<1>6. CASE c = Kratos          BY <1>6
<1>7. CASE c = CruxPostgres    BY <1>7
<1>8. CASE c = KratosPostgres  BY <1>8
<1>9. CASE c = Traefik         BY <1>9
<1>10. QED BY <1>1, <1>2, <1>3, <1>4, <1>5, <1>6, <1>7, <1>8, <1>9

(***************************************************************************)
(* Type correctness.                                                       *)
(***************************************************************************)
\* The conjuncts of TypeOK about variables that are not Boolean-valued.
TypeRest ==
  /\ status \in [Managed -> Statuses]
  /\ cmd \in {"idle", "up", "down"}
  /\ step \in 1..N
  /\ phase \in Phases
  /\ last \in Outcomes
  /\ faults \in 0..MaxFaults

LEMMA TypeInit == Init => TypeOK
<1> SUFFICES ASSUME Init PROVE TypeOK
  OBVIOUS
<1>1. status \in [Managed -> Statuses]
  BY DEF Init, Statuses
<1>2. step \in 1..N /\ phase \in Phases /\ last \in Outcomes
  BY DEF Init, N, Phases, Outcomes
<1>3. faults \in 0..MaxFaults /\ cmd \in {"idle", "up", "down"}
  BY DEF Init
<1>4. traefikConf \in BOOLEAN /\ disabled \in [Flags -> BOOLEAN]
  BY Zenon DEF Init
<1>5. QED BY <1>1, <1>2, <1>3, <1>4 DEF TypeOK

LEMMA TypeStep == TypeOK /\ [Next]_vars => TypeOK'
<1> SUFFICES ASSUME TypeOK, [Next]_vars PROVE TypeOK'
  OBVIOUS
\* The Boolean-valued variables, by Zenon.
<1>1. traefikConf' \in BOOLEAN /\ disabled' \in [Flags -> BOOLEAN]
  BY Zenon DEF TypeOK, Next, CliStep, vars, Invoke, EditSettings, UpSkip,
     UpCreate, UpStart, UpWait, UpConfig, DownSkip, DownLookup, DownStop,
     DownRemove, RuntimeError, MigrationExits, ServiceDies, ExternalRemove
\* The others, by SMT, one action at a time.
<1>2. TypeRest'
  <2> USE PlansInManaged DEF TypeOK, TypeRest, Statuses, Phases, Outcomes,
          FirstPhase, Fatal, NextContainer, UpC, DownC, N, Present
  <2>1. CASE Invoke        BY <2>1 DEF Invoke
  <2>2. CASE EditSettings  BY <2>2 DEF EditSettings
  <2>3. CASE UpSkip        BY <2>3 DEF UpSkip
  <2>4. CASE UpCreate      BY <2>4 DEF UpCreate
  <2>5. CASE UpStart       BY <2>5 DEF UpStart
  <2>6. CASE UpWait        BY <2>6 DEF UpWait
  <2>7. CASE UpConfig      BY <2>7 DEF UpConfig
  <2>8. CASE DownSkip      BY <2>8 DEF DownSkip
  <2>9. CASE DownLookup    BY <2>9 DEF DownLookup
  <2>10. CASE DownStop     BY <2>10 DEF DownStop
  <2>11. CASE DownRemove   BY <2>11 DEF DownRemove
  <2>12. CASE RuntimeError BY <2>12 DEF RuntimeError
  <2>13. ASSUME NEW c \in Migrations, MigrationExits(c) PROVE TypeRest'
    BY <2>13 DEF MigrationExits, Migrations, Managed, KratosMigrate,
                 CruxMigrate
  <2>14. ASSUME NEW c \in Managed \ Migrations, ServiceDies(c)
         PROVE TypeRest'
    BY <2>14 DEF ServiceDies
  <2>15. ASSUME NEW c \in Managed, ExternalRemove(c) PROVE TypeRest'
    BY <2>15 DEF ExternalRemove
  <2>16. CASE UNCHANGED vars BY <2>16 DEF vars
  <2>17. QED
    BY <2>1, <2>2, <2>3, <2>4, <2>5, <2>6, <2>7, <2>8, <2>9, <2>10, <2>11,
       <2>12, <2>13, <2>14, <2>15, <2>16 DEF Next, CliStep
<1>3. QED BY <1>1, <1>2 DEF TypeOK, TypeRest

\* The control variables stay in range whatever the CLI and the runtime do.
THEOREM TypeCorrect == Spec => []TypeOK
BY TypeInit, TypeStep, PTL DEF Spec

(***************************************************************************)
(* A "down" that returns normally leaves nothing behind.                   *)
(*                                                                         *)
(* CleanDown alone is not inductive: the last step of a "down" must know   *)
(* that every container visited before was removed.  Two facts give it:    *)
(* StopContainers walks DownPlan and leaves each visited name absent       *)
(* (DownProgress), and a container it skips because its component is      *)
(* disabled was never created (DisabledAbsent), which needs the flags to   *)
(* be the same for "up" and "down".                                        *)
(***************************************************************************)
DisabledAbsent == \A c \in Managed : IsDisabled(c) => ~Present(c)

DownProgress ==
  cmd = "down" => \A j \in 1..N : j < step => ~Present(DownPlan[j])

IInv == TypeOK /\ DisabledAbsent /\ DownProgress /\ CleanDown

\* No step of the runner, the operator or the runtime makes a container
\* appear, except Create() in an "up".
LEMMA OnlyCreateAdds ==
  ASSUME TypeOK, [Next]_vars, ~UpCreate
  PROVE  \A x \in Managed : ~Present(x) => ~Present(x)'
<1> SUFFICES ASSUME NEW x \in Managed, ~Present(x) PROVE ~Present(x)'
  OBVIOUS
<1> USE DEF TypeOK, Present, Statuses, Fatal, NextContainer, UpC, DownC
<1>1. CASE UpStart BY <1>1 DEF UpStart
<1>2. CASE DownStop BY <1>2 DEF DownStop
<1>3. CASE DownRemove BY <1>3 DEF DownRemove
<1>4. ASSUME NEW c \in Migrations, MigrationExits(c) PROVE ~Present(x)'
  BY <1>4 DEF MigrationExits
<1>5. ASSUME NEW c \in Managed \ Migrations, ServiceDies(c)
      PROVE ~Present(x)'
  BY <1>5 DEF ServiceDies
<1>6. ASSUME NEW c \in Managed, ExternalRemove(c) PROVE ~Present(x)'
  BY <1>6 DEF ExternalRemove
<1>7. CASE Invoke \/ EditSettings \/ UpSkip \/ UpWait \/ UpConfig
           \/ DownSkip \/ DownLookup \/ RuntimeError \/ UNCHANGED vars
  <2>1. status' = status
    BY <1>7 DEF Invoke, EditSettings, UpSkip, UpWait, UpConfig, DownSkip,
                DownLookup, RuntimeError, vars
  <2>2. QED BY <2>1
<1>8. QED BY <1>1, <1>2, <1>3, <1>4, <1>5, <1>6, <1>7 DEF Next, CliStep

\* With the Disabled flags fixed, a "down" that returns normally has
\* removed every managed container (runner.go:145-185).
THEOREM CleanDownHolds ==
  ASSUME ~SettingsEditable
  PROVE  Spec => []CleanDown
<1>1. Init => IInv
  <2> SUFFICES ASSUME Init PROVE IInv
    OBVIOUS
  <2>1. TypeOK BY TypeInit
  <2>2. \A c \in Managed : ~Present(c) BY DEF Init, Present
  <2>3. QED BY <2>1, <2>2 DEF IInv, DisabledAbsent, DownProgress, CleanDown,
                              Init
<1>2. IInv /\ [Next]_vars => IInv'
  <2> SUFFICES ASSUME IInv, [Next]_vars PROVE IInv'
    OBVIOUS
  <2>1. TypeOK' BY TypeStep DEF IInv
  <2>2. disabled' = disabled
    BY Zenon DEF Next, CliStep, vars, Invoke, EditSettings, UpSkip, UpCreate,
       UpStart, UpWait, UpConfig, DownSkip, DownLookup, DownStop, DownRemove,
       RuntimeError, MigrationExits, ServiceDies, ExternalRemove
  <2>3. \A c \in Managed : IsDisabled(c)' <=> IsDisabled(c)
    BY <2>2 DEF IsDisabled
  <2>4. DisabledAbsent'
    <3> SUFFICES ASSUME NEW c \in Managed, IsDisabled(c)' PROVE ~Present(c)'
      BY DEF DisabledAbsent
    <3>1. ~Present(c) BY <2>3 DEF IInv, DisabledAbsent
    <3>2. CASE UpCreate
      BY <3>1, <3>2, <2>3 DEF UpCreate, UpC, Fatal, Present, IInv, TypeOK
    <3>3. CASE ~UpCreate BY <3>1, <3>3, OnlyCreateAdds DEF IInv
    <3>4. QED BY <3>2, <3>3
  <2>5. DownProgress'
    <3> SUFFICES ASSUME cmd' = "down", NEW j \in 1..N, j < step'
                 PROVE  ~Present(DownPlan[j])'
      BY DEF DownProgress
    <3> USE PlansInManaged, DownPlanCovers DEF IInv, TypeOK
    <3>1. CASE Invoke BY <3>1 DEF Invoke
    <3>2. CASE UpSkip \/ UpCreate \/ UpStart \/ UpWait \/ UpConfig
      BY <3>2 DEF UpSkip, UpCreate, UpStart, UpWait, UpConfig, Fatal,
                  NextContainer
    <3>3. CASE RuntimeError BY <3>3 DEF RuntimeError, Fatal
    <3>4. CASE DownSkip \/ DownLookup
      \* Both move on only past a name that is absent.
      <4>1. status' = status /\ cmd = "down"
        BY <3>4 DEF DownSkip, DownLookup
      <4>2. step' = step \/ (step' = step + 1 /\ ~Present(DownPlan[step]))
        <5>1. CASE DownSkip
          <6>1. step' = step + 1 BY <5>1 DEF DownSkip, NextContainer
          <6>2. IsDisabled(DownPlan[step]) BY <5>1 DEF DownSkip, DownC
          <6>3. QED BY <6>1, <6>2 DEF DisabledAbsent
        <5>2. CASE DownLookup
          BY <5>2 DEF DownLookup, DownC, NextContainer
        <5>3. QED BY <3>4, <5>1, <5>2
      <4>3. QED BY <4>1, <4>2 DEF DownProgress, Present
    <3>6. CASE DownStop
      \* The name being stopped stays there, and it is not one of the
      \* names already visited, which are absent.
      <4>1. /\ Present(DownPlan[step]) /\ cmd = "down" /\ step' = step
            /\ status' = [status EXCEPT ![DownPlan[step]] =
                            IF @ = "running" THEN "exited" ELSE @]
        BY <3>6 DEF DownStop, DownC, Fatal
      <4>2. ~Present(DownPlan[j]) BY <4>1 DEF DownProgress
      <4>3. DownPlan[j] # DownPlan[step] BY <4>1, <4>2
      <4>4. QED BY <4>1, <4>2, <4>3 DEF Present
    <3>7. CASE DownRemove
      BY <3>7 DEF DownRemove, DownC, Fatal, NextContainer, DownProgress,
                  Present, N
    <3>8. CASE ~Invoke /\ ~UpSkip /\ ~UpCreate /\ ~UpStart /\ ~UpWait
               /\ ~UpConfig /\ ~RuntimeError /\ ~DownSkip /\ ~DownLookup
               /\ ~DownStop /\ ~DownRemove
      <4>1. cmd = "down" /\ step' = step
        BY <3>8 DEF Next, CliStep, vars, EditSettings, MigrationExits,
                    ServiceDies, ExternalRemove
      <4>2. ~Present(DownPlan[j]) BY <4>1 DEF DownProgress
      <4>3. QED BY <4>2, <3>8, OnlyCreateAdds
    <3>9. QED BY <3>1, <3>2, <3>3, <3>4, <3>6, <3>7, <3>8
  <2>6. CleanDown'
    <3> SUFFICES ASSUME cmd' = "idle", last' = "down_ok", NEW c \in Managed
                 PROVE  ~Present(c)'
      BY DEF CleanDown
    <3> USE PlansInManaged DEF IInv, TypeOK
    <3>1. PICK j \in 1..N : DownPlan[j] = c BY DownPlanCovers
    <3>2. CASE cmd = "down" /\ step = N
      \* The last step of a "down": every earlier name is absent, and this
      \* one is removed now.
      <4>1. \A i \in 1..N : i < N => ~Present(DownPlan[i])
        BY <3>2 DEF DownProgress
      <4>2. ~Present(DownPlan[N])'
        <5>1. CASE DownSkip
          <6>1. IsDisabled(DownPlan[N]) /\ status' = status
            BY <5>1, <3>2 DEF DownSkip, DownC
          <6>2. QED BY <6>1 DEF DisabledAbsent, Present, N
        <5>2. CASE DownLookup
          BY <5>2, <3>2 DEF DownLookup, DownC, NextContainer, Present, N
        <5>3. CASE DownRemove
          BY <5>3, <3>2 DEF DownRemove, DownC, Fatal, NextContainer, Present
        <5>4. CASE ~DownSkip /\ ~DownLookup /\ ~DownRemove
          \* No other step of a "down" returns normally.
          BY <5>4, <3>2 DEF Next, CliStep, vars, Invoke, EditSettings,
             UpSkip, UpCreate, UpStart, UpWait, UpConfig, DownStop,
             RuntimeError, MigrationExits, ServiceDies, ExternalRemove, Fatal,
             NextContainer
        <5>5. QED BY <5>1, <5>2, <5>3, <5>4
      <4>3. CASE j < N
        BY <4>1, <4>3, <3>1, OnlyCreateAdds, <3>2 DEF UpCreate
      <4>4. CASE j = N BY <4>2, <4>4, <3>1
      <4>5. QED BY <4>3, <4>4 DEF N
    <3>3. CASE ~(cmd = "down" /\ step = N)
      \* Then the state was already idle after a normal "down".
      <4>1. cmd = "idle" /\ last = "down_ok"
        BY <3>3 DEF Next, CliStep, vars, Invoke, EditSettings, UpSkip,
           UpCreate, UpStart, UpWait, UpConfig, DownSkip, DownLookup,
           DownStop, DownRemove, RuntimeError, MigrationExits, ServiceDies,
           ExternalRemove, Fatal, NextContainer
      <4>2. ~Present(c) BY <4>1 DEF CleanDown
      <4>3. ~UpCreate BY <4>1 DEF UpCreate
      <4>4. QED BY <4>2, <4>3, OnlyCreateAdds
    <3>4. QED BY <3>2, <3>3
  <2>7. QED BY <2>1, <2>4, <2>5, <2>6 DEF IInv
<1>3. IInv => CleanDown BY DEF IInv
<1>4. QED BY <1>1, <1>2, <1>3, PTL DEF Spec

=============================================================================
