---------------------------- MODULE TemplateProofs ----------------------------
(***************************************************************************)
(* Proofs about createProjectFromTemplate (TemplateService.tla) for every  *)
(* number of concurrent requests, template registries and images, and     *)
(* every bound on faults: the type and DoneComplete.                       *)
(*                                                                         *)
(* Both hold request by request: what another request, a registry       *)
(* deletion or a rejected await does never touches the project, version  *)
(* and images a request holds.  What a request's own steps need is where  *)
(* it is in createProjectFromTemplate (Progress): a version is created     *)
(* only when findFirst found none, so a project has at most one, and the  *)
(* images exist exactly when the request is done.                         *)
(***************************************************************************)
EXTENDS TemplateService, TLAPS

USE TemplateAssumption

\* What request r holds at each point of createProjectFromTemplate.
Progress(r) ==
  /\ pc[r] \in {"findVersion", "createVersion", "lookup", "images", "done"}
       => project[r]
  /\ pc[r] = "createVersion" => versions[r] = 0
  /\ pc[r] \in {"lookup", "images", "done"} => version[r] /\ versions[r] = 1
  /\ images[r] = IF pc[r] = "done" THEN Images ELSE {}

TInv == TypeOK /\ \A r \in Requests : Progress(r)

\* TInv holds in the initial states.
LEMMA TInvInit == Init => TInv
BY DEF Init, TInv, TypeOK, Progress, PCs

\* Every step keeps TInv: one case per action.
LEMMA TInvStep == TInv /\ [Next]_vars => TInv'
<1> SUFFICES ASSUME TInv, [Next]_vars PROVE TInv'
  OBVIOUS
<1> USE DEF TInv, TypeOK, Progress, PCs, Fail, Goto
<1>1. ASSUME NEW r \in Requests, Start(r) PROVE TInv'
  BY <1>1 DEF Start
<1>2. ASSUME NEW r \in Requests, FindRegistries(r) PROVE TInv'
  BY <1>2 DEF FindRegistries, Existing
<1>3. ASSUME NEW r \in Requests, RegistriesCreated(r) PROVE TInv'
  BY <1>3 DEF RegistriesCreated
<1>4. ASSUME NEW r \in Requests, CreateProject(r) PROVE TInv'
  BY <1>4 DEF CreateProject
<1>5. ASSUME NEW r \in Requests, FindVersion(r) PROVE TInv'
  BY <1>5 DEF FindVersion
<1>6. ASSUME NEW r \in Requests, CreateVersion(r) PROVE TInv'
  BY <1>6 DEF CreateVersion
<1>7. ASSUME NEW r \in Requests, LookupRegistries(r) PROVE TInv'
  BY <1>7 DEF LookupRegistries, Existing
<1>8. ASSUME NEW r \in Requests, CreateImages(r) PROVE TInv'
  <2>1. CASE \E i \in Images : RegOf[i] \notin lookup[r] \cap Existing
    \* find(...).id throws: the request fails with no image.
    <3>1. pc' = [pc EXCEPT ![r] = "failed"] /\ pc[r] = "images" /\ images' = images
          /\ UNCHANGED <<ptype, pending, regs, project, versions, version, lookup,
                         faults, unique>>
      BY <1>8, <2>1 DEF CreateImages
    <3>2. QED BY <3>1
  <2>2. CASE ~\E i \in Images : RegOf[i] \notin lookup[r] \cap Existing
    \* The transaction inserts every image and the request is done.
    <3>1. pc' = [pc EXCEPT ![r] = "done"] /\ pc[r] = "images"
          /\ images' = [images EXCEPT ![r] = Images]
          /\ UNCHANGED <<ptype, pending, regs, project, versions, version, lookup,
                         faults, unique>>
      BY <1>8, <2>2 DEF CreateImages
    <3>2. QED BY <3>1
  <2>3. QED BY <2>1, <2>2
<1>9. ASSUME NEW r \in Requests, AwaitRejects(r) PROVE TInv'
  BY <1>9 DEF AwaitRejects, Awaiting
<1>10. ASSUME NEW r \in Requests, NEW g \in TemplateRegs, RegistrySettles(r, g)
       PROVE TInv'
  <2>1. /\ pending' = [pending EXCEPT ![r] = @ \ {g}]
        /\ pc' = pc \/ (pc[r] = "createRegs" /\ pc' = [pc EXCEPT ![r] = "failed"])
        /\ regs' = regs \/ regs' = [regs EXCEPT ![g] = @ + 1]
        /\ UNCHANGED <<ptype, project, versions, version, images, lookup, faults,
                       unique>>
    BY <1>10 DEF RegistrySettles
  <2>2. QED BY <2>1
<1>11. ASSUME NEW r \in Requests, NEW g \in TemplateRegs, RegistryFails(r, g)
       PROVE TInv'
  BY <1>11 DEF RegistryFails
<1>12. ASSUME NEW g \in TemplateRegs, RegistryDeleted(g) PROVE TInv'
  BY <1>12 DEF RegistryDeleted
<1>13. CASE UNCHANGED vars BY <1>13 DEF vars
<1>14. QED
  BY <1>1, <1>2, <1>3, <1>4, <1>5, <1>6, <1>7, <1>8, <1>9, <1>10, <1>11,
     <1>12, <1>13 DEF Next, Step

\* TInv holds in every reachable state.
THEOREM TInvHolds == Spec => []TInv
BY TInvInit, TInvStep, PTL DEF Spec

\* The type of every variable, and an import never gives a project a second
\* version, whatever createProject did and whatever the other requests do.
THEOREM TemplateTypeCorrect == Spec => []TypeOK
<1>1. TInv => TypeOK BY DEF TInv
<1>2. QED BY <1>1, TInvHolds, PTL

\* DoneComplete: a request that returns its project has given it exactly one
\* version, the one it holds, with every image of the template.
THEOREM DoneCompleteHolds == Spec => []DoneComplete
<1>1. TInv => DoneComplete BY DEF TInv, Progress, DoneComplete
<1>2. QED BY <1>1, TInvHolds, PTL

====
