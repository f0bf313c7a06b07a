--------------------------- MODULE TemplateService ---------------------------
(***************************************************************************)
(* TemplateService.createProjectFromTemplate and createVersion            *)
(* (src/unnamed/part_001, lines 38-87 and 137-230): concurrent requests   *)
(* of one team import the same template.  Each request is a sequence of   *)
(* awaits against the database, and other requests and other users act   *)
(* between any two of them:                                                *)
(*   findMany registries -> Promise.all(createRegistry ...)               *)
(*   -> createProject -> version findFirst -> [createVersion]             *)
(*   -> findMany registries -> $transaction(image.create ...).            *)
(* Every await may reject; a rejection ends the request ("failed"), with  *)
(* what earlier awaits wrote left in the database.  Registry contents,    *)
(* image names, tags and configs are abstracted away: a registry is its   *)
(* name, an image its position in the template.                           *)
(***************************************************************************)
EXTENDS Naturals, FiniteSets

CONSTANTS Requests,            \* concurrent createProjectFromTemplate calls
          TemplateRegs,        \* template.registries (their names)
          NImages,             \* Len(template.images)
          RegOf,               \* registryName of each template image
          MaxFaults            \* bound on rejected awaits and deletions

ASSUME TemplateAssumption ==
  /\ IsFiniteSet(TemplateRegs)
  /\ NImages \in Nat
  /\ RegOf \in [1..NImages -> TemplateRegs]
  /\ MaxFaults \in Nat

VARIABLES pc,       \* where each request is
          ptype,    \* req.type
          pending,  \* createRegistry promises of a request not settled yet
          regs,     \* number of registries of the team with each name
          project,  \* the request's project exists
          versions, \* number of versions of that project
          version,  \* the request holds a version (its `version` local)
          images,   \* template positions with an image in that version
          lookup,   \* registryLookup: names the second findMany returned
          faults,
          unique    \* the schema refuses a second registry name per team

vars == <<pc, ptype, pending, regs, project, versions, version, images,
          lookup, faults, unique>>

Images == 1..NImages

PCs == {"idle", "findRegs", "createRegs", "createProject", "findVersion",
        "createVersion", "lookup", "images", "done", "failed"}

\* The awaits a rejection can end (createRegs rejects through a promise).
Awaiting == {"findRegs", "createProject", "findVersion", "createVersion",
             "lookup", "images"}

Existing == {g \in TemplateRegs : regs[g] > 0}

Fail(r) == pc' = [pc EXCEPT ![r] = "failed"]
Goto(r, l) == pc' = [pc EXCEPT ![r] = l]

(***************************************************************************)
(* createProjectFromTemplate                                               *)
(***************************************************************************)
\* The request arrives; getTemplateById; skip the registry block when the
\* template has no registries.
Start(r) ==
  /\ pc[r] = "idle"
  /\ \E t \in {"versioned", "versionless"} : ptype' = [ptype EXCEPT ![r] = t]
  /\ Goto(r, IF TemplateRegs # {} THEN "findRegs" ELSE "createProject")
  /\ UNCHANGED <<pending, regs, project, versions, version, images, lookup,
                 faults>>
  /\ UNCHANGED unique

\* counts = findMany(names in template, team); every template registry not
\* found gets a createRegistry promise, all of them started at once.
FindRegistries(r) ==
  /\ pc[r] = "findRegs"
  /\ pending' = [pending EXCEPT ![r] = TemplateRegs \ Existing]
  /\ Goto(r, "createRegs")
  /\ UNCHANGED <<ptype, regs, project, versions, version, images, lookup,
                 faults>>
  /\ UNCHANGED unique

\* One createRegistry promise settles.  It inserts the registry, or it is
\* refused because the name exists by now; a refusal rejects Promise.all
\* (once: a request that already failed stays failed), and the promises
\* still pending run on.
RegistrySettles(r, g) ==
  /\ g \in pending[r]
  /\ pending' = [pending EXCEPT ![r] = @ \ {g}]
  /\ IF unique /\ regs[g] > 0
       THEN /\ IF pc[r] = "createRegs" THEN Fail(r) ELSE UNCHANGED pc
            /\ UNCHANGED regs
       ELSE /\ regs' = [regs EXCEPT ![g] = @ + 1]
            /\ UNCHANGED pc
  /\ UNCHANGED <<ptype, project, versions, version, images, lookup, faults>>
  /\ UNCHANGED unique

\* A createRegistry promise rejects for another reason (database error).
RegistryFails(r, g) ==
  /\ g \in pending[r]
  /\ faults < MaxFaults
  /\ pending' = [pending EXCEPT ![r] = @ \ {g}]
  /\ IF pc[r] = "createRegs" THEN Fail(r) ELSE UNCHANGED pc
  /\ faults' = faults + 1
  /\ UNCHANGED <<ptype, regs, project, versions, version, images, lookup>>
  /\ UNCHANGED unique

\* await Promise.all(createRegistries) resolves.
RegistriesCreated(r) ==
  /\ pc[r] = "createRegs"
  /\ pending[r] = {}
  /\ Goto(r, "createProject")
  /\ UNCHANGED <<ptype, pending, regs, project, versions, version, images,
                 lookup, faults>>
  /\ UNCHANGED unique

\* projectService.createProject.  Whether it gives a versionless project
\* its default version is ProjectService's business (not under src/), so
\* both are allowed; a versioned project starts without versions.
CreateProject(r) ==
  /\ pc[r] = "createProject"
  /\ project' = [project EXCEPT ![r] = TRUE]
  /\ \E d \in IF ptype[r] = "versionless" THEN {0, 1} ELSE {0} :
       versions' = [versions EXCEPT ![r] = d]
  /\ Goto(r, "findVersion")
  /\ UNCHANGED <<ptype, pending, regs, version, images, lookup, faults>>
  /\ UNCHANGED unique

(***************************************************************************)
(* createVersion                                                           *)
(***************************************************************************)
\* A plausible bug: the `version === null` check is missing.
FindVersionAlwaysCreate(r) ==
  /\ pc[r] = "findVersion"
  /\ Goto(r, "createVersion")
  /\ UNCHANGED <<ptype, pending, regs, project, versions, version, images,
                 lookup, faults>>
  /\ UNCHANGED unique

\* A plausible bug: the branch is inverted; a missing version is never made.
FindVersionNeverCreate(r) ==
  /\ pc[r] = "findVersion"
  /\ version' = [version EXCEPT ![r] = versions[r] > 0]
  /\ Goto(r, "lookup")
  /\ UNCHANGED <<ptype, pending, regs, project, versions, images, lookup,
                 faults>>
  /\ UNCHANGED unique

\* version = findFirst(name 1.0.0 or the versionless name, project); the
\* only version the new project can have is the one createProject made.
FindVersion(r) ==
  /\ pc[r] = "findVersion"
  /\ version' = [version EXCEPT ![r] = versions[r] > 0]
  /\ Goto(r, IF versions[r] > 0 THEN "lookup" ELSE "createVersion")
  /\ UNCHANGED <<ptype, pending, regs, project, versions, images, lookup,
                 faults>>
  /\ UNCHANGED unique

\* versionService.createVersion(1.0.0, incremental), then findFirst by id.
CreateVersion(r) ==
  /\ pc[r] = "createVersion"
  /\ versions' = [versions EXCEPT ![r] = @ + 1]
  /\ version' = [version EXCEPT ![r] = TRUE]
  /\ Goto(r, "lookup")
  /\ UNCHANGED <<ptype, pending, regs, project, images, lookup, faults>>
  /\ UNCHANGED unique

\* registryLookup = findMany(registry names of the images, team).
LookupRegistries(r) ==
  /\ pc[r] = "lookup"
  /\ lookup' = [lookup EXCEPT ![r] = Existing]
  /\ Goto(r, "images")
  /\ UNCHANGED <<ptype, pending, regs, project, versions, version, images,
                 faults>>
  /\ UNCHANGED unique

\* templateImages.map: registryLookup.find(...).id throws a TypeError when
\* an image's registry was not found; otherwise $transaction(images)
\* inserts them all (a connect to a registry deleted since the lookup
\* fails the transaction).
CreateImages(r) ==
  /\ pc[r] = "images"
  /\ IF \E i \in Images : RegOf[i] \notin lookup[r] \cap Existing
       THEN Fail(r) /\ UNCHANGED images
       ELSE /\ images' = [images EXCEPT ![r] = Images]
            /\ Goto(r, "done")
  /\ UNCHANGED <<ptype, pending, regs, project, versions, version, lookup,
                 faults>>
  /\ UNCHANGED unique

(***************************************************************************)
(* Failures and other users.                                               *)
(***************************************************************************)
\* The await the request is in rejects (database error, timeout).
AwaitRejects(r) ==
  /\ pc[r] \in Awaiting
  /\ faults < MaxFaults
  /\ Fail(r)
  /\ faults' = faults + 1
  /\ UNCHANGED <<ptype, pending, regs, project, versions, version, images,
                 lookup>>
  /\ UNCHANGED unique

\* Another user of the team deletes a registry.
RegistryDeleted(g) ==
  /\ regs[g] > 0
  /\ faults < MaxFaults
  /\ regs' = [regs EXCEPT ![g] = @ - 1]
  /\ faults' = faults + 1
  /\ UNCHANGED <<pc, ptype, pending, project, versions, version, images,
                 lookup>>
  /\ UNCHANGED unique

Init ==
  /\ pc = [r \in Requests |-> "idle"]
  /\ ptype = [r \in Requests |-> "versioned"]
  /\ pending = [r \in Requests |-> {}]
  /\ regs \in [TemplateRegs -> {0, 1}]
  /\ project = [r \in Requests |-> FALSE]
  /\ versions = [r \in Requests |-> 0]
  /\ version = [r \in Requests |-> FALSE]
  /\ images = [r \in Requests |-> {}]
  /\ lookup = [r \in Requests |-> {}]
  /\ faults = 0
  /\ unique \in BOOLEAN

\* The steps a request takes by itself.
Step(r) ==
  \/ Start(r) \/ FindRegistries(r) \/ RegistriesCreated(r)
  \/ CreateProject(r) \/ FindVersion(r) \/ CreateVersion(r)
  \/ LookupRegistries(r) \/ CreateImages(r)

Next ==
  \/ \E r \in Requests : Step(r) \/ AwaitRejects(r)
  \/ \E r \in Requests, g \in TemplateRegs :
       RegistrySettles(r, g) \/ RegistryFails(r, g)
  \/ \E g \in TemplateRegs : RegistryDeleted(g)

\* The event loop keeps running a request whose await has resolved, and the
\* database answers every call; requests need not arrive.
Fairness ==
  \A r \in Requests :
    /\ WF_vars(Step(r) /\ pc[r] # "idle")
    /\ \A g \in TemplateRegs : WF_vars(RegistrySettles(r, g))

Spec == Init /\ [][Next]_vars /\ Fairness

(***************************************************************************)
(* Properties.                                                             *)
(***************************************************************************)
\* Types; a project never gets a second version from an import, whatever
\* ProjectService did and whatever the other requests do.
TypeOK ==
  /\ pc \in [Requests -> PCs]
  /\ ptype \in [Requests -> {"versioned", "versionless"}]
  /\ pending \in [Requests -> SUBSET TemplateRegs]
  /\ regs \in [TemplateRegs -> Nat]
  /\ project \in [Requests -> BOOLEAN]
  /\ versions \in [Requests -> 0..1]
  /\ version \in [Requests -> BOOLEAN]
  /\ images \in [Requests -> SUBSET Images]
  /\ lookup \in [Requests -> SUBSET TemplateRegs]
  /\ faults \in 0..MaxFaults
  /\ unique \in BOOLEAN

\* A request that returns its project has given it exactly one version, the
\* one it holds, with every image of the template, although other requests
\* and users created and deleted registries in between.
DoneComplete ==
  \A r \in Requests :
    pc[r] = "done" =>
      /\ project[r] /\ version[r] /\ versions[r] = 1
      /\ images[r] = Images

==============================================================================
