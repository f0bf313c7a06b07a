----------------------------- MODULE ImagePatch -----------------------------
(***************************************************************************)
(* The container config properties of crux (src/web/crux/src/app/container *)
(* /container.const.ts) and mergeImagePatch of the version page of crux-ui *)
(* (src/web/crux-ui/src/components/projects/versions/version-images-       *)
(* section.tsx, lines 35-42), which applies a PatchVersionImage to the     *)
(* VersionImage the page holds.                                            *)
(*                                                                         *)
(* A JavaScript object is a function from its possible keys to a value or *)
(* Absent (the key is not an own property).  A key explicitly set to      *)
(* undefined holds the value Undefined, which is one of Vals: the spread   *)
(* operator copies it like any other value.  A property value (a list of  *)
(* ports, a routing object) is opaque: the merge copies it whole.          *)
(***************************************************************************)
EXTENDS Naturals, Sequences, TLAPS

CONSTANTS Fields,    \* the keys of a VersionImage other than config
          Vals,      \* the values a key may hold, Undefined among them
          Absent,    \* a key that is not there
          Undefined  \* the JavaScript value undefined

(***************************************************************************)
(* container.const.ts                                                      *)
(***************************************************************************)
COMMON_CONFIG_PROPERTIES ==
  <<"name", "environment", "secrets", "routing", "expose", "user", "tty",
    "configContainer", "ports", "portRanges", "volumes", "commands", "args",
    "initContainers", "storage">>

CRANE_CONFIG_PROPERTIES ==
  <<"deploymentStrategy", "customHeaders", "proxyHeaders", "useLoadBalancer",
    "extraLBAnnotations", "healthCheckConfig", "resourceConfig", "labels",
    "annotations">>

DAGENT_CONFIG_PROPERTIES ==
  <<"logConfig", "restartPolicy", "networkMode", "networks", "dockerLabels">>

ALL_CONFIG_PROPERTIES ==
  COMMON_CONFIG_PROPERTIES \o CRANE_CONFIG_PROPERTIES \o DAGENT_CONFIG_PROPERTIES

\* (typeof ALL_CONFIG_PROPERTIES)[number]: the keys of a container config.
ContainerConfigProperty ==
  {ALL_CONFIG_PROPERTIES[i] : i \in 1..Len(ALL_CONFIG_PROPERTIES)}

(***************************************************************************)
(* Objects and the spread operator.                                        *)
(***************************************************************************)
Object(K) == [K -> Vals \cup {Absent}]

\* A VersionImage has every field; its config may lack any property.  A
\* PatchVersionImage may lack any field, and its config may be absent,
\* undefined or a partial config.
VersionImage == [fields : [Fields -> Vals], config : Object(ContainerConfigProperty)]
PatchVersionImage ==
  [fields : Object(Fields),
   config : Object(ContainerConfigProperty) \cup {Absent, Undefined}]

\* {...a, ...b}: every own key of b overrides, whatever its value.
Spread(a, b) == [k \in DOMAIN a |-> IF b[k] = Absent THEN a[k] ELSE b[k]]

\* ...x where x is not an object copies no key.
AsObject(x) ==
  IF x \in {Absent, Undefined} THEN [k \in ContainerConfigProperty |-> Absent]
  ELSE x

\* A plausible bug: {...oldImage, ...newImage} alone, without the config line.
mergeImagePatchShallow(oldImage, newImage) ==
  [fields |-> Spread(oldImage.fields, newImage.fields),
   config |-> IF newImage.config = Absent THEN oldImage.config
              ELSE AsObject(newImage.config)]

\* mergeImagePatch: the fields of the patch override those of the image,
\* then config is rebuilt from the image's config overridden by the patch's.
mergeImagePatch(oldImage, newImage) ==
  [fields |-> Spread(oldImage.fields, newImage.fields),
   config |-> Spread(oldImage.config, AsObject(newImage.config))]

(***************************************************************************)
(* Properties.                                                             *)
(***************************************************************************)
\* The reference reading of a patch (spec.md 4.2): a value the patch leaves
\* absent keeps the image's, one it gives (undefined included) wins, and
\* the config is merged property by property rather than replaced.
Reference(o, p) ==
  [fields |-> [f \in Fields |->
                 IF p.fields[f] = Absent THEN o.fields[f] ELSE p.fields[f]],
   config |-> [k \in ContainerConfigProperty |->
                 IF p.config \in {Absent, Undefined} \/ p.config[k] = Absent
                   THEN o.config[k] ELSE p.config[k]]]

\* Two patches in a row, as the page applies the answers to two edits of
\* different properties: everything the first one set and the second left
\* absent survives the second, in the fields and in the config.
EditsSurvive(o, p1, p2) ==
  LET r == mergeImagePatch(mergeImagePatch(o, p1), p2)
  IN /\ \A f \in Fields :
          p1.fields[f] # Absent /\ p2.fields[f] = Absent =>
            r.fields[f] = p1.fields[f]
     /\ \A k \in ContainerConfigProperty :
          p1.config \notin {Absent, Undefined} /\ p1.config[k] # Absent
          /\ AsObject(p2.config)[k] = Absent =>
            r.config[k] = p1.config[k]

\* The assumptions on the constants: Absent is no value and no object, and
\* undefined is a value that is not an object.
PatchAssumption ==
  /\ Undefined \in Vals
  /\ Absent \notin Vals
  /\ Absent \notin Object(ContainerConfigProperty)
  /\ Undefined \notin Object(ContainerConfigProperty)

(***************************************************************************)
(* Theorems.                                                               *)
(***************************************************************************)
\* container.const.ts: no config property is listed twice, so the three
\* groups (common, crane-only and dagent-only) are disjoint and every
\* ContainerConfigProperty belongs to exactly one of them.
THEOREM PropertiesListedOnce ==
  \A i, j \in 1..Len(ALL_CONFIG_PROPERTIES) :
    ALL_CONFIG_PROPERTIES[i] = ALL_CONFIG_PROPERTIES[j] => i = j
  BY DEF ALL_CONFIG_PROPERTIES, COMMON_CONFIG_PROPERTIES,
         CRANE_CONFIG_PROPERTIES, DAGENT_CONFIG_PROPERTIES

\* A merged image is again a VersionImage, so patches can be applied one
\* after the other.
LEMMA MergeType ==
  ASSUME PatchAssumption,
         NEW o \in VersionImage, NEW p \in PatchVersionImage
  PROVE  mergeImagePatch(o, p) \in VersionImage
  <1>1. Spread(o.fields, p.fields) \in [Fields -> Vals]
    BY DEF Spread, VersionImage, PatchVersionImage, Object
  <1>2. AsObject(p.config) \in Object(ContainerConfigProperty)
    BY DEF AsObject, PatchVersionImage, Object
  <1>3. Spread(o.config, AsObject(p.config)) \in Object(ContainerConfigProperty)
    BY <1>2 DEF Spread, VersionImage, Object
  <1>. QED  BY <1>1, <1>3 DEF mergeImagePatch, VersionImage

\* mergeImagePatch agrees with the reference reading of a patch on every
\* image and every patch: absent keys keep the image's value, given ones
\* win, and an absent or undefined config leaves the config alone.
THEOREM MergeIsReference ==
  ASSUME PatchAssumption,
         NEW o \in VersionImage, NEW p \in PatchVersionImage
  PROVE  mergeImagePatch(o, p) = Reference(o, p)
  <1>1. Spread(o.fields, p.fields) = Reference(o, p).fields
    BY DEF Spread, Reference, VersionImage
  <1>2. Spread(o.config, AsObject(p.config)) = Reference(o, p).config
    <2>1. CASE p.config \in {Absent, Undefined}
      BY <2>1 DEF Spread, AsObject, Reference, VersionImage, Object
    <2>2. CASE p.config \notin {Absent, Undefined}
      BY <2>2 DEF Spread, AsObject, Reference, VersionImage, Object
    <2>. QED  BY <2>1, <2>2
  <1>. QED  BY <1>1, <1>2 DEF mergeImagePatch, Reference

\* Applying two patches in a row loses nothing of the first that the
\* second does not set again, for every image and every pair of patches.
THEOREM EditsSurviveHolds ==
  ASSUME PatchAssumption,
         NEW o \in VersionImage, NEW p1 \in PatchVersionImage,
         NEW p2 \in PatchVersionImage
  PROVE  EditsSurvive(o, p1, p2)
  <1>. DEFINE m == mergeImagePatch(o, p1)
  <1>1. m \in VersionImage
    BY MergeType
  <1>2. m = Reference(o, p1)
    BY MergeIsReference
  <1>3. mergeImagePatch(m, p2) = Reference(m, p2)
    BY <1>1, MergeIsReference
  <1>4. AsObject(p2.config) \in Object(ContainerConfigProperty)
    BY DEF AsObject, PatchVersionImage, Object
  <1>. QED
    BY <1>2, <1>3, <1>4 DEF EditsSurvive, Reference, AsObject, PatchAssumption

==============================================================================
