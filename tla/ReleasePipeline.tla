---------------------------- MODULE ReleasePipeline ----------------------------
(***************************************************************************)
(* jenkinsfile: a push to the repository runs a pipeline that reads the     *)
(* image's tags from the registry, bumps the highest X.Y.Z, checks and      *)
(* builds the commit and pushes the image, first under its version and then *)
(* under "latest".  Builds do not overlap (disableConcurrentBuilds).  The   *)
(* images are told apart by the number of the build that made them.         *)
(***************************************************************************)
EXTENDS Naturals

CONSTANT MaxBuilds    \* bound on the number of builds

ASSUME MaxBuildsIsNat == MaxBuilds \in Nat

VARIABLES
  build,       \* number of the current or last build
  stage,       \* its next stage; "idle" if none runs
  version,     \* env.VERSION
  registry,    \* the image behind each version tag, NoImage if there is none
  latest,      \* the image behind "latest"
  unreachable, \* history: builds that could not read the tags
  halfPushed   \* history: builds whose push of "latest" failed

vars == <<build, stage, version, registry, latest, unreachable, halfPushed>>

NoImage == 0

\* The versions that occur within the bound; the program knows no bound.
Versions ==
  {<<major, minor, patch>> : major, minor, patch \in 0..MaxBuilds+1}

Bumps == {"patch", "minor", "major"}
Stages == {"idle", "resolve", "checks", "build", "push", "latest"}

TypeOK ==
  /\ build \in 0..MaxBuilds
  /\ stage \in Stages
  /\ version \in Versions
  /\ registry \in [Versions -> 0..build]
  /\ latest \in 0..build
  /\ unreachable \subseteq 1..build
  /\ halfPushed \subseteq 1..build
  /\ stage \in {"checks", "build", "push"} => \A v \in Versions : registry[v] # build

Init ==
  /\ build = 0
  /\ stage = "idle"
  /\ version = <<1, 0, 0>>
  /\ registry = [v \in Versions |-> NoImage]
  /\ latest = NoImage
  /\ unreachable = {}
  /\ halfPushed = {}

-----------------------------------------------------------------------------
(* The version script *)

\* The order of (major, minor, patch) tuples.
Below(v, w) ==
  \/ v[1] < w[1]
  \/ v[1] = w[1] /\ v[2] < w[2]
  \/ v[1] = w[1] /\ v[2] = w[2] /\ v[3] < w[3]

Tags == {v \in Versions : registry[v] # NoImage}

Start == <<1, 0, 0>>

\* Mutant: the highest patch number, whatever the major and minor numbers are.
HighestPatch(tags) ==
  IF tags = {} THEN Start
  ELSE CHOOSE v \in tags : \A w \in tags : w[3] < v[3] \/ (w[3] = v[3] /\ ~ Below(v, w))

\* max_semver
MaxSemver(tags) ==
  IF tags = {} THEN Start
  ELSE CHOOSE v \in tags : \A w \in tags : ~ Below(v, w)

\* Mutant: a minor bump leaves the patch number.
BumpedKeepingPatch(v, bump) ==
  CASE bump = "patch" -> <<v[1], v[2], v[3] + 1>>
    [] bump = "minor" -> <<v[1], v[2] + 1, v[3]>>
    [] bump = "major" -> <<v[1] + 1, 0, 0>>

Bumped(v, bump) ==
  CASE bump = "patch" -> <<v[1], v[2], v[3] + 1>>
    [] bump = "minor" -> <<v[1], v[2] + 1, 0>>
    [] bump = "major" -> <<v[1] + 1, 0, 0>>

\* The first free patch number from v on.
FirstFree(v, tags) ==
  CHOOSE w \in Versions :
    /\ w[1] = v[1] /\ w[2] = v[2] /\ v[3] <= w[3] /\ w \notin tags
    /\ \A p \in v[3]..w[3]-1 : <<v[1], v[2], p>> \in tags

NextVersion(tags, bump) == FirstFree(Bumped(MaxSemver(tags), bump), tags)

-----------------------------------------------------------------------------
(* The stages *)

\* A push to the repository, or a manual start with a choice of BUMP.
Trigger ==
  /\ stage = "idle"
  /\ build < MaxBuilds
  /\ build' = build + 1
  /\ stage' = "resolve"
  /\ UNCHANGED <<version, registry, latest, unreachable, halfPushed>>

Resolve(bump) ==
  /\ stage = "resolve"
  /\ version' = NextVersion(Tags, bump)
  /\ stage' = "checks"
  /\ UNCHANGED <<build, registry, latest, unreachable, halfPushed>>

\* Any page of the tag list cannot be read: the script prints 1.0.0 and succeeds.
ResolveUnreachable ==
  /\ stage = "resolve"
  /\ version' = Start
  /\ stage' = "checks"
  /\ unreachable' = unreachable \cup {build}
  /\ UNCHANGED <<build, registry, latest, halfPushed>>

\* Mutant: the image is pushed before it is checked.
ChecksPush ==
  /\ stage = "checks"
  /\ stage' = "build"
  /\ registry' = [registry EXCEPT ![version] = build]
  /\ UNCHANGED <<build, version, latest, unreachable, halfPushed>>

\* py_compile of main.py and the build validation test.
Checks ==
  /\ stage = "checks"
  /\ stage' = "build"
  /\ UNCHANGED <<build, version, registry, latest, unreachable, halfPushed>>

\* Registry login and buildah bud.
Build ==
  /\ stage = "build"
  /\ stage' = "push"
  /\ UNCHANGED <<build, version, registry, latest, unreachable, halfPushed>>

\* buildah push "${IMAGE_VERSION}"
Push ==
  /\ stage = "push"
  /\ registry' = [registry EXCEPT ![version] = build]
  /\ stage' = "latest"
  /\ UNCHANGED <<build, version, latest, unreachable, halfPushed>>

\* Mutant: "latest" is pushed if there is none.
PushLatestOnce ==
  /\ stage = "latest"
  /\ latest' = IF latest = NoImage THEN build ELSE latest
  /\ stage' = "idle"
  /\ UNCHANGED <<build, version, registry, unreachable, halfPushed>>

\* buildah push "${IMAGE_LATEST}"
PushLatest ==
  /\ stage = "latest"
  /\ latest' = build
  /\ stage' = "idle"
  /\ UNCHANGED <<build, version, registry, unreachable, halfPushed>>

\* A stage fails: the rest is skipped, and post removes what was built locally.
StageFails ==
  /\ stage \in {"resolve", "checks", "build"}
  /\ stage' = "idle"
  /\ UNCHANGED <<build, version, registry, latest, unreachable, halfPushed>>

\* So does a push, which may have reached the registry.
PushFails ==
  /\ stage \in {"push", "latest"}
  /\ stage' = "idle"
  /\ halfPushed' = halfPushed \cup {build}
  /\ \/ UNCHANGED <<registry, latest>>
     \/ /\ stage = "push"
        /\ registry' = [registry EXCEPT ![version] = build]
        /\ UNCHANGED latest
     \/ stage = "latest" /\ latest' = build /\ UNCHANGED registry
  /\ UNCHANGED <<build, version, unreachable>>

Next ==
  \/ Trigger \/ ResolveUnreachable \/ Checks \/ Build \/ Push \/ PushLatest
  \/ StageFails \/ PushFails
  \/ \E bump \in Bumps : Resolve(bump)

Spec == Init /\ [][Next]_vars

-----------------------------------------------------------------------------
(* Properties *)

(* A release is above everything in the registry, so it replaces no image, unless
   the tags could not be read: then it is 1.0.0 whatever there is already
   (jenkinsfile:118-183). *)
ReleasesRise ==
  stage \in {"checks", "build", "push"} /\ build \notin unreachable
    => \A v \in Tags : Below(v, version)

(* No version is skipped: a bump gives the least version above the highest that
   ends in the zeros of its kind (jenkinsfile:160-183). *)
NoVersionSkipped ==
  stage = "resolve" => \A bump \in Bumps :
    LET next == NextVersion(Tags, bump)
        zeros == {v \in Versions : /\ bump \in {"minor", "major"} => v[3] = 0
                                   /\ bump = "major" => v[2] = 0}
    IN  /\ next \in zeros
        /\ \A v \in zeros : Below(v, next) => ~ Below(MaxSemver(Tags), v)

(* "latest" is the image of the highest version, unless it comes from a build that
   could not read the tags, or a push of the highest one's build failed half way:
   whatever fails, the next complete build sets it right (jenkinsfile:255-273). *)
LatestIsHighest ==
  stage # "latest" /\ Tags # {} /\ latest \notin unreachable
    => registry[MaxSemver(Tags)] \in {latest} \cup halfPushed
==============================================================================
