------------------------- MODULE ReleasePipelineProofs -------------------------
(***************************************************************************)
(* Proofs about ReleasePipeline, for any number of builds.                  *)
(***************************************************************************)
EXTENDS ReleasePipeline, TLAPS

-----------------------------------------------------------------------------
(* Versions *)

LEMMA VersionParts ==
  ASSUME NEW v \in Versions
  PROVE  /\ v[1] \in 0..MaxBuilds+1 /\ v[2] \in 0..MaxBuilds+1 /\ v[3] \in 0..MaxBuilds+1
         /\ v[1] \in Nat /\ v[2] \in Nat /\ v[3] \in Nat
         /\ v = <<v[1], v[2], v[3]>>
BY MaxBuildsIsNat DEF Versions

LEMMA VersionMade ==
  ASSUME NEW a \in 0..MaxBuilds+1, NEW b \in 0..MaxBuilds+1, NEW c \in 0..MaxBuilds+1
  PROVE  <<a, b, c>> \in Versions
BY DEF Versions

(* (major, minor, patch) tuples are in a strict total order. *)
LEMMA BelowOrder ==
  ASSUME NEW v \in Versions, NEW w \in Versions, NEW x \in Versions
  PROVE  /\ ~ Below(v, v)
         /\ Below(v, w) \/ Below(w, v) \/ v = w
         /\ Below(v, w) /\ Below(w, x) => Below(v, x)
         /\ Below(v, w) => ~ Below(w, v)
<1>1. /\ v[1] \in Nat /\ v[2] \in Nat /\ v[3] \in Nat /\ v = <<v[1], v[2], v[3]>>
      /\ w[1] \in Nat /\ w[2] \in Nat /\ w[3] \in Nat /\ w = <<w[1], w[2], w[3]>>
      /\ x[1] \in Nat /\ x[2] \in Nat /\ x[3] \in Nat
  BY VersionParts
<1>2. Below(v, w) \/ Below(w, v) \/ v = w
  <2>1. CASE v[1] = w[1] /\ v[2] = w[2] /\ v[3] = w[3]
    BY <1>1, <2>1
  <2>2. CASE ~ (v[1] = w[1] /\ v[2] = w[2] /\ v[3] = w[3])
    BY <1>1, <2>2 DEF Below
  <2> QED
    BY <2>1, <2>2
<1> QED
  BY <1>1, <1>2 DEF Below

\* v is the highest of the tags.
Highest(v, tags) == v \in tags /\ \A w \in tags : ~ Below(v, w)

LEMMA MaxIsHighest ==
  ASSUME NEW tags \in SUBSET Versions, NEW v, Highest(v, tags)
  PROVE  MaxSemver(tags) = v
<1>1. tags # {} /\ v \in Versions
  BY DEF Highest
<1>2. MaxSemver(tags) = CHOOSE m \in tags : \A w \in tags : ~ Below(m, w)
  BY <1>1 DEF MaxSemver
<1>3. Highest(MaxSemver(tags), tags)
  BY <1>2 DEF Highest
<1>4. MaxSemver(tags) \in Versions
  BY <1>3 DEF Highest
<1> QED
  BY <1>1, <1>3, <1>4, BelowOrder DEF Highest

(* A new tag is the highest one, or the highest one stays. *)
LEMMA HighestGrows ==
  ASSUME NEW tags \in SUBSET Versions, NEW v, Highest(v, tags), NEW w \in Versions
  PROVE  Highest(IF Below(v, w) THEN w ELSE v, tags \cup {w})
<1>1. v \in Versions /\ v \in tags /\ \A x \in tags : x \in Versions /\ ~ Below(v, x)
  BY DEF Highest
<1>2. CASE Below(v, w)
  <2>1. ASSUME NEW x \in tags PROVE ~ Below(w, x)
    BY <1>1, <1>2, BelowOrder
  <2> QED
    BY <1>2, <2>1, BelowOrder DEF Highest
<1>3. CASE ~ Below(v, w)
  BY <1>1, <1>3 DEF Highest
<1> QED
  BY <1>2, <1>3

LEMMA SingletonHighest ==
  ASSUME NEW w \in Versions
  PROVE  Highest(w, {w})
BY BelowOrder DEF Highest

-----------------------------------------------------------------------------
(* The next version *)

\* No part of the version is above n; a build raises this by one.
UpTo(v, n) == v[1] <= n /\ v[2] <= n /\ v[3] <= n

\* The versions a bump may lead to.
Zeros(bump) ==
  {v \in Versions : /\ bump \in {"minor", "major"} => v[3] = 0
                    /\ bump = "major" => v[2] = 0}

LEMMA BumpedParts ==
  ASSUME NEW n \in 0..MaxBuilds, NEW v \in Versions, UpTo(v, n), NEW bump \in Bumps
  PROVE  /\ Bumped(v, bump) \in Versions
         /\ UpTo(Bumped(v, bump), n + 1)
         /\ Below(v, Bumped(v, bump))
         /\ Bumped(v, bump) \in Zeros(bump)
         /\ \A w \in Zeros(bump) : Below(w, Bumped(v, bump)) => ~ Below(v, w)
<1> USE MaxBuildsIsNat
<1>1. /\ v[1] \in 0..n /\ v[2] \in 0..n /\ v[3] \in 0..n
  BY VersionParts DEF UpTo
<1>2. \A w \in Versions : w[1] \in Nat /\ w[2] \in Nat /\ w[3] \in Nat
  BY VersionParts
<1>3. CASE bump = "patch"
  <2>1. Bumped(v, bump) = <<v[1], v[2], v[3] + 1>>
    BY <1>3 DEF Bumped
  <2>2. Bumped(v, bump) \in Versions
    BY <1>1, <2>1, VersionMade
  <2> QED
    BY <1>1, <1>2, <1>3, <2>1, <2>2 DEF UpTo, Below, Zeros
<1>4. CASE bump = "minor"
  <2>1. Bumped(v, bump) = <<v[1], v[2] + 1, 0>>
    BY <1>4 DEF Bumped
  <2>2. Bumped(v, bump) \in Versions
    BY <1>1, <2>1, VersionMade
  <2> QED
    BY <1>1, <1>2, <1>4, <2>1, <2>2 DEF UpTo, Below, Zeros
<1>5. CASE bump = "major"
  <2>1. Bumped(v, bump) = <<v[1] + 1, 0, 0>>
    BY <1>5 DEF Bumped
  <2>2. Bumped(v, bump) \in Versions
    BY <1>1, <2>1, VersionMade
  <2> QED
    BY <1>1, <1>2, <1>5, <2>1, <2>2 DEF UpTo, Below, Zeros
<1> QED
  BY <1>3, <1>4, <1>5 DEF Bumps

(* A slot that is free is the first free one. *)
LEMMA FreeSlot ==
  ASSUME NEW v \in Versions, NEW tags, v \notin tags
  PROVE  FirstFree(v, tags) = v
<1> DEFINE P(w) == /\ w[1] = v[1] /\ w[2] = v[2] /\ v[3] <= w[3] /\ w \notin tags
                   /\ \A p \in v[3]..w[3]-1 : <<v[1], v[2], p>> \in tags
<1>1. v[3] \in Nat /\ v = <<v[1], v[2], v[3]>>
  BY VersionParts
<1>2. P(v)
  BY <1>1
<1>3. ASSUME NEW w \in Versions, P(w) PROVE w = v
  <2>1. w[3] \in Nat /\ w = <<w[1], w[2], w[3]>>
    BY VersionParts
  <2>2. ~ (v[3] <= w[3] - 1)
    <3> SUFFICES ASSUME v[3] <= w[3] - 1 PROVE FALSE
      OBVIOUS
    <3>1. v[3] \in v[3]..w[3]-1
      BY <1>1, <2>1
    <3>2. <<v[1], v[2], v[3]>> \in tags
      BY <1>3, <3>1
    <3> QED
      BY <1>1, <3>2
  <2>3. w[3] = v[3]
    BY <1>1, <1>3, <2>1, <2>2
  <2> QED
    BY <1>1, <1>3, <2>1, <2>3
<1>4. FirstFree(v, tags) = CHOOSE w \in Versions : P(w)
  BY DEF FirstFree
<1> HIDE DEF P
<1> QED
  BY <1>2, <1>3, <1>4

(* The version script finds the bump of the highest tag free (jenkinsfile:143-176). *)
LEMMA NextIsBumped ==
  ASSUME NEW n \in 0..MaxBuilds, NEW tags \in SUBSET Versions, NEW bump \in Bumps,
         NEW m \in Versions, UpTo(m, n), \A v \in tags : ~ Below(m, v), MaxSemver(tags) = m
  PROVE  /\ NextVersion(tags, bump) = Bumped(m, bump)
         /\ \A v \in tags : Below(v, Bumped(m, bump))
<1>1. Bumped(m, bump) \in Versions /\ Below(m, Bumped(m, bump))
  BY BumpedParts
<1>2. ASSUME NEW v \in tags PROVE Below(v, Bumped(m, bump))
  BY <1>1, BelowOrder
<1>3. Bumped(m, bump) \notin tags
  BY <1>1, <1>2, BelowOrder
<1> QED
  BY <1>1, <1>2, <1>3, FreeSlot DEF NextVersion

-----------------------------------------------------------------------------
(* The invariant *)

\* How far the versions have come.
Reach == IF stage = "resolve" THEN build ELSE build + 1

Bounded ==
  /\ stage # "idle" => build > 0
  /\ stage = "resolve" => \A v \in Versions : registry[v] # build
  /\ \A v \in Tags : UpTo(v, Reach)
  /\ UpTo(version, build + 1)

HasHighest == Tags # {} => \E v \in Tags : Highest(v, Tags)

\* Between its two pushes a build may be ahead of "latest".
LatestFollows ==
  /\ Tags # {} /\ latest \notin unreachable
     => \/ registry[MaxSemver(Tags)] \in {latest} \cup halfPushed
        \/ stage = "latest" /\ registry[MaxSemver(Tags)] = build
  /\ stage = "latest" /\ build \notin unreachable => registry[MaxSemver(Tags)] = build

ReleaseInv == TypeOK /\ Bounded /\ HasHighest /\ ReleasesRise /\ LatestFollows

LEMMA StartIsVersion == Start \in Versions /\ \A n \in Nat : n > 0 => UpTo(Start, n)
<1>1. 0 \in 0..MaxBuilds+1 /\ 1 \in 0..MaxBuilds+1
  BY MaxBuildsIsNat
<1> QED
  BY <1>1, VersionMade DEF Start, UpTo

(* At "resolve" there is a version no tag is above, the one the script starts from. *)
LEMMA ScriptStart ==
  ASSUME ReleaseInv, stage = "resolve"
  PROVE  /\ MaxSemver(Tags) \in Versions /\ UpTo(MaxSemver(Tags), build)
         /\ build \in 0..MaxBuilds /\ Tags \in SUBSET Versions
         /\ \A v \in Tags : ~ Below(MaxSemver(Tags), v)
<1>1. build \in 0..MaxBuilds /\ build > 0 /\ Tags \in SUBSET Versions
  BY DEF ReleaseInv, TypeOK, Bounded, Tags
<1>2. CASE Tags = {}
  BY <1>1, <1>2, StartIsVersion, MaxBuildsIsNat DEF MaxSemver
<1>3. CASE Tags # {}
  <2>1. PICK v \in Tags : Highest(v, Tags)
    BY <1>3 DEF ReleaseInv, HasHighest
  <2>2. MaxSemver(Tags) = v
    BY <1>1, <2>1, MaxIsHighest
  <2> QED
    BY <1>1, <2>1, <2>2 DEF ReleaseInv, Bounded, Reach, Highest
<1> QED
  BY <1>2, <1>3

LEMMA ReleaseInit == Init => ReleaseInv
<1> SUFFICES ASSUME Init PROVE ReleaseInv
  OBVIOUS
<1>1. version = Start /\ Tags = {}
  BY DEF Init, Start, Tags
<1>2. UpTo(version, build + 1) /\ version \in Versions
  BY <1>1, StartIsVersion DEF Init
<1> QED
  BY <1>1, <1>2, MaxBuildsIsNat
  DEF Init, ReleaseInv, TypeOK, Bounded, HasHighest, ReleasesRise, LatestFollows, Stages, NoImage

(* A push of the version: what becomes the highest tag. *)
LEMMA PushedTags ==
  ASSUME ReleaseInv, stage = "push", registry' = [registry EXCEPT ![version] = build]
  PROVE  /\ registry' \in [Versions -> 0..build]
         /\ Tags' = Tags \cup {version}
         /\ \E v \in Tags' : Highest(v, Tags')
         /\ \/ registry'[MaxSemver(Tags')] = build
            \/ Tags # {} /\ registry'[MaxSemver(Tags')] = registry[MaxSemver(Tags)]
         /\ build \notin unreachable => registry'[MaxSemver(Tags')] = build
<1>1. /\ version \in Versions /\ registry \in [Versions -> 0..build] /\ build \in Nat \ {0}
      /\ Tags \in SUBSET Versions
  BY MaxBuildsIsNat DEF ReleaseInv, TypeOK, Bounded, Tags
<1>2. registry' \in [Versions -> 0..build] /\ registry'[version] = build
  BY <1>1
<1>3. Tags' = Tags \cup {version}
  BY <1>1, <1>2 DEF Tags, NoImage
<1>4. CASE Tags = {}
  <2>1. Highest(version, Tags')
    BY <1>1, <1>3, <1>4, SingletonHighest
  <2>2. MaxSemver(Tags') = version
    BY <1>1, <1>3, <2>1, MaxIsHighest
  <2> QED
    BY <1>2, <1>3, <2>1, <2>2
<1>5. CASE Tags # {}
  <2>1. PICK v \in Tags : Highest(v, Tags)
    BY <1>5 DEF ReleaseInv, HasHighest
  <2>2. MaxSemver(Tags) = v
    BY <1>1, <2>1, MaxIsHighest
  <2> DEFINE h == IF Below(v, version) THEN version ELSE v
  <2>3. Highest(h, Tags')
    BY <1>1, <1>3, <2>1, HighestGrows
  <2>4. MaxSemver(Tags') = h
    BY <1>1, <1>3, <2>3, MaxIsHighest
  <2>5. registry'[h] \in {build, registry[v]}
    BY <1>1, <1>2
  <2>6. build \notin unreachable => h = version
    BY <2>1 DEF ReleaseInv, ReleasesRise
  <2> QED
    BY <1>2, <1>3, <1>5, <2>2, <2>3, <2>4, <2>5, <2>6 DEF Highest
<1> QED
  BY <1>4, <1>5

LEMMA UpToGrows ==
  ASSUME NEW v \in Versions, NEW n \in Nat, UpTo(v, n)
  PROVE  UpTo(v, n + 1)
BY VersionParts DEF UpTo

LEMMA ReleaseStep == ReleaseInv /\ [Next]_vars => ReleaseInv'
<1> SUFFICES ASSUME ReleaseInv, [Next]_vars PROVE ReleaseInv'
  OBVIOUS
<1>1. /\ TypeOK /\ Bounded /\ HasHighest /\ ReleasesRise /\ LatestFollows
      /\ build \in Nat /\ MaxBuilds \in Nat /\ Tags \in SUBSET Versions
  BY MaxBuildsIsNat DEF ReleaseInv, TypeOK, Tags
<1>2. registry' = registry => Tags' = Tags
  BY DEF Tags
<1>3. CASE Trigger
  <2>1. /\ build' = build + 1 /\ build' \in 1..MaxBuilds /\ stage' = "resolve" /\ stage = "idle"
        /\ UNCHANGED <<version, registry, latest, unreachable, halfPushed>>
    BY <1>1, <1>3 DEF Trigger
  <2>2. TypeOK'
    BY <1>1, <2>1 DEF TypeOK, Stages
  <2>3. Bounded'
    <3>1. \A v \in Versions : registry[v] \in 0..build
      BY <1>1 DEF TypeOK
    <3>2. version \in Versions /\ UpTo(version, build' + 1)
      BY <1>1, <2>1, UpToGrows DEF Bounded, TypeOK
    <3> QED
      BY <1>1, <1>2, <2>1, <3>1, <3>2 DEF Bounded, Reach
  <2>4. HasHighest' /\ ReleasesRise' /\ LatestFollows'
    BY <1>1, <1>2, <2>1 DEF HasHighest, ReleasesRise, LatestFollows
  <2> QED
    BY <2>2, <2>3, <2>4 DEF ReleaseInv
<1>4. ASSUME NEW bump \in Bumps, Resolve(bump) PROVE ReleaseInv'
  <2> DEFINE m == MaxSemver(Tags)
  <2>1. /\ version' = NextVersion(Tags, bump) /\ stage = "resolve" /\ stage' = "checks"
        /\ UNCHANGED <<build, registry, latest, unreachable, halfPushed>>
    BY <1>4 DEF Resolve
  <2>2. /\ m \in Versions /\ UpTo(m, build) /\ build \in 0..MaxBuilds
        /\ \A v \in Tags : ~ Below(m, v)
    BY <2>1, ScriptStart
  <2>3. NextVersion(Tags, bump) = Bumped(m, bump) /\ \A v \in Tags : Below(v, Bumped(m, bump))
    BY <1>1, <2>2, NextIsBumped
  <2>4. Bumped(m, bump) \in Versions /\ UpTo(Bumped(m, bump), build + 1)
    BY <2>2, BumpedParts
  <2> HIDE DEF m
  <2>5. \A v \in Versions : registry[v] # build
    BY <1>1, <2>1 DEF Bounded
  <2>6. TypeOK'
    BY <1>1, <2>1, <2>3, <2>4, <2>5 DEF TypeOK, Stages
  <2>7. Bounded'
    BY <1>1, <1>2, <2>1, <2>3, <2>4, UpToGrows DEF Bounded, Reach
  <2>8. HasHighest' /\ ReleasesRise' /\ LatestFollows'
    BY <1>1, <1>2, <2>1, <2>3 DEF HasHighest, ReleasesRise, LatestFollows
  <2> QED
    BY <2>6, <2>7, <2>8 DEF ReleaseInv
<1>5. CASE ResolveUnreachable
  <2>1. /\ version' = Start /\ stage = "resolve" /\ stage' = "checks"
        /\ unreachable' = unreachable \cup {build} /\ build > 0
        /\ UNCHANGED <<build, registry, latest, halfPushed>>
    BY <1>1, <1>5 DEF ResolveUnreachable, Bounded
  <2>2. Start \in Versions /\ UpTo(Start, build + 1)
    BY <1>1, <2>1, StartIsVersion
  <2>3. TypeOK'
    BY <1>1, <2>1, <2>2 DEF TypeOK, Stages, Bounded
  <2>4. Bounded'
    BY <1>1, <1>2, <2>1, <2>2, UpToGrows DEF Bounded, Reach
  <2>5. HasHighest' /\ ReleasesRise' /\ LatestFollows'
    BY <1>1, <1>2, <2>1 DEF HasHighest, ReleasesRise, LatestFollows
  <2> QED
    BY <2>3, <2>4, <2>5 DEF ReleaseInv
<1>6. CASE Checks \/ Build \/ StageFails \/ UNCHANGED vars
  <2>1. /\ UNCHANGED <<build, version, registry, latest, unreachable, halfPushed>>
        /\ stage' \in Stages /\ (stage' \in {"resolve", "latest"} => stage' = stage)
        /\ stage = "latest" => stage' = stage
        /\ stage' \in {"checks", "build", "push"} => stage \in {"checks", "build", "push"}
        /\ stage' # "idle" => stage # "idle"
    BY <1>1, <1>6 DEF Checks, Build, StageFails, vars, Stages, TypeOK
  <2>2. TypeOK'
    BY <1>1, <2>1 DEF TypeOK
  <2>3. Bounded'
    BY <1>1, <1>2, <2>1, UpToGrows DEF Bounded, Reach
  <2>4. HasHighest' /\ ReleasesRise' /\ LatestFollows'
    BY <1>1, <1>2, <2>1 DEF HasHighest, ReleasesRise, LatestFollows
  <2> QED
    BY <2>2, <2>3, <2>4 DEF ReleaseInv
<1>7. ASSUME stage = "push", registry' = [registry EXCEPT ![version] = build],
             UNCHANGED <<build, version, latest, unreachable>>, build > 0,
             \/ stage' = "latest" /\ halfPushed' = halfPushed
             \/ stage' = "idle" /\ halfPushed' = halfPushed \cup {build}
      PROVE  ReleaseInv'
  <2>1. /\ registry' \in [Versions -> 0..build]
        /\ Tags' = Tags \cup {version}
        /\ \E v \in Tags' : Highest(v, Tags')
        /\ \/ registry'[MaxSemver(Tags')] = build
           \/ Tags # {} /\ registry'[MaxSemver(Tags')] = registry[MaxSemver(Tags)]
        /\ build \notin unreachable => registry'[MaxSemver(Tags')] = build
    BY <1>7, PushedTags
  <2>2. TypeOK'
    <3>1. /\ build \in 1..build /\ build' = build
          /\ halfPushed \subseteq 1..build /\ latest \in 0..build
      BY <1>1, <1>7 DEF TypeOK
    <3>2. halfPushed' \subseteq 1..build' 
      BY <1>7, <3>1
    <3> QED
      BY <1>1, <1>7, <2>1, <3>2 DEF TypeOK, Stages
  <2>3. Bounded'
    BY <1>1, <1>7, <2>1 DEF Bounded, Reach
  <2>4. HasHighest' /\ ReleasesRise'
    BY <1>7, <2>1 DEF HasHighest, ReleasesRise
  <2>5. LatestFollows'
    BY <1>1, <1>7, <2>1 DEF LatestFollows
  <2> QED
    BY <2>2, <2>3, <2>4, <2>5 DEF ReleaseInv
<1>8. CASE Push
  BY <1>1, <1>7, <1>8 DEF Push, Bounded
<1>9. ASSUME stage = "latest", stage' = "idle", UNCHANGED <<build, version, registry, unreachable>>,
             build > 0,
             \/ latest' = build /\ halfPushed' = halfPushed
             \/ latest' \in {latest, build} /\ halfPushed' = halfPushed \cup {build}
      PROVE  ReleaseInv'
  <2>1. TypeOK'
    <3>1. /\ build \in 1..build /\ build' = build
          /\ halfPushed \subseteq 1..build /\ latest \in 0..build
      BY <1>1, <1>9 DEF TypeOK
    <3>2. halfPushed' \subseteq 1..build'
      BY <1>9, <3>1
    <3>3. build \in 0..build
      BY <3>1
    <3>4. latest' \in {latest, build}
      BY <1>9
    <3>5. latest' \in 0..build'
      BY <3>1, <3>3, <3>4
    <3> QED
      BY <1>1, <1>9, <3>2, <3>5 DEF TypeOK, Stages
  <2>2. Bounded'
    BY <1>1, <1>2, <1>9 DEF Bounded, Reach
  <2>3. HasHighest' /\ ReleasesRise'
    BY <1>1, <1>2, <1>9 DEF HasHighest, ReleasesRise
  <2>4. LatestFollows'
    BY <1>1, <1>2, <1>9 DEF LatestFollows
  <2> QED
    BY <2>1, <2>2, <2>3, <2>4 DEF ReleaseInv
<1>10. CASE PushLatest
  BY <1>1, <1>9, <1>10 DEF PushLatest, Bounded
<1>11. CASE PushFails
  <2>1. CASE stage = "latest"
    BY <1>1, <1>9, <1>11, <2>1 DEF PushFails, Bounded
  <2>2. CASE stage = "push" /\ registry' # registry
    BY <1>1, <1>7, <1>11, <2>2 DEF PushFails, Bounded
  <2>3. CASE stage = "push" /\ registry' = registry
    <3>1. /\ UNCHANGED <<build, version, registry, latest, unreachable>>
          /\ stage' = "idle" /\ halfPushed' = halfPushed \cup {build} /\ build > 0
      BY <1>1, <1>11, <2>3 DEF PushFails, Bounded
    <3>2. TypeOK' /\ Bounded'
      BY <1>1, <1>2, <2>3, <3>1 DEF TypeOK, Stages, Bounded, Reach
    <3>3. HasHighest' /\ ReleasesRise' /\ LatestFollows'
      BY <1>1, <1>2, <2>3, <3>1 DEF HasHighest, ReleasesRise, LatestFollows
    <3> QED
      BY <3>2, <3>3 DEF ReleaseInv
  <2> QED
    BY <1>11, <2>1, <2>2, <2>3 DEF PushFails
<1> QED
  BY <1>3, <1>4, <1>5, <1>6, <1>8, <1>10, <1>11 DEF Next

LEMMA ReleaseInvariant == Spec => []ReleaseInv
BY ReleaseInit, ReleaseStep, PTL DEF Spec

(* The types; in particular no version runs past the bound. *)
THEOREM PipelineTypeCorrect == Spec => []TypeOK
<1>1. ReleaseInv => TypeOK
  BY DEF ReleaseInv
<1> QED
  BY <1>1, ReleaseInvariant, PTL

(* A release is above every tag it could read (jenkinsfile:118-183). *)
THEOREM ReleasesAlwaysRise == Spec => []ReleasesRise
<1>1. ReleaseInv => ReleasesRise
  BY DEF ReleaseInv
<1> QED
  BY <1>1, ReleaseInvariant, PTL

(* No version is skipped, from any set of tags the pipeline may have left behind
   (jenkinsfile:160-183). *)
THEOREM VersionsHaveNoGaps == Spec => []NoVersionSkipped
<1>1. ReleaseInv => NoVersionSkipped
  <2> SUFFICES ASSUME ReleaseInv, stage = "resolve", NEW bump \in Bumps
               PROVE  /\ NextVersion(Tags, bump) \in Zeros(bump)
                      /\ \A v \in Zeros(bump) :
                           Below(v, NextVersion(Tags, bump)) => ~ Below(MaxSemver(Tags), v)
    BY DEF NoVersionSkipped, Zeros
  <2> DEFINE m == MaxSemver(Tags)
  <2>1. /\ m \in Versions /\ UpTo(m, build) /\ build \in 0..MaxBuilds /\ Tags \in SUBSET Versions
        /\ \A v \in Tags : ~ Below(m, v)
    BY ScriptStart
  <2>2. NextVersion(Tags, bump) = Bumped(m, bump)
    BY <2>1, NextIsBumped
  <2> HIDE DEF m
  <2>3. Bumped(m, bump) \in Zeros(bump)
        /\ \A w \in Zeros(bump) : Below(w, Bumped(m, bump)) => ~ Below(m, w)
    BY <2>1, BumpedParts
  <2> QED
    BY <2>2, <2>3 DEF m
<1> QED
  BY <1>1, ReleaseInvariant, PTL

(* "latest" is the highest release, with the exceptions LatestIsHighest names
   (jenkinsfile:255-273). *)
THEOREM LatestStaysHighest == Spec => []LatestIsHighest
<1>1. ReleaseInv => LatestIsHighest
  BY DEF ReleaseInv, LatestFollows, LatestIsHighest
<1> QED
  BY <1>1, ReleaseInvariant, PTL

==============================================================================
