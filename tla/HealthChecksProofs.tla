--------------------------- MODULE HealthChecksProofs ---------------------------
(***************************************************************************)
(* What holds of the health checks for any number of them, any pool and any *)
(* configuration: the types, the account of connections and admin clients,  *)
(* what an answer of healthy stands for, and the order of the layers.       *)
(***************************************************************************)
EXTENDS HealthChecks, FiniteSetTheorems, TLAPS

-----------------------------------------------------------------------------
(* The configuration *)

\* What the import makes of the two files.
Loaded ==
  /\ conf \in Configuration
  /\ boot = "ready" =>
       settings = IF OverlayRead THEN Merge(conf.base, conf.overlay) ELSE conf.base

LEMMA LoadedInit == HealthInit => Loaded
BY DEF HealthInit, ConfigInit, Loaded

LEMMA LoadedStep == Loaded /\ [HealthNext]_allVars => Loaded'
<1> SUFFICES ASSUME Loaded, [HealthNext]_allVars PROVE Loaded'
  OBVIOUS
<1>1. CASE LoadOverlay
  BY <1>1 DEF LoadOverlay, Loaded, OverlayRead
<1>2. CASE UNCHANGED configVars
  BY <1>2 DEF configVars, Loaded, OverlayRead
<1> QED
  BY <1>1, <1>2 DEF HealthNext, allVars, ProbeStep, Arrive, Checkout, Answers, Refuses, Expires,
                    Close, Return, Respond, CloseFails, Change, OthersTake, OthersReturn

\* A section of a file: its kind, and where its values come from.
LEMMA SectionShape ==
  ASSUME NEW layer, NEW v \in Section(layer)
  PROVE  /\ v.kind \in {"absent", "scalar", "object"}
         /\ v.kind = "scalar" => v.leaf = layer
         /\ v.kind # "scalar" => v.leaf = "none"
         /\ v.keys \in [Keys -> {"none", layer}]
         /\ v.kind # "object" => v.keys = [k \in Keys |-> "none"]
         /\ v = [kind |-> v.kind, leaf |-> v.leaf, keys |-> v.keys]
BY DEF Section

(* The layers are applied in order, whatever the files and the environment hold. *)
LEMMA LayersApplied == Loaded => LayersInOrder
<1> SUFFICES ASSUME Loaded, boot = "ready" PROVE LayersInOrder
  BY DEF LayersInOrder
<1> DEFINE b == conf.base
           f == conf.overlay
           o == [conf.overlay EXCEPT !.kind = IF OverlayRead THEN @ ELSE "absent"]
<1>1. b \in Section("base") /\ f \in Section("local")
  BY DEF Loaded, Configuration
<1>2. /\ b.kind \in {"absent", "scalar", "object"}
      /\ b.kind = "scalar" => b.leaf = "base"
      /\ b.keys \in [Keys -> {"none", "base"}]
      /\ b.kind # "object" => b.keys = [k \in Keys |-> "none"]
  BY <1>1, SectionShape
<1>3. /\ f.kind \in {"absent", "scalar", "object"}
      /\ f.kind = "scalar" => f.leaf = "local"
      /\ f.keys \in [Keys -> {"none", "local"}]
      /\ f.kind # "object" => f.keys = [k \in Keys |-> "none"]
      /\ f = [kind |-> f.kind, leaf |-> f.leaf, keys |-> f.keys]
  BY <1>1, SectionShape
<1>4. o.kind = (IF OverlayRead THEN f.kind ELSE "absent") /\ o.leaf = f.leaf /\ o.keys = f.keys
  BY <1>3
<1>5. /\ settings.kind = IF o.kind = "absent" THEN b.kind ELSE o.kind
      /\ settings.kind = "scalar" => settings.leaf = IF o.kind = "scalar" THEN "local" ELSE "base"
      /\ settings.kind = "object" => \A k \in Keys : settings.keys[k] =
           IF o.kind = "object" /\ o.keys[k] # "none" THEN "local"
           ELSE IF o.kind \in {"absent", "object"} /\ b.kind = "object" THEN b.keys[k] ELSE "none"
      /\ settings.kind \in {"absent", "scalar", "object"}
      /\ settings = [kind |-> settings.kind, leaf |-> settings.leaf, keys |-> settings.keys]
  <2>0. b = [kind |-> b.kind, leaf |-> b.leaf, keys |-> b.keys]
    BY <1>1, SectionShape
  <2>1. CASE ~ OverlayRead
    BY <2>0, <2>1, <1>2, <1>4 DEF Loaded
  <2>2. CASE OverlayRead
    <3>1. settings = Merge(b, f) /\ o.kind = f.kind
      BY <2>2, <1>4 DEF Loaded
    <3> HIDE DEF b, f, o
    <3>2. CASE f.kind = "absent"
      BY <2>0, <3>1, <3>2, <1>2 DEF Merge
    <3>3. CASE b.kind = "object" /\ f.kind = "object"
      BY <2>0, <3>1, <3>3, <1>2, <1>3, <1>4 DEF Merge
    <3>4. CASE f.kind # "absent" /\ ~ (b.kind = "object" /\ f.kind = "object")
      <4>1. settings = f
        BY <3>1, <3>4 DEF Merge
      <4> QED
        BY <4>1, <3>1, <3>4, <1>2, <1>3, <1>4
    <3> QED
      BY <3>2, <3>3, <3>4
  <2> QED
    BY <2>1, <2>2
<1> HIDE DEF b, f, o
<1>6. /\ GetConfig.kind = "absent" <=> settings.kind = "absent"
      /\ GetConfig.kind = "scalar" =>
           GetConfig.leaf = IF \E k \in Keys : Usable(k) THEN "env" ELSE settings.leaf
      /\ GetConfig.kind = "scalar" /\ ~ (\E k \in Keys : Usable(k)) => settings.kind = "scalar"
      /\ GetConfig.kind = "object" =>
           /\ settings.kind = "object"
           /\ \A k \in Keys : GetConfig.keys[k] = IF Usable(k) THEN "env" ELSE settings.keys[k]
  <2>1. CASE settings.kind = "absent" \/ ~ \E k \in Keys : Usable(k)
    BY <2>1, <1>5 DEF GetConfig
  <2>2. CASE settings.kind # "absent" /\ (\E k \in Keys : Usable(k)) /\ conf.section = "DEBUG_MODE"
    <3>1. GetConfig = [kind |-> "scalar", leaf |-> "env", keys |-> [k \in Keys |-> "none"]]
      BY <2>2 DEF GetConfig
    <3> QED
      BY <2>2, <3>1
  <2>3. CASE settings.kind = "object" /\ (\E k \in Keys : Usable(k)) /\ conf.section # "DEBUG_MODE"
    <3>1. GetConfig =
            [settings EXCEPT !.keys = [k \in Keys |-> IF Usable(k) THEN "env" ELSE @[k]]]
      BY <2>3 DEF GetConfig
    <3> QED
      BY <2>3, <3>1, <1>5
  <2>4. CASE settings.kind = "scalar" /\ (\E k \in Keys : Usable(k)) /\ conf.section # "DEBUG_MODE"
    <3>1. GetConfig = [settings EXCEPT !.kind = "error"]
      BY <2>4 DEF GetConfig
    <3> QED
      BY <2>4, <3>1, <1>5
  <2> QED
    BY <2>1, <2>2, <2>3, <2>4, <1>5
<1>7. GetConfig.kind = "absent" <=> b.kind = "absent" /\ o.kind = "absent"
  BY <1>5, <1>6
<1>8. GetConfig.kind = "scalar" =>
        GetConfig.leaf = IF \E k \in Keys : Usable(k) THEN "env"
                         ELSE IF o.kind = "scalar" THEN "local" ELSE "base"
  BY <1>5, <1>6
<1>9. ASSUME GetConfig.kind = "object", NEW k \in Keys
      PROVE  LET mine == o.kind = "object" /\ o.keys[k] # "none"
             IN  /\ GetConfig.keys[k] = "env" <=> Usable(k)
                 /\ GetConfig.keys[k] = "local" <=> mine /\ ~ Usable(k)
                 /\ GetConfig.keys[k] = "base" <=>
                      /\ b.kind = "object" /\ b.keys[k] # "none"
                      /\ o.kind \in {"absent", "object"}
                      /\ ~ mine /\ ~ Usable(k)
  <2>1. b.keys[k] \in {"none", "base"}
    BY <1>2, <1>9
  <2>2. settings.keys[k] =
          IF o.kind = "object" /\ o.keys[k] # "none" THEN "local"
          ELSE IF o.kind \in {"absent", "object"} /\ b.kind = "object" THEN b.keys[k] ELSE "none"
    BY <1>5, <1>6, <1>9
  <2>3. GetConfig.keys[k] = IF Usable(k) THEN "env" ELSE settings.keys[k]
    BY <1>6, <1>9
  <2> QED
    BY <2>1, <2>2, <2>3
<1> QED
  BY <1>7, <1>8, <1>9 DEF LayersInOrder, b, o

(* A value of the configuration comes from the environment, the local overlay or the
   base file, in that order, for any sections, keys and contents (config.py). *)
THEOREM LayersStayInOrder == HealthSpec => []LayersInOrder
BY LoadedInit, LoadedStep, LayersApplied, PTL DEF HealthSpec

-----------------------------------------------------------------------------
(* The probes *)

\* A probe of a busy check that has come to an end was up at some moment, or is down.
Reached ==
  \A c \in Checks : \A d \in Probes(check[c].endpoint) :
    check[c].busy /\ (cond[d] = "up" \/ probe[c][d] \in {"up", "closeUp"}) => d \in check[c].seen

\* Once the handler has returned, no probe moves.
Decided ==
  \A c \in Checks : check[c].busy /\ check[c].code # 0 =>
    \A d \in Probes(check[c].endpoint) : probe[c][d] \in {"up", "down"}

\* Good news is good already while the session is being closed.
Promised ==
  \A c \in Checks :
    check[c].healthy \/ (check[c].code = 200 /\ check[c].endpoint # "stack")
      => Probes(check[c].endpoint) \subseteq check[c].seen

HealthInv ==
  /\ HealthTypeOK
  /\ ConnectionsOfChecks
  /\ StartedClientsClosed
  /\ Reached
  /\ Decided
  /\ Promised

LEMMA HealthInvInit == HealthInit => HealthInv
<1> SUFFICES ASSUME HealthInit PROVE HealthInv
  OBVIOUS
<1>1. Holders = {}
  BY DEF Holders, HealthInit, Idle, Deps
<1>2. ConnectionsOfChecks
  BY <1>1, FS_EmptySet DEF ConnectionsOfChecks, HealthInit
<1>3. HealthTypeOK
  <2>1. /\ Idle \in [Deps -> AllSteps]
        /\ \A d \in Deps : Idle[d] = "none" /\ "none" \in Steps[d] \cup Over
    BY DEF Idle, Over, AllSteps
  <2>2. \A c \in Checks : probe[c] = Idle
    BY DEF HealthInit
  <2>3. cond \in [Deps -> Conditions] /\ probe \in [Checks -> [Deps -> AllSteps]]
    BY <2>1, HealthConstants DEF HealthInit
  <2>4. check \in [Checks -> [busy : BOOLEAN, endpoint : Endpoints \cup {"none"},
                              code : {0, 200, 500, 503}, healthy : BOOLEAN, seen : SUBSET Deps]]
    BY DEF HealthInit
  <2>5. /\ admin \in [Checks -> {"none", "opened", "started", "cut"}]
        /\ others \in 0..pool /\ pool \in 0..PoolLimit
        /\ conf \in Configuration /\ boot \in {"overlay", "ready"}
    BY HealthConstants DEF HealthInit, ConfigInit
  <2>6. \A c \in Checks : \A d \in Deps :
          probe[c][d] \in Steps[d] \cup Over /\
          (probe[c][d] # "none" => check[c].busy /\ d \in Probes(check[c].endpoint))
    BY <2>1, <2>2
  <2> QED
    BY <2>3, <2>4, <2>5, <2>6 DEF HealthTypeOK
<1> QED
  BY <1>2, <1>3
  DEF HealthInv, StartedClientsClosed, Reached, Decided, Promised, HealthInit

\* The connections of the checks when the probe of one of them moves.
LEMMA HoldersMove ==
  ASSUME NEW c \in Checks, \A b \in Checks \ {c} : probe'[b]["database"] = probe[b]["database"]
  PROVE  /\ IsFiniteSet(Holders) /\ Cardinality(Holders) \in Nat
         /\ c \in Holders => Cardinality(Holders) > 0
         /\ c \in Holders /\ c \in Holders' => Cardinality(Holders') = Cardinality(Holders)
         /\ c \notin Holders /\ c \notin Holders' => Cardinality(Holders') = Cardinality(Holders)
         /\ c \notin Holders /\ c \in Holders' => Cardinality(Holders') = Cardinality(Holders) + 1
         /\ c \in Holders /\ c \notin Holders' => Cardinality(Holders') = Cardinality(Holders) - 1
<1>1. IsFiniteSet(Holders) /\ Cardinality(Holders) \in Nat
  BY HealthConstants, FS_Subset, FS_CardinalityType DEF Holders
<1>2. c \in Holders => Cardinality(Holders) > 0
  BY <1>1, FS_EmptySet
<1>3. \A b \in Checks \ {c} : b \in Holders' <=> b \in Holders
  BY DEF Holders
<1>4. Holders \subseteq Checks /\ Holders' \subseteq Checks
  BY DEF Holders
<1>5. (c \in Holders <=> c \in Holders') => Holders' = Holders
  <2>1. ASSUME c \in Holders <=> c \in Holders' PROVE \A b : b \in Holders' <=> b \in Holders
    BY <1>3, <1>4, <2>1
  <2> QED
    BY <2>1
<1>6. c \notin Holders /\ c \in Holders' => Holders' = Holders \cup {c}
  BY <1>3, <1>4
<1>7. c \in Holders /\ c \notin Holders' => Holders' = Holders \ {c}
  BY <1>3, <1>4
<1> QED
  BY <1>1, <1>2, <1>5, <1>6, <1>7, FS_AddElement, FS_RemoveElement

\* One probe of a busy check takes a step.
LEMMA ProbeMoves ==
  ASSUME HealthInv, NEW c \in Checks, NEW d \in Deps, NEW step \in Steps[d] \cup {"up", "down"},
         probe[c][d] \in Steps[d], Go(c, d, step), UNCHANGED <<configVars, cond, check, others>>,
         pool' = pool + (IF d = "database" /\ step \in {"query", "up"} THEN 1 ELSE 0)
                      - (IF d = "database" /\ probe[c][d] = "query" THEN 1 ELSE 0),
         pool' <= PoolLimit,
         admin' \in [Checks -> {"none", "opened", "started", "cut"}],
         \A b \in Checks \ {c} : admin'[b] = admin[b],
         d # "kafka" => admin' = admin,
         admin'[c] = "started" /\ d = "kafka" => step \in Steps["kafka"] \ {"start"},
         step \in {"up", "closeUp"} => cond[d] = "up" \/ probe[c][d] = "closeUp"
  PROVE  HealthInv'
<1> USE DEF HealthInv
<1>0. probe \in [Checks -> [Deps -> AllSteps]] /\ step \in AllSteps /\ "none" \notin Steps[d]
  <2>1. step \in Steps[d] \cup Over /\ step \in AllSteps
    BY DEF AllSteps, Over
  <2>2. "none" \notin Steps[d]
    BY DEF Steps, Deps
  <2> QED
    BY <2>1, <2>2 DEF HealthTypeOK
<1>1. /\ probe' \in [Checks -> [Deps -> AllSteps]]
      /\ probe'[c][d] = step
      /\ \A e \in Deps \ {d} : probe'[c][e] = probe[c][e]
      /\ \A b \in Checks \ {c} : probe'[b] = probe[b]
  BY <1>0 DEF Go
<1>2. UNCHANGED <<conf, boot, settings, cond, check, others>>
  BY DEF configVars
<1>3. ConnectionsOfChecks' /\ others \in 0..pool'
  <2>1. /\ c \in Holders <=> probe[c]["database"] \in {"query", "up"}
        /\ c \in Holders' <=> probe'[c]["database"] \in {"query", "up"}
    BY DEF Holders
  <2>2. pool \in Nat /\ others \in Nat /\ pool = others + Cardinality(Holders)
    BY HealthConstants DEF HealthTypeOK, ConnectionsOfChecks
  <2>3. CASE d # "database"
    <3>1. "database" \in Deps \ {d}
      BY <2>3 DEF Deps
    <3>2. probe'[c]["database"] = probe[c]["database"] /\ pool' = pool
      BY <1>1, <2>2, <2>3, <3>1
    <3> QED
      BY <1>1, <1>2, <2>1, <2>2, <3>2, HoldersMove DEF ConnectionsOfChecks
  <2>4. CASE d = "database"
    <3>1. probe[c]["database"] \in {"checkout", "query"} /\ probe'[c]["database"] = step
      BY <1>1, <2>4 DEF Steps
    <3>2. step \in {"checkout", "query", "up", "down"}
      BY <2>4 DEF Steps
    <3>3. /\ c \in Holders <=> probe[c]["database"] = "query"
          /\ c \in Holders' <=> step \in {"query", "up"}
      BY <2>1, <3>1
    <3>4. \A b \in Checks \ {c} : probe'[b]["database"] = probe[b]["database"]
      BY <1>1
    <3>5. pool' = others + Cardinality(Holders') /\ Cardinality(Holders') \in Nat
      BY <2>2, <2>4, <3>1, <3>3, <3>4, HoldersMove
    <3> QED
      BY <1>2, <2>2, <3>5 DEF ConnectionsOfChecks
  <2> QED
    BY <2>3, <2>4
<1>4. check[c].busy /\ d \in Probes(check[c].endpoint)
  BY <1>0 DEF HealthTypeOK
<1>5. HealthTypeOK'
  <2>1. pool' \in 0..PoolLimit
    BY <1>3, HealthConstants DEF HealthTypeOK
  <2>2. \A b \in Checks : \A e \in Deps :
          /\ probe'[b][e] \in Steps[e] \cup Over
          /\ probe'[b][e] # "none" => check[b].busy /\ e \in Probes(check[b].endpoint)
    <3>1. \A b \in Checks : \A e \in Deps :
            /\ probe[b][e] \in Steps[e] \cup Over
            /\ probe[b][e] # "none" => check[b].busy /\ e \in Probes(check[b].endpoint)
      BY DEF HealthTypeOK
    <3>2. \A b \in Checks : \A e \in Deps : b # c \/ e # d => probe'[b][e] = probe[b][e]
      BY <1>1
    <3>3. step \in Steps[d] \cup Over
      BY DEF Over
    <3> QED
      BY <1>1, <1>4, <3>1, <3>2, <3>3
  <2> QED
    BY <1>1, <1>2, <1>3, <2>1, <2>2 DEF HealthTypeOK
<1>6. StartedClientsClosed'
  BY <1>1 DEF StartedClientsClosed, Deps
<1>7. Reached'
  <2>1. SUFFICES ASSUME NEW b \in Checks, NEW e \in Probes(check[b].endpoint), check[b].busy,
                        cond[e] = "up" \/ probe'[b][e] \in {"up", "closeUp"}
                 PROVE  e \in check[b].seen
    BY <1>2 DEF Reached, Probes, Deps
  <2>2. e \in Deps
    BY DEF Probes, Deps
  <2>3. CASE b = c /\ e = d
    BY <1>1, <2>1, <2>3 DEF Reached
  <2>4. CASE b # c \/ e # d
    BY <1>1, <2>1, <2>2, <2>4 DEF Reached
  <2> QED
    BY <2>3, <2>4
<1>8. Decided' /\ Promised'
  <2>1. Promised'
    BY <1>2 DEF Promised, Probes, Deps
  <2>2. check[c].code = 0
    <3>1. probe[c][d] \notin {"up", "down"}
      BY DEF Steps, Deps
    <3> QED
      BY <1>4, <3>1 DEF Decided
  <2> QED
    BY <1>1, <1>2, <2>1, <2>2 DEF Decided, Probes, Deps
<1> QED
  BY <1>3, <1>5, <1>6, <1>7, <1>8

\* A request that comes or goes: its probes are new, or over.
LEMMA CheckMoves ==
  ASSUME HealthInv, NEW c \in Checks, NEW q \in [Deps -> AllSteps],
         probe' = [probe EXCEPT ![c] = q], UNCHANGED <<configVars, cond, others>>,
         check' \in [Checks -> [busy : BOOLEAN, endpoint : Endpoints \cup {"none"},
                                code : {0, 200, 500, 503}, healthy : BOOLEAN, seen : SUBSET Deps]],
         \A b \in Checks \ {c} : check'[b] = check[b] /\ admin'[b] = admin[b],
         \A d \in Deps : q[d] \in Steps[d] \cup Over /\
           (q[d] # "none" => check'[c].busy /\ d \in Probes(check'[c].endpoint)),
         admin' \in [Checks -> {"none", "opened", "started", "cut"}], admin'[c] # "started",
         q["database"] \notin {"query", "up"},
         pool' = pool - (IF probe[c]["database"] \in {"query", "up"} THEN 1 ELSE 0),
         check'[c].busy => check'[c].code = 0 /\ \A d \in Probes(check'[c].endpoint) :
           q[d] \notin {"up", "closeUp"} /\ (cond[d] = "up" => d \in check'[c].seen),
         \/ ~ check'[c].healthy /\ (check'[c].code # 200 \/ check'[c].endpoint = "stack")
         \/ Probes(check'[c].endpoint) \subseteq check'[c].seen
  PROVE  HealthInv'
<1> USE DEF HealthInv
<1>1. /\ probe' \in [Checks -> [Deps -> AllSteps]]
      /\ probe'[c] = q
      /\ \A b \in Checks \ {c} : probe'[b] = probe[b]
  BY DEF HealthTypeOK
<1>2. UNCHANGED <<conf, boot, settings, cond, others>>
  BY DEF configVars
<1>3. ConnectionsOfChecks' /\ others \in 0..pool' /\ pool' <= pool
  <2>1. /\ c \in Holders <=> probe[c]["database"] \in {"query", "up"}
        /\ c \notin Holders'
    BY <1>1 DEF Holders
  <2>2. pool \in Nat /\ others \in Nat /\ pool = others + Cardinality(Holders)
    BY HealthConstants DEF HealthTypeOK, ConnectionsOfChecks
  <2>3. pool' = others + Cardinality(Holders') /\ Cardinality(Holders') \in Nat
    BY <1>1, <2>1, <2>2, HoldersMove
  <2> QED
    BY <1>2, <2>2, <2>3 DEF ConnectionsOfChecks
<1>4. HealthTypeOK'
  <2>1. pool' \in 0..PoolLimit
    BY <1>3, HealthConstants DEF HealthTypeOK
  <2>2. \A b \in Checks : \A e \in Deps :
          /\ probe'[b][e] \in Steps[e] \cup Over
          /\ probe'[b][e] # "none" => check'[b].busy /\ e \in Probes(check'[b].endpoint)
    <3>1. \A b \in Checks : \A e \in Deps :
            /\ probe[b][e] \in Steps[e] \cup Over
            /\ probe[b][e] # "none" => check[b].busy /\ e \in Probes(check[b].endpoint)
      BY DEF HealthTypeOK
    <3> QED
      BY <1>1, <3>1
  <2> QED
    BY <1>1, <1>2, <1>3, <2>1, <2>2 DEF HealthTypeOK
<1>5. StartedClientsClosed'
  BY <1>1 DEF StartedClientsClosed
<1>6. Reached'
  <2>1. SUFFICES ASSUME NEW b \in Checks, NEW e \in Probes(check'[b].endpoint), check'[b].busy,
                        cond[e] = "up" \/ probe'[b][e] \in {"up", "closeUp"}
                 PROVE  e \in check'[b].seen
    BY <1>2 DEF Reached, Probes, Deps
  <2>2. CASE b = c
    BY <1>1, <2>1, <2>2
  <2>3. CASE b # c
    BY <1>1, <2>1, <2>3 DEF Reached
  <2> QED
    BY <2>2, <2>3
<1>7. Decided' /\ Promised'
  <2>1. SUFFICES ASSUME NEW b \in Checks
                 PROVE  /\ check'[b].busy /\ check'[b].code # 0 =>
                             \A d \in Probes(check'[b].endpoint) : probe'[b][d] \in {"up", "down"}
                        /\ \/ ~ check'[b].healthy /\ (check'[b].code # 200 \/ check'[b].endpoint = "stack")
                           \/ Probes(check'[b].endpoint) \subseteq check'[b].seen
    BY DEF Decided, Promised, Probes, Deps
  <2>2. CASE b # c
    <3>1. check'[b] = check[b] /\ probe'[b] = probe[b]
      BY <1>1, <2>2
    <3> QED
      BY <3>1 DEF Decided, Promised
  <2>3. CASE b = c
    BY <2>3
  <2> QED
    BY <2>2, <2>3
<1> QED
  BY <1>3, <1>4, <1>5, <1>6, <1>7

LEMMA HealthStep == HealthInv /\ [HealthNext]_allVars => HealthInv'
<1> SUFFICES ASSUME HealthInv, [HealthNext]_allVars PROVE HealthInv'
  OBVIOUS
<1> USE DEF HealthInv
<1>0. /\ pool \in 0..PoolLimit /\ others \in 0..pool /\ PoolLimit \in Nat
      /\ admin \in [Checks -> {"none", "opened", "started", "cut"}]
      /\ \A c \in Checks : \A d \in Deps : probe[c][d] \in Steps[d] \cup Over
  BY HealthConstants DEF HealthTypeOK
<1>1. /\ Steps["database"] = {"checkout", "query"}
      /\ Steps["redis"] = {"ping", "set", "get", "info"}
      /\ Steps["kafka"] = {"start", "list", "closeUp", "closeDown", "abort"}
      /\ Deps = {"database", "redis", "kafka"}
  BY DEF Steps, Deps
<1>2. ASSUME UNCHANGED <<conf, cond, check, probe, admin>>, boot' \in {"overlay", "ready"},
             pool' \in 0..PoolLimit, others' \in 0..pool', pool' - others' = pool - others
      PROVE  HealthInv'
  <2>1. Holders' = Holders
    BY <1>2 DEF Holders
  <2>2. ConnectionsOfChecks'
    <3>1. Cardinality(Holders) \in Nat
      BY HealthConstants, FS_Subset, FS_CardinalityType DEF Holders
    <3> QED
      BY <1>0, <1>2, <2>1, <3>1 DEF ConnectionsOfChecks
  <2> QED
    BY <1>2, <2>2
    DEF HealthTypeOK, StartedClientsClosed, Reached, Decided, Promised, Probes, Deps
<1>3. CASE LoadOverlay /\ UNCHANGED healthVars
  BY <1>0, <1>2, <1>3 DEF LoadOverlay, healthVars
<1>4. CASE OthersTake \/ OthersReturn
  BY <1>0, <1>2, <1>4 DEF OthersTake, OthersReturn, configVars, HealthTypeOK
<1>5. CASE UNCHANGED allVars
  BY <1>0, <1>2, <1>5 DEF allVars, healthVars, configVars, HealthTypeOK
<1>6. ASSUME NEW c \in Checks, NEW e \in Endpoints, Arrive(c, e) PROVE HealthInv'
  <2> DEFINE q == [d \in Deps |-> IF d \in Probes(e) THEN First(d) ELSE "none"]
             s == {d \in Probes(e) : cond[d] = "up"}
             a == [busy |-> TRUE, endpoint |-> e, code |-> 0, healthy |-> FALSE, seen |-> s]
  <2>1. \A d \in Deps : First(d) \in {"checkout", "ping", "start", "down"} \cap (Steps[d] \cup Over)
    BY <1>1 DEF First, Over
  <2>2. /\ q \in [Deps -> AllSteps]
        /\ \A d \in Deps : q[d] \in Steps[d] \cup Over /\ q[d] \notin {"up", "closeUp"}
        /\ \A d \in Deps : q[d] # "none" => d \in Probes(e)
        /\ q["database"] \notin {"query", "up"}
    BY <1>1, <2>1 DEF AllSteps, Over
  <2>3. Probes(e) \subseteq Deps /\ s \in SUBSET Deps
    BY DEF Probes, Deps
  <2>4. a \in [busy : BOOLEAN, endpoint : Endpoints \cup {"none"},
               code : {0, 200, 500, 503}, healthy : BOOLEAN, seen : SUBSET Deps]
    BY <2>3
  <2>5. /\ check' = [check EXCEPT ![c] = a] /\ probe' = [probe EXCEPT ![c] = q]
        /\ ~ check[c].busy /\ UNCHANGED <<configVars, cond, pool, others>>
        /\ admin' = [admin EXCEPT ![c] = IF probe'[c]["kafka"] = "start" THEN "opened" ELSE "none"]
    BY <1>6 DEF Arrive
  <2>6. check'[c] = a /\ probe[c]["database"] = "none"
    BY <1>1, <2>5 DEF HealthTypeOK
  <2>7. a.busy /\ a.endpoint = e /\ a.seen = s /\ a.code = 0 /\ ~ a.healthy
    OBVIOUS
  <2> HIDE DEF q, a
  <2>8. /\ check' \in [Checks -> [busy : BOOLEAN, endpoint : Endpoints \cup {"none"},
                                  code : {0, 200, 500, 503}, healthy : BOOLEAN, seen : SUBSET Deps]]
        /\ \A b \in Checks \ {c} : check'[b] = check[b] /\ admin'[b] = admin[b]
    BY <1>0, <2>4, <2>5 DEF HealthTypeOK
  <2>9. admin' \in [Checks -> {"none", "opened", "started", "cut"}] /\ admin'[c] # "started"
    BY <1>0, <2>5
  <2>10. pool' = pool - (IF probe[c]["database"] \in {"query", "up"} THEN 1 ELSE 0)
    BY <1>0, <2>5, <2>6
  <2>11. check'[c].busy /\ check'[c].code = 0 /\ ~ check'[c].healthy
    BY <2>6, <2>7
  <2>12. check'[c].busy => check'[c].code = 0 /\ \A d \in Probes(check'[c].endpoint) :
           q[d] \notin {"up", "closeUp"} /\ (cond[d] = "up" => d \in check'[c].seen)
    BY <2>2, <2>3, <2>6, <2>7
  <2>13. \A d \in Deps : q[d] \in Steps[d] \cup Over /\
           (q[d] # "none" => check'[c].busy /\ d \in Probes(check'[c].endpoint))
    BY <2>2, <2>6, <2>7
  <2>14. \/ ~ check'[c].healthy /\ (check'[c].code # 200 \/ check'[c].endpoint = "stack")
         \/ Probes(check'[c].endpoint) \subseteq check'[c].seen
    BY <2>11
  <2>15. UNCHANGED <<configVars, cond, others>> /\ probe' = [probe EXCEPT ![c] = q]
    BY <2>5
  <2> HIDE DEF s, HealthInv
  <2> QED
    <3>1. q \in [Deps -> AllSteps] /\ q["database"] \notin {"query", "up"}
      BY <2>2
    <3>2. \A b \in Checks \ {c} : check'[b] = check[b] /\ admin'[b] = admin[b]
      BY <2>8
    <3>3. check' \in [Checks -> [busy : BOOLEAN, endpoint : Endpoints \cup {"none"},
                                 code : {0, 200, 500, 503}, healthy : BOOLEAN, seen : SUBSET Deps]]
      BY <2>8
    <3> QED
      BY <2>9, <2>10, <2>12, <2>13, <2>14, <2>15, <3>1, <3>2, <3>3, CheckMoves, ZenonT(60)
<1>7. ASSUME NEW c \in Checks, Return(c) PROVE HealthInv'
  <2> DEFINE up == AllUp(c)
             code == IF up \/ check[c].endpoint = "stack" THEN 200 ELSE 503
  <2>1. /\ check[c].busy /\ \A d \in Probes(check[c].endpoint) : probe[c][d] \in {"up", "down"}
        /\ check' = [check EXCEPT ![c] = [check[c] EXCEPT !.healthy = up, !.code = code]]
        /\ UNCHANGED <<configVars, cond, probe, admin, pool, others>>
    BY <1>7 DEF Return
  <2>2. up \in BOOLEAN /\ code \in {200, 503}
    BY DEF AllUp
  <2>3. \/ ~ up /\ (code # 200 \/ check[c].endpoint = "stack")
        \/ Probes(check[c].endpoint) \subseteq check[c].seen
    BY <2>1 DEF AllUp, Reached
  <2> HIDE DEF up, code
  <2>4. check \in [Checks -> [busy : BOOLEAN, endpoint : Endpoints \cup {"none"},
                              code : {0, 200, 500, 503}, healthy : BOOLEAN, seen : SUBSET Deps]]
    BY DEF HealthTypeOK
  <2>5. /\ check' \in [Checks -> [busy : BOOLEAN, endpoint : Endpoints \cup {"none"},
                                  code : {0, 200, 500, 503}, healthy : BOOLEAN, seen : SUBSET Deps]]
        /\ check'[c].healthy = up /\ check'[c].code = code
        /\ \A b \in Checks : /\ check'[b].busy = check[b].busy
                             /\ check'[b].endpoint = check[b].endpoint
                             /\ check'[b].seen = check[b].seen
        /\ \A b \in Checks \ {c} : check'[b] = check[b]
    <3> DEFINE v == [check[c] EXCEPT !.healthy = up, !.code = code]
               B == BOOLEAN
               E == Endpoints \cup {"none"}
               K == {0, 200, 500, 503}
               S == SUBSET Deps
    <3>1. /\ check \in [Checks -> [busy : B, endpoint : E, code : K, healthy : B, seen : S]]
          /\ up \in B /\ code \in K /\ check' = [check EXCEPT ![c] = v]
      BY <2>1, <2>2, <2>4
    <3> HIDE DEF B, E, K, S
    <3>2. /\ v \in [busy : B, endpoint : E, code : K, healthy : B, seen : S]
          /\ v.healthy = up /\ v.code = code /\ v.busy = check[c].busy
          /\ v.endpoint = check[c].endpoint /\ v.seen = check[c].seen
      BY <3>1
    <3> HIDE DEF v
    <3>3. /\ check' \in [Checks -> [busy : B, endpoint : E, code : K, healthy : B, seen : S]]
          /\ check'[c] = v /\ \A b \in Checks \ {c} : check'[b] = check[b]
      BY <3>1, <3>2
    <3> QED
      BY <3>2, <3>3 DEF B, E, K, S
  <2>6. UNCHANGED <<conf, boot, settings, cond, probe, admin, pool, others>>
    BY <2>1 DEF configVars
  <2>7. \A b \in Checks : Probes(check'[b].endpoint) = Probes(check[b].endpoint)
    BY <2>5
  <2>8. HealthTypeOK'
    <3>1. \A b \in Checks : \A d \in Deps :
            /\ probe[b][d] \in Steps[d] \cup Over
            /\ probe[b][d] # "none" => check'[b].busy /\ d \in Probes(check'[b].endpoint)
      BY <2>5, <2>7 DEF HealthTypeOK
    <3> QED
      BY <2>5, <2>6, <3>1 DEF HealthTypeOK
  <2>9. ConnectionsOfChecks' /\ StartedClientsClosed'
    BY <2>6 DEF ConnectionsOfChecks, StartedClientsClosed, Holders
  <2>10. Reached'
    <3>1. SUFFICES ASSUME NEW b \in Checks, NEW d \in Probes(check'[b].endpoint), check'[b].busy,
                          cond'[d] = "up" \/ probe'[b][d] \in {"up", "closeUp"}
                   PROVE  d \in check'[b].seen
      BY DEF Reached, Probes, Deps
    <3> QED
      BY <2>5, <2>6, <2>7, <3>1 DEF Reached
  <2>11. Decided' /\ Promised'
    <3>1. SUFFICES ASSUME NEW b \in Checks
                   PROVE  /\ check'[b].busy /\ check'[b].code # 0 =>
                               \A d \in Probes(check'[b].endpoint) : probe'[b][d] \in {"up", "down"}
                          /\ check'[b].healthy \/ (check'[b].code = 200 /\ check'[b].endpoint # "stack")
                               => Probes(check'[b].endpoint) \subseteq check'[b].seen
      BY DEF Decided, Promised, Probes, Deps
    <3>2. CASE b = c
      BY <2>1, <2>3, <2>5, <2>6, <2>7, <3>2
    <3>3. CASE b # c
      BY <2>5, <2>6, <2>7, <3>3 DEF Decided, Promised
    <3> QED
      BY <3>2, <3>3
  <2> QED
    BY <2>8, <2>9, <2>10, <2>11
<1>13. ASSUME NEW c \in Checks, Respond(c) \/ CloseFails(c) PROVE HealthInv'
  <2>1. /\ check[c].busy /\ check[c].code # 0
        /\ probe' = [probe EXCEPT ![c] = Idle]
        /\ pool' = IF probe[c]["database"] = "up" THEN pool - 1 ELSE pool
        /\ UNCHANGED <<configVars, cond, admin, others>>
        /\ \/ check' = [check EXCEPT ![c] = [check[c] EXCEPT !.busy = FALSE]]
           \/ check' = [check EXCEPT ![c] =
                [check[c] EXCEPT !.busy = FALSE, !.healthy = FALSE, !.code = 500]]
    BY <1>13 DEF Respond, CloseFails, Closing
  <2>2. \A d \in Probes(check[c].endpoint) : probe[c][d] \in {"up", "down"}
    BY <2>1 DEF Decided
  <2>3. check \in [Checks -> [busy : BOOLEAN, endpoint : Endpoints \cup {"none"},
                              code : {0, 200, 500, 503}, healthy : BOOLEAN, seen : SUBSET Deps]]
    BY DEF HealthTypeOK
  <2>4. /\ check' \in [Checks -> [busy : BOOLEAN, endpoint : Endpoints \cup {"none"},
                                  code : {0, 200, 500, 503}, healthy : BOOLEAN, seen : SUBSET Deps]]
        /\ \A b \in Checks \ {c} : check'[b] = check[b]
        /\ check'[c].busy = FALSE
        /\ check'[c].endpoint = check[c].endpoint /\ check'[c].seen = check[c].seen
        /\ \/ check'[c].healthy = check[c].healthy /\ check'[c].code = check[c].code
           \/ check'[c].healthy = FALSE /\ check'[c].code = 500
    <3> DEFINE no == FALSE
               err == 500
               v == [check[c] EXCEPT !.busy = no]
               w == [check[c] EXCEPT !.busy = no, !.healthy = no, !.code = err]
               B == BOOLEAN
               E == Endpoints \cup {"none"}
               K == {0, 200, 500, 503}
               S == SUBSET Deps
    <3>1. /\ check \in [Checks -> [busy : B, endpoint : E, code : K, healthy : B, seen : S]]
          /\ no \in B /\ err \in K
          /\ check' = [check EXCEPT ![c] = v] \/ check' = [check EXCEPT ![c] = w]
      BY <2>1, <2>3
    <3> HIDE DEF no, err, B, E, K, S
    <3>2. /\ v \in [busy : B, endpoint : E, code : K, healthy : B, seen : S]
          /\ v.busy = no /\ v.healthy = check[c].healthy /\ v.code = check[c].code
          /\ v.endpoint = check[c].endpoint /\ v.seen = check[c].seen
      BY <3>1
    <3>3. /\ w \in [busy : B, endpoint : E, code : K, healthy : B, seen : S]
          /\ w.busy = no /\ w.healthy = no /\ w.code = err
          /\ w.endpoint = check[c].endpoint /\ w.seen = check[c].seen
      BY <3>1
    <3> HIDE DEF v, w
    <3>4. /\ check' \in [Checks -> [busy : B, endpoint : E, code : K, healthy : B, seen : S]]
          /\ check'[c] \in {v, w} /\ \A b \in Checks \ {c} : check'[b] = check[b]
      BY <3>1, <3>2, <3>3
    <3> QED
      BY <3>2, <3>3, <3>4 DEF no, err, B, E, K, S
  <2>5. /\ Idle \in [Deps -> AllSteps]
        /\ \A d \in Deps : Idle[d] = "none" /\ "none" \in Steps[d] \cup Over
        /\ Idle["database"] = "none"
    BY DEF Idle, Over, AllSteps, Deps
  <2>6. probe[c]["database"] # "query" /\ admin[c] # "started"
    BY <1>0, <1>1, <2>2 DEF StartedClientsClosed, Probes, HealthTypeOK
  <2>7. \/ ~ check'[c].healthy /\ (check'[c].code # 200 \/ check'[c].endpoint = "stack")
        \/ Probes(check'[c].endpoint) \subseteq check'[c].seen
    BY <2>4 DEF Promised
  <2>8. pool' = pool - (IF probe[c]["database"] \in {"query", "up"} THEN 1 ELSE 0)
    BY <1>0, <2>1, <2>6
  <2>9. \A d \in Deps : Idle[d] \in Steps[d] \cup Over /\
          (Idle[d] # "none" => check'[c].busy /\ d \in Probes(check'[c].endpoint))
    BY <2>5
  <2>10. admin' \in [Checks -> {"none", "opened", "started", "cut"}] /\ admin'[c] # "started"
    BY <1>0, <2>1, <2>6
  <2>11. \A b \in Checks \ {c} : check'[b] = check[b] /\ admin'[b] = admin[b]
    BY <2>1, <2>4
  <2>12. UNCHANGED <<configVars, cond, others>> /\ probe' = [probe EXCEPT ![c] = Idle]
    BY <2>1
  <2>13. Idle \in [Deps -> AllSteps] /\ Idle["database"] \notin {"query", "up"}
    BY <2>5
  <2>14. check'[c].busy => check'[c].code = 0 /\ \A d \in Probes(check'[c].endpoint) :
           Idle[d] \notin {"up", "closeUp"} /\ (cond[d] = "up" => d \in check'[c].seen)
    BY <2>4
  <2>15. check' \in [Checks -> [busy : BOOLEAN, endpoint : Endpoints \cup {"none"},
                                code : {0, 200, 500, 503}, healthy : BOOLEAN, seen : SUBSET Deps]]
    BY <2>4
  <2> HIDE DEF HealthInv
  <2> QED
    BY <2>7, <2>8, <2>9, <2>10, <2>11, <2>12, <2>13, <2>14, <2>15, CheckMoves, ZenonT(60)
<1>8. ASSUME NEW c \in Checks, Checkout(c) PROVE HealthInv'
  <2>1. /\ probe[c]["database"] = "checkout" /\ pool < PoolLimit /\ pool' = pool + 1
        /\ Go(c, "database", "query") /\ UNCHANGED <<configVars, cond, check, admin, others>>
    BY <1>8 DEF Checkout
  <2> HIDE DEF HealthInv
  <2> QED
    BY <1>0, <1>1, <2>1, ProbeMoves
<1>9. ASSUME NEW c \in Checks, NEW d \in Deps, Answers(c, d) PROVE HealthInv'
  <2>1. PICK next \in After(probe[c][d]) : Go(c, d, next)
    BY <1>9 DEF Answers
  <2>2. /\ cond[d] = "up" /\ UNCHANGED <<configVars, cond, check, pool, others>>
        /\ admin' = IF probe[c][d] = "start" THEN [admin EXCEPT ![c] = "started"] ELSE admin
    BY <1>9 DEF Answers
  <2>3. /\ probe[c][d] \in {"ping", "set", "get", "info", "query", "start", "list"}
        /\ probe[c][d] = "start" => next = "list"
        /\ probe[c][d] = "list" => next \in {"closeUp", "closeDown"}
        /\ probe[c][d] = "query" => next = "up"
    BY <2>1 DEF After
  <2>4. probe[c][d] \in Steps[d] /\ next \in Steps[d] \cup {"up", "down"}
    BY <1>0, <1>1, <2>1, <2>3 DEF After, Over
  <2>5. d = "database" => probe[c][d] = "query" /\ next = "up"
    BY <1>1, <2>3, <2>4
  <2>6. probe[c][d] = "start" => d = "kafka"
    BY <1>1, <2>4
  <2>7. d = "kafka" => next \in Steps["kafka"] \ {"start"}
    BY <1>1, <2>3, <2>4
  <2>8. pool' = pool + (IF d = "database" /\ next \in {"query", "up"} THEN 1 ELSE 0)
                     - (IF d = "database" /\ probe[c][d] = "query" THEN 1 ELSE 0)
    BY <1>0, <2>2, <2>5
  <2>9. /\ admin' \in [Checks -> {"none", "opened", "started", "cut"}]
        /\ \A b \in Checks \ {c} : admin'[b] = admin[b]
        /\ d # "kafka" => admin' = admin
    BY <1>0, <2>2, <2>6
  <2> HIDE DEF HealthInv
  <2> QED
    BY <1>0, <2>1, <2>2, <2>4, <2>7, <2>8, <2>9, ProbeMoves
<1>10. ASSUME NEW c \in Checks, NEW d \in Deps, Refuses(c, d) \/ Expires(c, d) PROVE HealthInv'
  <2> DEFINE next == IF probe[c][d] = "list"
                     THEN IF Refuses(c, d) THEN "closeDown" ELSE "abort" ELSE "down"
  <2>1. /\ Go(c, d, next) /\ UNCHANGED <<configVars, cond, check, others>>
        /\ pool' = IF probe[c][d] = "query" THEN pool - 1 ELSE pool
        /\ \/ admin' = admin
           \/ /\ probe[c][d] \in {"closeUp", "closeDown"}
              /\ admin' = [admin EXCEPT ![c] = "cut"]
    <3>1. CASE Refuses(c, d)
      BY <3>1 DEF Refuses
    <3>2. CASE ~ Refuses(c, d)
      BY <1>10, <3>2 DEF Expires
    <3> QED
      BY <3>1, <3>2
  <2>2. probe[c][d] \in Steps[d]
    <3>1. CASE Refuses(c, d)
      BY <1>0, <3>1 DEF Refuses, After, Over
    <3>2. CASE Expires(c, d)
      BY <3>2 DEF Expires
    <3> QED
      BY <1>10, <3>1, <3>2
  <2>3. next \in Steps[d] \cup {"up", "down"} /\ next \notin {"up", "closeUp", "query", "start"}
    BY <1>1, <2>2
  <2>4. next = "down" \/ probe[c][d] = "list"
    OBVIOUS
  <2> HIDE DEF next
  <2>5. pool' = pool + (IF d = "database" /\ next \in {"query", "up"} THEN 1 ELSE 0)
                     - (IF d = "database" /\ probe[c][d] = "query" THEN 1 ELSE 0)
    BY <1>0, <1>1, <2>1, <2>2, <2>3
  <2>6. /\ admin' \in [Checks -> {"none", "opened", "started", "cut"}]
        /\ \A b \in Checks \ {c} : admin'[b] = admin[b]
        /\ d # "kafka" => admin' = admin
    BY <1>0, <1>1, <2>1, <2>2
  <2>7. /\ probe[c][d] # "abort"
        /\ probe[c][d] \in {"closeUp", "closeDown"} => admin' = [admin EXCEPT ![c] = "cut"]
    <3>1. CASE Refuses(c, d)
      BY <3>1 DEF Refuses, After
    <3>2. CASE Expires(c, d)
      BY <3>2 DEF Expires
    <3> QED
      BY <1>10, <3>1, <3>2
  <2>8. admin'[c] = "started" /\ d = "kafka" => next \in Steps["kafka"] \ {"start"}
    <3>1. SUFFICES ASSUME admin'[c] = "started", d = "kafka" PROVE next \in Steps["kafka"] \ {"start"}
      OBVIOUS
    <3>2. admin[c] = "started" /\ probe[c][d] \notin {"closeUp", "closeDown"}
      BY <1>0, <2>1, <2>7, <3>1
    <3>3. probe[c][d] = "list"
      BY <1>1, <2>7, <3>1, <3>2 DEF StartedClientsClosed
    <3> QED
      BY <1>1, <2>3, <3>1, <3>3 DEF next
  <2> HIDE DEF HealthInv
  <2> QED
    BY <1>0, <2>1, <2>2, <2>3, <2>5, <2>6, <2>8, ProbeMoves
<1>11. ASSUME NEW c \in Checks, Close(c) PROVE HealthInv'
  <2> DEFINE next == IF probe[c]["kafka"] = "closeUp" THEN "up" ELSE "down"
  <2>1. /\ probe[c]["kafka"] \in {"closeUp", "closeDown", "abort"}
        /\ Go(c, "kafka", next) /\ UNCHANGED <<configVars, cond, check, pool, others>>
        /\ admin' = [admin EXCEPT ![c] = "none"]
    BY <1>11 DEF Close
  <2>2. next \in {"up", "down"} /\ (next \in {"up", "closeUp"} => probe[c]["kafka"] = "closeUp")
    OBVIOUS
  <2> HIDE DEF next
  <2>3. /\ admin' \in [Checks -> {"none", "opened", "started", "cut"}]
        /\ \A b \in Checks \ {c} : admin'[b] = admin[b]
        /\ admin'[c] = "none"
    BY <1>0, <2>1
  <2>4. pool' = pool + 0 - 0 /\ pool' <= PoolLimit
    BY <1>0, <2>1
  <2> HIDE DEF HealthInv
  <2> QED
    BY <1>0, <1>1, <2>1, <2>2, <2>3, <2>4, ProbeMoves
<1>12. ASSUME NEW d \in Deps, NEW new \in Conditions, Change(d, new) PROVE HealthInv'
  <2>1. /\ UNCHANGED <<configVars, probe, admin, pool, others>>
        /\ cond' = [cond EXCEPT ![d] = new]
        /\ check' = [b \in Checks |->
                       IF check[b].busy /\ new = "up"
                       THEN [check[b] EXCEPT !.seen = @ \cup ({d} \cap Probes(check[b].endpoint))]
                       ELSE check[b]]
    BY <1>12 DEF Change
  <2>2. \A b \in Checks :
          /\ check'[b] \in [busy : BOOLEAN, endpoint : Endpoints \cup {"none"},
                            code : {0, 200, 500, 503}, healthy : BOOLEAN, seen : SUBSET Deps]
          /\ check'[b].busy = check[b].busy /\ check'[b].endpoint = check[b].endpoint
          /\ check'[b].healthy = check[b].healthy /\ check'[b].code = check[b].code
          /\ check[b].seen \subseteq check'[b].seen
          /\ check[b].busy /\ new = "up" /\ d \in Probes(check[b].endpoint) => d \in check'[b].seen
    <3>1. SUFFICES ASSUME NEW b \in Checks
          PROVE
          /\ check'[b] \in [busy : BOOLEAN, endpoint : Endpoints \cup {"none"},
                            code : {0, 200, 500, 503}, healthy : BOOLEAN, seen : SUBSET Deps]
          /\ check'[b].busy = check[b].busy /\ check'[b].endpoint = check[b].endpoint
          /\ check'[b].healthy = check[b].healthy /\ check'[b].code = check[b].code
          /\ check[b].seen \subseteq check'[b].seen
          /\ check[b].busy /\ new = "up" /\ d \in Probes(check[b].endpoint) => d \in check'[b].seen
      OBVIOUS
    <3>2. check[b] \in [busy : BOOLEAN, endpoint : Endpoints \cup {"none"},
                        code : {0, 200, 500, 503}, healthy : BOOLEAN, seen : SUBSET Deps]
      BY DEF HealthTypeOK
    <3>3. CASE check[b].busy /\ new = "up"
      <4> DEFINE s == check[b].seen \cup ({d} \cap Probes(check[b].endpoint))
      <4>1. check'[b] = [check[b] EXCEPT !.seen = s]
        BY <2>1, <3>3
      <4>2. s \in SUBSET Deps /\ check[b].seen \subseteq s /\ (d \in Probes(check[b].endpoint) => d \in s)
        BY <3>2
      <4> HIDE DEF s
      <4> QED
        BY <3>2, <4>1, <4>2
    <3>4. CASE ~ (check[b].busy /\ new = "up")
      BY <2>1, <3>2, <3>4
    <3> QED
      BY <3>3, <3>4
  <2>3. /\ cond' \in [Deps -> Conditions] /\ cond'[d] = new
        /\ \A e \in Deps \ {d} : cond'[e] = cond[e]
    BY <2>1 DEF HealthTypeOK
  <2>4. HealthTypeOK'
    <3>1. check' \in [Checks -> [busy : BOOLEAN, endpoint : Endpoints \cup {"none"},
                                 code : {0, 200, 500, 503}, healthy : BOOLEAN, seen : SUBSET Deps]]
      BY <2>1, <2>2
    <3>2. \A b \in Checks : \A e \in Deps :
            /\ probe[b][e] \in Steps[e] \cup Over
            /\ probe[b][e] # "none" => check'[b].busy /\ e \in Probes(check'[b].endpoint)
      <4>1. SUFFICES ASSUME NEW b \in Checks, NEW e \in Deps
                     PROVE  /\ probe[b][e] \in Steps[e] \cup Over
                            /\ probe[b][e] # "none" => check'[b].busy /\ e \in Probes(check'[b].endpoint)
        OBVIOUS
      <4>2. check'[b].busy = check[b].busy /\ check'[b].endpoint = check[b].endpoint
        BY <2>2
      <4> QED
        BY <4>2 DEF HealthTypeOK
    <3>3. UNCHANGED <<conf, boot, probe, admin, pool, others>>
      BY <2>1 DEF configVars
    <3> QED
      BY <2>3, <3>1, <3>2, <3>3 DEF HealthTypeOK
  <2>5. ConnectionsOfChecks' /\ StartedClientsClosed'
    BY <2>1 DEF ConnectionsOfChecks, StartedClientsClosed, Holders
  <2>6. Reached'
    <3>1. SUFFICES ASSUME NEW b \in Checks, NEW e \in Probes(check'[b].endpoint), check'[b].busy,
                          cond'[e] = "up" \/ probe[b][e] \in {"up", "closeUp"}
                   PROVE  e \in check'[b].seen
      BY <2>1 DEF Reached, Probes, Deps
    <3>2. e \in Probes(check[b].endpoint) /\ e \in Deps /\ check[b].busy
      BY <2>2, <3>1 DEF Probes, Deps
    <3>3. CASE probe[b][e] \in {"up", "closeUp"} \/ e # d
      BY <2>2, <2>3, <3>1, <3>2, <3>3 DEF Reached
    <3>4. CASE probe[b][e] \notin {"up", "closeUp"} /\ e = d
      <4>1. new = "up"
        BY <2>3, <3>1, <3>4
      <4> QED
        BY <2>2, <3>2, <3>4, <4>1
    <3> QED
      BY <3>3, <3>4
  <2>7. Decided' /\ Promised'
    <3>1. SUFFICES ASSUME NEW b \in Checks
                   PROVE  /\ check'[b].busy /\ check'[b].code # 0 =>
                               \A e \in Probes(check'[b].endpoint) : probe'[b][e] \in {"up", "down"}
                          /\ check'[b].healthy \/ (check'[b].code = 200 /\ check'[b].endpoint # "stack")
                               => Probes(check'[b].endpoint) \subseteq check'[b].seen
      BY DEF Decided, Promised, Probes, Deps
    <3>2. Probes(check'[b].endpoint) = Probes(check[b].endpoint)
      BY <2>2
    <3> QED
      BY <2>1, <2>2, <3>2 DEF Decided, Promised
  <2> QED
    BY <2>4, <2>5, <2>6, <2>7
<1> QED
  BY <1>3, <1>4, <1>5, <1>6, <1>7, <1>8, <1>9, <1>10, <1>11, <1>12, <1>13 DEF HealthNext, ProbeStep

LEMMA HealthInvariant == HealthSpec => []HealthInv
BY HealthInvInit, HealthStep, PTL DEF HealthSpec

(* The types, and that the pool never overflows whatever else uses it. *)
THEOREM HealthTypeCorrect == HealthSpec => []HealthTypeOK
BY HealthInvariant, PTL DEF HealthInv

(* Health checks give back every connection they take (healthcheck_router.py:28-43). *)
THEOREM ChecksReturnConnections == HealthSpec => []ConnectionsOfChecks
BY HealthInvariant, PTL DEF HealthInv

(* No started admin client is left open (healthcheck_router.py:87-97). *)
THEOREM StartedClientsAreClosed == HealthSpec => []StartedClientsClosed
BY HealthInvariant, PTL DEF HealthInv

(* An answer of healthy stands for dependencies that were up, also if the closing of the
   session came between (healthcheck_router.py:28-31, :144-166). *)
THEOREM HealthyIsReached == HealthSpec => []HealthyMeansReached
<1>1. HealthInv => HealthyMeansReached
  BY DEF HealthInv, Promised, HealthyMeansReached, Passed
<1> QED
  BY <1>1, HealthInvariant, PTL
==============================================================================
