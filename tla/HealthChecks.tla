------------------------------ MODULE HealthChecks ------------------------------
(***************************************************************************)
(* routers/healthcheck_router.py: the endpoints by which Kubernetes decides *)
(* whether a process gets traffic.  A check probes one dependency, or       *)
(* PostgreSQL, Redis and Kafka at once under asyncio.gather, each probe a   *)
(* chain of awaits under an asyncio.timeout of its own.                     *)
(*                                                                         *)
(* A dependency may change at any moment, so the results of one answer may  *)
(* stem from different moments.  A timer may fire at any await: a slow      *)
(* answer is not told from a missing one.  The connection pool is shared    *)
(* with the requests of DatabaseSessions, of which only the connections     *)
(* they hold are modelled.                                                  *)
(***************************************************************************)
EXTENDS Configuration, FiniteSets

CONSTANTS
  Checks,      \* the health requests that may be in progress at once
  Endpoints,   \* the endpoints they call
  Conditions,  \* the conditions a dependency may be in
  PoolLimit,   \* pool_size + max_overflow
  Probed       \* the configurations under which requests arrive

ASSUME HealthConstants ==
  /\ IsFiniteSet(Checks)
  /\ Endpoints \subseteq {"liveness", "db", "redis", "kafka", "readiness", "stack"}
  /\ Conditions \subseteq {"up", "refusing", "silent"}
  /\ "up" \in Conditions
  /\ PoolLimit \in Nat
  /\ Probed \subseteq Configuration
  /\ \A p \in Probed : p.section = "KAFKA"

VARIABLES
  cond,    \* the condition of each dependency
  check,   \* the requests: the endpoint, the answer, the dependencies seen up meanwhile
  probe,   \* where each probe of each request is
  admin,   \* the Kafka admin client of each request, or what its last one left behind
  pool,    \* connections checked out of the pool
  others   \* those of them that other requests hold

healthVars == <<cond, check, probe, admin, pool, others>>
allVars == <<configVars, healthVars>>

Deps == {"database", "redis", "kafka"}

Probes(endpoint) ==
  CASE endpoint = "liveness" -> {}
    [] endpoint = "db" -> {"database"}
    [] endpoint \in {"redis", "kafka"} -> {endpoint}
    [] OTHER -> Deps

Steps ==
  [database |-> {"checkout", "query"},
   redis |-> {"ping", "set", "get", "info"},
   kafka |-> {"start", "list", "closeUp", "closeDown", "abort"}]

Over == {"none", "up", "down"}
AllSteps == Over \cup UNION {Steps[d] : d \in Deps}

HealthTypeOK ==
  /\ conf \in Configuration
  /\ boot \in {"overlay", "ready"}
  /\ cond \in [Deps -> Conditions]
  /\ check \in [Checks -> [busy : BOOLEAN, endpoint : Endpoints \cup {"none"},
                           code : {0, 200, 500, 503}, healthy : BOOLEAN, seen : SUBSET Deps]]
  /\ probe \in [Checks -> [Deps -> AllSteps]]
  /\ \A c \in Checks : \A d \in Deps :
       /\ probe[c][d] \in Steps[d] \cup Over
       /\ probe[c][d] # "none" => check[c].busy /\ d \in Probes(check[c].endpoint)
  /\ admin \in [Checks -> {"none", "opened", "started", "cut"}]
  /\ others \in 0..pool
  /\ pool \in 0..PoolLimit

Idle == [d \in Deps |-> "none"]

HealthInit ==
  /\ ConfigInit
  /\ cond = [d \in Deps |-> "up"]
  /\ check = [c \in Checks |-> [busy |-> FALSE, endpoint |-> "none", code |-> 0,
                                healthy |-> FALSE, seen |-> {}]]
  /\ probe = [c \in Checks |-> Idle]
  /\ admin = [c \in Checks |-> "none"]
  /\ pool = 0
  /\ others = 0

\* The application is up.  Bound: under the other configurations nothing happens after the import.
Serving == boot = "ready" /\ conf \in Probed

-----------------------------------------------------------------------------
(* A request *)

\* kafka_cfg.get("BOOTSTRAP_SERVERS") or kafka_cfg.get("BROKERS"): an empty string counts
\* as missing.  A section that is no object makes the probe fail as well.
Brokers ==
  /\ GetConfig.kind = "object"
  /\ \E k \in Keys \cap BrokerKeys :
       \/ GetConfig.keys[k] = "env"
       \/ GetConfig.keys[k] # "none" /\ k \notin conf.blank

First(d) ==
  CASE d = "database" -> "checkout"
    [] d = "redis" -> "ping"
    [] d = "kafka" -> IF Brokers THEN "start" ELSE "down"

Arrive(c, e) ==
  /\ Serving
  /\ ~ check[c].busy
  /\ check' = [check EXCEPT ![c] = [busy |-> TRUE, endpoint |-> e, code |-> 0, healthy |-> FALSE,
                                    seen |-> {d \in Probes(e) : cond[d] = "up"}]]
  /\ probe' = [probe EXCEPT ![c] = [d \in Deps |-> IF d \in Probes(e) THEN First(d) ELSE "none"]]
  /\ admin' = [admin EXCEPT ![c] = IF probe'[c]["kafka"] = "start" THEN "opened" ELSE "none"]
  /\ UNCHANGED <<configVars, cond, pool, others>>

Go(c, d, step) == probe' = [probe EXCEPT ![c][d] = step]

\* Mutant: a pool without a limit (max_overflow = -1).
CheckoutUnlimited(c) ==
  /\ probe[c]["database"] = "checkout"
  /\ pool' = pool + 1
  /\ Go(c, "database", "query")
  /\ UNCHANGED <<configVars, cond, check, admin, others>>

\* session.execute takes a connection of the pool; it is the session's until the request
\* is over, however long the other probes take.
Checkout(c) ==
  /\ probe[c]["database"] = "checkout"
  /\ pool < PoolLimit
  /\ pool' = pool + 1
  /\ Go(c, "database", "query")
  /\ UNCHANGED <<configVars, cond, check, admin, others>>

\* The step that follows an answer of the dependency; a list of no brokers is "down".
After(step) ==
  CASE step = "ping" -> {"set"}
    [] step = "set" -> {"get"}
    [] step = "get" -> {"info"}
    [] step \in {"query", "info"} -> {"up"}
    [] step = "start" -> {"list"}
    [] step = "list" -> {"closeUp", "closeDown"}
    [] OTHER -> {}

Answers(c, d) ==
  /\ cond[d] = "up"
  /\ \E next \in After(probe[c][d]) : Go(c, d, next)
  /\ admin' = IF probe[c][d] = "start" THEN [admin EXCEPT ![c] = "started"] ELSE admin
  /\ UNCHANGED <<configVars, cond, check, pool, others>>

\* Mutant: no finally around list_topics.
RefusesNoFinally(c, d) ==
  /\ cond[d] = "refusing"
  /\ After(probe[c][d]) # {}
  /\ Go(c, d, "down")
  /\ pool' = IF probe[c][d] = "query" THEN pool - 1 ELSE pool
  /\ UNCHANGED <<configVars, cond, check, admin, others>>

\* The dependency refuses or breaks the connection; ping turns that into False.  A broken
\* connection leaves the pool; an admin client whose list failed is closed, under the timer.
Refuses(c, d) ==
  /\ cond[d] = "refusing"
  /\ After(probe[c][d]) # {}
  /\ Go(c, d, IF probe[c][d] = "list" THEN "closeDown" ELSE "down")
  /\ pool' = IF probe[c][d] = "query" THEN pool - 1 ELSE pool
  /\ UNCHANGED <<configVars, cond, check, admin, others>>

\* Mutant: waiting for the pool is outside the timer.
ExpiresNotInPool(c, d) ==
  /\ probe[c][d] \in Steps[d] \ {"abort", "checkout"}
  /\ Go(c, d, IF probe[c][d] = "list" THEN "abort" ELSE "down")
  /\ pool' = IF probe[c][d] = "query" THEN pool - 1 ELSE pool
  /\ admin' = IF probe[c][d] \in {"closeUp", "closeDown"}
              THEN [admin EXCEPT ![c] = "cut"] ELSE admin
  /\ UNCHANGED <<configVars, cond, check, others>>

\* asyncio.timeout cancels the await.  A list_topics cut off still closes the client, now
\* without a timer; start() and close() are cut off for good; the connection of a
\* statement cut off is invalidated.
Expires(c, d) ==
  /\ probe[c][d] \in Steps[d] \ {"abort"}
  /\ Go(c, d, IF probe[c][d] = "list" THEN "abort" ELSE "down")
  /\ pool' = IF probe[c][d] = "query" THEN pool - 1 ELSE pool
  /\ admin' = IF probe[c][d] \in {"closeUp", "closeDown"}
              THEN [admin EXCEPT ![c] = "cut"] ELSE admin
  /\ UNCHANGED <<configVars, cond, check, others>>

\* await admin.close(), which needs no answer of Kafka.
Close(c) ==
  /\ probe[c]["kafka"] \in {"closeUp", "closeDown", "abort"}
  /\ Go(c, "kafka", IF probe[c]["kafka"] = "closeUp" THEN "up" ELSE "down")
  /\ admin' = [admin EXCEPT ![c] = "none"]
  /\ UNCHANGED <<configVars, cond, check, pool, others>>

\* Mutant: one dependency that is up is enough.
AnyUp(c) == \E d \in Probes(check[c].endpoint) : probe[c][d] = "up"

\* all(x.get("status") == "up" for x in ..)
AllUp(c) == \A d \in Probes(check[c].endpoint) : probe[c][d] = "up"

\* Every probe has a result, and the handler returns or raises.  GET /health/stack is
\* answered with 200, healthy or degraded.
Return(c) ==
  /\ check[c].busy
  /\ check[c].code = 0
  /\ \A d \in Probes(check[c].endpoint) : probe[c][d] \in {"up", "down"}
  /\ check' = [check EXCEPT ![c] =
       [@ EXCEPT !.healthy = AllUp(c),
                 !.code = IF AllUp(c) \/ check[c].endpoint = "stack" THEN 200 ELSE 503]]
  /\ UNCHANGED <<configVars, cond, probe, admin, pool, others>>

\* The answer waits for session.close(), which has a ROLLBACK to send: SELECT 1 has begun a
\* transaction.  A SELECT 1 that failed has left no connection to roll back.
Closing(c) == check[c].busy /\ check[c].code # 0 /\ probe[c]["database"] = "up"

\* Mutant: the session is not closed.
RespondOpen(c) ==
  /\ check[c].busy
  /\ check[c].code # 0
  /\ check' = [check EXCEPT ![c].busy = FALSE]
  /\ probe' = [probe EXCEPT ![c] = Idle]
  /\ UNCHANGED <<configVars, cond, admin, pool, others>>

\* The dependency get_db_session is left, then the response is sent.  Nothing bounds the
\* wait for the ROLLBACK.
Respond(c) ==
  /\ check[c].busy
  /\ check[c].code # 0
  /\ Closing(c) => cond["database"] = "up"
  /\ check' = [check EXCEPT ![c].busy = FALSE]
  /\ probe' = [probe EXCEPT ![c] = Idle]
  /\ pool' = IF Closing(c) THEN pool - 1 ELSE pool
  /\ UNCHANGED <<configVars, cond, admin, others>>

\* The connection has been broken since SELECT 1: the ROLLBACK raises, the connection is
\* invalidated, and the answer is 500 whatever the handler said.
CloseFails(c) ==
  /\ Closing(c)
  /\ cond["database"] # "silent"
  /\ check' = [check EXCEPT ![c] = [@ EXCEPT !.busy = FALSE, !.healthy = FALSE, !.code = 500]]
  /\ probe' = [probe EXCEPT ![c] = Idle]
  /\ pool' = pool - 1
  /\ UNCHANGED <<configVars, cond, admin, others>>

-----------------------------------------------------------------------------
(* The rest *)

Change(d, new) ==
  /\ Serving
  /\ cond[d] # new
  /\ cond' = [cond EXCEPT ![d] = new]
  /\ check' = [c \in Checks |->
                  IF check[c].busy /\ new = "up"
                  THEN [check[c] EXCEPT !.seen = @ \cup ({d} \cap Probes(check[c].endpoint))]
                  ELSE check[c]]
  /\ UNCHANGED <<configVars, probe, admin, pool, others>>

\* Another request takes a connection, or gives one back.
OthersTake ==
  /\ Serving
  /\ pool < PoolLimit
  /\ pool' = pool + 1
  /\ others' = others + 1
  /\ UNCHANGED <<configVars, cond, check, probe, admin>>

OthersReturn ==
  /\ others > 0
  /\ pool' = pool - 1
  /\ others' = others - 1
  /\ UNCHANGED <<configVars, cond, check, probe, admin>>

ProbeStep(c, d) ==
  \/ d = "database" /\ Checkout(c)
  \/ d = "kafka" /\ Close(c)
  \/ Answers(c, d) \/ Refuses(c, d) \/ Expires(c, d)

HealthNext ==
  \/ LoadOverlay /\ UNCHANGED healthVars
  \/ \E c \in Checks : \/ \E e \in Endpoints : Arrive(c, e)
                       \/ \E d \in Deps : ProbeStep(c, d)
                       \/ Return(c) \/ Respond(c) \/ CloseFails(c)
  \/ \E d \in Deps, new \in Conditions : Change(d, new)
  \/ OthersTake \/ OthersReturn

HealthSpec == HealthInit /\ [][HealthNext]_allVars

\* Timers fire, admin.close() ends, the event loop runs what is due, and PostgreSQL answers
\* or breaks off a ROLLBACK unless it falls silent.
Fairness ==
  \A c \in Checks : /\ WF_allVars(Return(c))
                    /\ WF_allVars(Respond(c) \/ CloseFails(c))
                    /\ \A d \in Deps : WF_allVars(ProbeStep(c, d))

HealthFairSpec == HealthSpec /\ Fairness

-----------------------------------------------------------------------------
(* Properties *)

\* The last answer of c says that all is well.
Passed(c) ==
  /\ ~ check[c].busy
  /\ \/ check[c].healthy
     \/ check[c].code = 200 /\ check[c].endpoint # "stack"

(* No traffic for a process that cannot reach what it needs: an answer of healthy,
   and any 200 but that of /stack, means that every dependency of the endpoint has
   been up at some moment since the request came in; not at the same moment, since
   the probes run side by side (healthcheck_router.py:145-151, :228-233). *)
HealthyMeansReached ==
  \A c \in Checks : Passed(c) => Probes(check[c].endpoint) \subseteq check[c].seen

(* An admin client that has started is not left open: its close may be cut off by
   the timer, but the timer alone, or a failing list_topics, never skips it.  Left
   behind are only clients that never started (healthcheck_router.py:87-97). *)
StartedClientsClosed ==
  \A c \in Checks : admin[c] = "started" => probe[c]["kafka"] \in Steps["kafka"] \ {"start"}

\* The checks whose session has a connection.
Holders == {c \in Checks : probe[c]["database"] \in {"query", "up"}}

(* Health checks give back what they take: the connections out of the pool are those of
   the other requests and one for every check whose SELECT 1 is running or has
   succeeded, and a check that is over has none (healthcheck_router.py:28-43). *)
ConnectionsOfChecks == pool = others + Cardinality(Holders)

(* Every health request is answered, whichever dependencies fall silent and however long
   the pool stays empty: no probe waits without a timer, and no result is missing from
   the gather (healthcheck_router.py:38, :48, :86).  The one wait without a timer is that
   of session.close(): a check on /db, /readiness or /stack whose SELECT 1 has succeeded
   may hang for ever in the ROLLBACK of a PostgreSQL that keeps falling silent
   (healthcheck_router.py:28-31). *)
HealthAnswered ==
  \A c \in Checks : \/ check[c].busy ~> ~ check[c].busy
                    \/ <>[]Closing(c) /\ []<>(cond["database"] = "silent")
==============================================================================
