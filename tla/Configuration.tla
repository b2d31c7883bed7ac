----------------------------- MODULE Configuration -----------------------------
(***************************************************************************)
(* utils/config.py: configs/config.json, overlaid in APP_ENV=local by       *)
(* configs/config.local.json, overridden by environment variables whenever  *)
(* a section is asked for.  The configuration is loaded while the modules   *)
(* are imported, before any request.                                        *)
(*                                                                         *)
(* Sections do not touch one another, so the module follows one.  A value   *)
(* is the layer it comes from, which is all the layering tells apart.       *)
(* Files have two levels, like those in configs/: a section is absent, a    *)
(* scalar (or a list), or an object of scalars.                             *)
(***************************************************************************)
EXTENDS Naturals

CONSTANTS
  Sections,  \* the top-level keys
  Keys       \* the keys within a section

Section(layer) ==
  [kind : {"absent"}, leaf : {"none"}, keys : [Keys -> {"none"}]]
    \cup [kind : {"scalar"}, leaf : {layer}, keys : [Keys -> {"none"}]]
    \cup [kind : {"object"}, leaf : {"none"}, keys : [Keys -> {"none", layer}]]

\* The keys of the Kafka section that check_kafka reads.
BrokerKeys == {"BOOTSTRAP_SERVERS", "BROKERS"}

\* What an environment variable holds: "one" is a numeral that is also a Boolean, "word" neither.
Raw == {"unset", "empty", "word", "one"}

\* What a process finds on disk and in its environment.  An overlay is broken if it is no
\* JSON, or not an object.
Configuration ==
  [section : Sections,
   base : Section("base"),
   overlay : Section("local"),
   blank : SUBSET (Keys \cap BrokerKeys),   \* of which the files have an empty string
   file : {"missing", "broken", "object"},  \* config.local.json
   local : BOOLEAN,                         \* APP_ENV = local
   env : [Keys -> Raw]]

VARIABLES
  conf,      \* the configuration found; it does not change
  settings,  \* the section in self.config
  boot       \* where the import is

configVars == <<conf, settings, boot>>

\* The keys a variable may override: with any text, with a number.
Texts ==
  ({"DATABASE_ZUMP"} \X {"HOST", "DB_NAME", "USERNAME", "PASSWORD"})
    \cup ({"REDIS"} \X {"HOST", "PASSWORD"})
    \cup ({"KAFKA"} \X {"BOOTSTRAP_SERVERS", "QUEUE_TOPIC", "CLIENT_ID"})
    \cup ({"OAUTH"} \X {"JWT_SECRET_KEY", "ALGORITHM"})

Numbers ==
  ({"DATABASE_ZUMP"} \X {"PORT", "READ_PORT"})
    \cup {<<"REDIS", "PORT">>, <<"REDIS", "DB">>, <<"OAUTH", "DEFAULT_JWT_EXPIRE_TIME">>}

\* What the variable of a key must hold.  DEBUG_MODE has one variable, found under every key.
Rule(s, k) ==
  CASE s = "DEBUG_MODE" -> "boolean"
    [] <<s, k>> \in Texts -> "text"
    [] <<s, k>> \in Numbers -> "number"
    [] <<s, k>> = <<"DATABASE_ZUMP", "CLIENT_ENCODING">> -> "present"
    [] OTHER -> "none"

\* os.getenv, _get_int and _get_bool: is the variable set to something usable?
Accepts(rule, raw) ==
  \/ rule = "present" /\ raw # "unset"
  \/ rule = "text" /\ raw \notin {"unset", "empty"}
  \/ rule \in {"number", "boolean"} /\ raw = "one"

\* Mutant: a shallow merge, dict.update.
MergeShallow(base, overlay) == IF overlay.kind = "absent" THEN base ELSE overlay

\* _deep_merge, for one key of the top level.
Merge(base, overlay) ==
  CASE overlay.kind = "absent" -> base
    [] base.kind = "object" /\ overlay.kind = "object" ->
         [base EXCEPT !.keys =
           [k \in Keys |-> IF overlay.keys[k] = "none" THEN @[k] ELSE overlay.keys[k]]]
    [] OTHER -> overlay

ConfigInit ==
  /\ conf \in Configuration
  /\ conf.section = "DEBUG_MODE" => \A j, k \in Keys : conf.env[j] = conf.env[k]
  /\ settings = conf.base
  /\ boot = "overlay"

OverlayRead == conf.local /\ conf.file = "object"

\* The overlay is read in APP_ENV=local only; one that is broken is dropped as a whole by
\* except Exception: pass.
LoadOverlay ==
  /\ boot = "overlay"
  /\ boot' = "ready"
  /\ settings' = IF OverlayRead THEN Merge(conf.base, conf.overlay) ELSE conf.base
  /\ UNCHANGED conf

Usable(k) == Accepts(Rule(conf.section, k), conf.env[k])

\* get_config: a copy of the section with the usable variables written into it; None
\* ("absent") for a section no file has, an error when there is nothing to write into.
GetConfig ==
  IF settings.kind = "absent" \/ ~ \E k \in Keys : Usable(k) THEN settings
  ELSE CASE conf.section = "DEBUG_MODE" ->
              [kind |-> "scalar", leaf |-> "env", keys |-> [k \in Keys |-> "none"]]
         [] conf.section # "DEBUG_MODE" /\ settings.kind = "object" ->
              [settings EXCEPT !.keys = [k \in Keys |-> IF Usable(k) THEN "env" ELSE @[k]]]
         [] OTHER -> [settings EXCEPT !.kind = "error"]

-----------------------------------------------------------------------------
(* The layers, path by path: a value is the environment's exactly if its variable is
   usable and some file has its section; otherwise the overlay's if the overlay was
   read and has it; otherwise the base file's, unless the overlay replaced the whole
   section.  A missing, broken or foreign overlay and a malformed variable change
   nothing (config.py:18-35, :59-128). *)
LayersInOrder ==
  boot = "ready" =>
    LET b == conf.base
        o == [conf.overlay EXCEPT !.kind = IF OverlayRead THEN @ ELSE "absent"]
        got == GetConfig
    IN  /\ got.kind = "absent" <=> b.kind = "absent" /\ o.kind = "absent"
        /\ got.kind = "scalar" =>
             got.leaf = IF \E k \in Keys : Usable(k) THEN "env"
                        ELSE IF o.kind = "scalar" THEN "local" ELSE "base"
        /\ got.kind = "object" => \A k \in Keys :
             LET mine == o.kind = "object" /\ o.keys[k] # "none"
             IN  /\ got.keys[k] = "env" <=> Usable(k)
                 /\ got.keys[k] = "local" <=> mine /\ ~ Usable(k)
                 /\ got.keys[k] = "base" <=>
                      /\ b.kind = "object" /\ b.keys[k] # "none"
                      /\ o.kind \in {"absent", "object"}
                      /\ ~ mine /\ ~ Usable(k)
==============================================================================
