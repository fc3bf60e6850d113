---------------------------- MODULE ConfigLoader ----------------------------
(***************************************************************************)
(* ConfigLoader.load: the built-in defaults, overlaid by config.yaml,      *)
(* overlaid by the environment, and then poured into dataclasses that take *)
(* exactly their own fields and look at no type.                           *)
(*                                                                         *)
(* YAML values are the tagged values of WireFormat: Null for a file that   *)
(* is missing or empty, Garbled for one that does not parse.  "env" maps   *)
(* the variables that are set, named <<section, field>>, to their values:  *)
(* Number for the text of a number, Text for any other.                    *)
(***************************************************************************)
EXTENDS WireFormat

Defaults ==
    [api |-> [bind_host |-> Text("127.0.0.1"), port |-> Number(8781),
              auth_token_path |-> Text("auth_token")],
     data |-> [sqlite_path |-> Text("pms.sqlite3"), backup_dir |-> Text("backups")],
     logging |-> [level |-> Text("INFO"), retention_days |-> Number(90),
                  log_dir |-> Text("logs")],
     pipeline |-> [repair_max_attempts_default |-> Number(3),
                   similarity_tolerance_default |-> Number(95)],   \* in hundredths
     plugins |-> [products_dir |-> Text("products")]]

Sections == DOMAIN Defaults
Settings == UNION {{section} \X DOMAIN Defaults[section] : section \in Sections}

\* The casters: int and float refuse what is no number, str takes anything.
Casts(setting, v) == Defaults[setting[1]][setting[2]].json = "number" => v.json = "number"

\* "or {}", and items() of what is no mapping.
Overrides(file) == IF Truthy(file) THEN file ELSE Object(<<>>)

\* The entries of f over those of g: TLC's @@, which the provers do not know.
Over(f, g) == [x \in DOMAIN f \cup DOMAIN g |-> IF x \in DOMAIN f THEN f[x] ELSE g[x]]

\* Two levels deep: a mapping merges into a section, anything else replaces it.
Merged(file) ==
    LET overrides == Overrides(file) IN
    [section \in Sections |->
        LET default == Object(Defaults[section])
            value == GetOr(overrides, section, default)
        IN  IF value.json = "object" THEN Object(Over(value.fields, default.fields)) ELSE value]

\* Mutant: a variable only fills in what the file has not set.
EnvironmentFills(section, merged, env) ==
    Object([field \in DOMAIN merged.fields |->
        IF <<section, field>> \in DOMAIN env
           /\ merged.fields[field] = Defaults[section][field]
        THEN env[<<section, field>>] ELSE merged.fields[field]])

\* merged[section][field] = caster(value), for each variable that is set.
WithEnvironment(section, merged, env) ==
    Object([field \in DOMAIN merged.fields |->
        IF <<section, field>> \in DOMAIN env
        THEN env[<<section, field>>] ELSE merged.fields[field]])

LoadRaises(file, env) ==
    \/ Overrides(file).json # "object"
    \/ \E setting \in DOMAIN env : ~Casts(setting, env[setting])
    \/ \E section \in Sections :
          \/ Merged(file)[section].json # "object"
          \/ DOMAIN Merged(file)[section].fields # DOMAIN Defaults[section]

\* The CoreConfig of a load that does not raise.
Loaded(file, env) ==
    [section \in Sections |-> WithEnvironment(section, Merged(file)[section], env).fields]

\* The documented precedence (TDD 20): environment, then file, then default.
Setting(file, env, section, field) ==
    IF <<section, field>> \in DOMAIN env THEN env[<<section, field>>]
    ELSE GetOr(Get(file, section), field, Defaults[section][field])
=============================================================================
