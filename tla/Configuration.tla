--------------------------- MODULE Configuration ---------------------------
(***************************************************************************)
(* The configuration gate every process boots through                      *)
(* (packages/config/src).                                                  *)
(*                                                                         *)
(* An environment gives each variable a raw value.  A number is itself; a  *)
(* URL is its protocol; a connection string its protocol and the password  *)
(* in it; a secret its length in bytes and whether it is the placeholder   *)
(* that `.env.example` publishes.  `Whitespace` is a value of white space  *)
(* only, `Garbled` one that its parser does not read.                      *)
(***************************************************************************)
EXTENDS Absent, Integers, FiniteSets

CONSTANTS Whitespace, Garbled

-----------------------------------------------------------------------------
(* The registry.                                                           *)

\* Integers: the inclusive band each is read in.  EXEC_MEMORY_MB_BYTES is
\* counted in megabytes here.
Ports == {"API_PORT", "COLLAB_PORT", "POSTGRES_PORT", "VALKEY_PORT", "S3_PORT",
          "SEAWEEDFS_MASTER_PORT", "MAILPIT_UI_PORT", "MAILPIT_SMTP_PORT",
          "OTLP_GRPC_PORT", "OTLP_HTTP_PORT", "PROMETHEUS_PORT", "GRAFANA_PORT",
          "WEB_PORT", "CANDIDATE_PORT"}

Band ==
    Over([p \in Ports |-> <<1, 65535>>],
    [DATABASE_POOL_MAX |-> <<1, 1000>>,
     EXEC_CPU_TIME_MS |-> <<100, 600000>>, EXEC_WALL_TIME_MS |-> <<100, 600000>>,
     EXEC_MEMORY_MB |-> <<16, 16384>>, EXEC_MEMORY_MB_BYTES |-> <<16, 16384>>,
     EXEC_MAX_PROCESSES |-> <<1, 4096>>, EXEC_MAX_OUTPUT_BYTES |-> <<1024, 16777216>>,
     QUEUE_RUN_CONCURRENCY |-> <<1, 256>>, QUEUE_SUBMIT_CONCURRENCY |-> <<1, 256>>,
     QUEUE_MAX_ATTEMPTS |-> <<1, 20>>, QUEUE_BACKOFF_MS |-> <<100, 600000>>,
     COLLAB_SNAPSHOT_INTERVAL_MS |-> <<1000, 600000>>,
     WEBHOOK_SIGNING_SECRET_ROTATION_DAYS |-> <<1, 365>>,
     RETENTION_PROCTOR_MEDIA_DAYS |-> <<1, 30>>,
     RETENTION_SESSION_RECORDING_DAYS |-> <<7, 90>>,
     RETENTION_ATTEMPT_DATA_MONTHS |-> <<6, 24>>,
     RETENTION_CANDIDATE_PII_MONTHS |-> <<1, 12>>,
     RETENTION_AUDIT_LOG_YEARS |-> <<7, 10>>])

\* URLs and connection strings: the protocols each accepts.
Protocols ==
    Over([u \in {"API_PUBLIC_URL", "WEB_PUBLIC_URL", "CANDIDATE_PUBLIC_URL", "S3_ENDPOINT",
                 "PISTON_URL", "OIDC_ISSUER", "OTEL_EXPORTER_OTLP_ENDPOINT"} |-> {"http:", "https:"}],
    Over([u \in {"COLLAB_PUBLIC_URL", "LIVEKIT_URL"} |-> {"ws:", "wss:"}],
    Over([u \in {"DATABASE_URL", "DATABASE_JOB_URL", "DATABASE_OWNER_URL"} |-> {"postgres:", "postgresql:"}],
         [REDIS_URL |-> {"redis:", "rediss:"}, SMTP_URL |-> {"smtp:", "smtps:"}])))

Oidc == {"OIDC_ISSUER", "OIDC_CLIENT_ID", "OIDC_CLIENT_SECRET"}
Livekit == {"LIVEKIT_URL", "LIVEKIT_API_KEY", "LIVEKIT_API_SECRET"}
Dsns == {"DATABASE_URL", "DATABASE_JOB_URL", "DATABASE_OWNER_URL"}

\* No default in any tier: what carries a credential.
Required == Dsns \cup {"S3_ACCESS_KEY_ID", "S3_SECRET_ACCESS_KEY", "SESSION_SECRET",
                       "TOKEN_PEPPER"}

\* Read with at least eight characters wherever they are read.
SecretValues == {"S3_SECRET_ACCESS_KEY", "SESSION_SECRET", "TOKEN_PEPPER"}

\* Never printed: an error names the length of what arrived, and no more.
Sealed ==
    Dsns \cup SecretValues \cup
    {"POSTGRES_PASSWORD", "DATABASE_APP_ROLE_PASSWORD", "DATABASE_JOB_ROLE_PASSWORD",
     "REDIS_URL", "S3_ACCESS_KEY_ID", "SMTP_URL", "OIDC_CLIENT_SECRET",
     "LIVEKIT_API_SECRET", "GRAFANA_ADMIN_PASSWORD"}

\* The variables whose placeholder a deployed tier refuses.
Placeheld == SecretValues \cup {"S3_ACCESS_KEY_ID"}

-----------------------------------------------------------------------------
(* Pass 1: each variable on its own.                                       *)

\* A value of white space is no value: `VAR=` means unset.
NormaliseEnv(env) == [v \in {n \in DOMAIN env : env[n] # Whitespace} |-> env[v]]

ParsesInt(v, raw) == raw \in Band[v][1]..Band[v][2]
ParsesUrl(v, raw) == raw.protocol \in Protocols[v]

Parses(v, raw) ==
    IF raw = Garbled THEN FALSE
    ELSE IF v \in DOMAIN Band THEN ParsesInt(v, raw)
    ELSE IF v \in DOMAIN Protocols THEN ParsesUrl(v, raw)
    ELSE IF v \in SecretValues THEN raw.bytes >= 8
    ELSE TRUE

\* The variables that stop the boot on their own: wrong, or required and absent.
ParseIssues(raw) ==
    {v \in DOMAIN raw : ~Parses(v, raw[v])} \cup (Required \ DOMAIN raw)

-----------------------------------------------------------------------------
(* Passes 2 and 3: what no single variable can say.  `env` is the parsed   *)
(* environment with its defaults; an optional feature's variable is        *)
(* Missing when it is empty.                                               *)

HalfSet(env, feature) ==
    IF \E v \in feature : env[v] # Missing THEN {v \in feature : env[v] = Missing} ELSE {}

CrossFieldIssues(env) ==
    {v \in {"EXEC_MEMORY_MB_BYTES"} : env[v] # env["EXEC_MEMORY_MB"]}
      \cup {v \in {"EXEC_WALL_TIME_MS"} : env[v] < env["EXEC_CPU_TIME_MS"]}
      \cup HalfSet(env, Oidc) \cup HalfSet(env, Livekit)

MIN_SECRET_BYTES == 32

\* What must be reached over TLS in a deployed tier, when it is set at all.
Tls == Over([v \in {"API_PUBLIC_URL", "WEB_PUBLIC_URL", "CANDIDATE_PUBLIC_URL", "OIDC_ISSUER"} |-> "https:"],
            [v \in {"COLLAB_PUBLIC_URL", "LIVEKIT_URL"} |-> "wss:"])

RequireProtocol(env, v) == env[v] = Missing \/ env[v].protocol = Tls[v]

Strong(env, v) == env[v] = Missing \/ env[v].bytes >= MIN_SECRET_BYTES

\* A placeholder or a development password is a secret that everyone has.
DeployedTierIssues(env) ==
    {v \in {"NODE_ENV"} : env[v] # "production"}
      \cup {v \in DOMAIN Tls : ~RequireProtocol(env, v)}
      \cup {v \in SecretValues \cup {"OIDC_CLIENT_SECRET", "LIVEKIT_API_SECRET"} : ~Strong(env, v)}
      \cup {v \in Placeheld : env[v].placeholder}
      \cup {v \in Dsns : env[v].password \in {"", "hiring", "hiring_app", "hiring_job"}}

IsDeployed(env) == env["APP_ENV"] \in {"staging", "production"}

-----------------------------------------------------------------------------
(* The gate, and what it lets through.                                     *)

Defaults ==
    Over([v \in Oidc \cup Livekit |-> Missing],
    [NODE_ENV |-> "development", APP_ENV |-> "local", LOG_LEVEL |-> Missing,
     EXEC_CPU_TIME_MS |-> 5000, EXEC_WALL_TIME_MS |-> 10000,
     EXEC_MEMORY_MB |-> 256, EXEC_MEMORY_MB_BYTES |-> 256,
     API_PUBLIC_URL |-> [protocol |-> "http:"], WEB_PUBLIC_URL |-> [protocol |-> "http:"],
     CANDIDATE_PUBLIC_URL |-> [protocol |-> "http:"], COLLAB_PUBLIC_URL |-> [protocol |-> "ws:"]])

ToFeature(env, feature) == \A v \in feature : env[v] # Missing

Shape(env) ==
    [tier |-> env["APP_ENV"], deployed |-> IsDeployed(env),
     logLevel |-> IF env["LOG_LEVEL"] # Missing THEN env["LOG_LEVEL"]
                  ELSE IF IsDeployed(env) THEN "info" ELSE "debug",
     oidc |-> ToFeature(env, Oidc), livekit |-> ToFeature(env, Livekit),
     values |-> env]

\* Every failing variable of a pass is collected before the boot stops.
LoadConfig(given) ==
    LET raw == NormaliseEnv(given)
        env == Over(raw, Defaults)
        issues == IF ParseIssues(raw) # {} THEN ParseIssues(raw)
                  ELSE CrossFieldIssues(env)
                         \cup (IF IsDeployed(env) THEN DeployedTierIssues(env) ELSE {}) IN
    IF issues # {} THEN [issues |-> issues]
    ELSE [issues |-> {}, config |-> Shape(env)]

\* The environment is read once, when the module loads.  A failure is kept:
\* importing the module never throws, reading any part of it does, each time.
ReadPart(given) == IF LoadConfig(given).issues = {} THEN "value" ELSE "throws"

\* The migration runner reads one variable, and falls back to nothing.
LoadMigrationTarget(given) ==
    IF "DATABASE_OWNER_URL" \notin DOMAIN NormaliseEnv(given) THEN Missing
    ELSE IF ~Parses("DATABASE_OWNER_URL", given["DATABASE_OWNER_URL"]) THEN Missing
    ELSE given["DATABASE_OWNER_URL"]

-----------------------------------------------------------------------------
(* Dumps.  A dump says of each variable whether it shows the value, shows  *)
(* a connection string without its password, or shows nothing.             *)

RedactedWhole ==
    {"DATABASE_APP_ROLE_PASSWORD", "DATABASE_JOB_ROLE_PASSWORD", "POSTGRES_PASSWORD",
     "S3_ACCESS_KEY_ID", "S3_SECRET_ACCESS_KEY", "SESSION_SECRET", "TOKEN_PEPPER",
     "OIDC_CLIENT_SECRET", "LIVEKIT_API_SECRET", "GRAFANA_ADMIN_PASSWORD"}

RedactedDsns == Dsns \cup {"REDIS_URL", "SMTP_URL"}

RedactConfig(v) ==
    IF v \in RedactedWhole THEN "redacted"
    ELSE IF v \in RedactedDsns THEN "without password" ELSE "shown"

\* A dump of the process's configuration, or the reason there is none.
Render(given, v) ==
    IF LoadConfig(given).issues # {} THEN "the failure" ELSE RedactConfig(v)

\* What an error says arrived: a sealed value by its length only.
DescribeReceived(v, raw) ==
    IF v \notin DOMAIN raw THEN "nothing"
    ELSE IF v \in Sealed THEN "its length" ELSE "the value"

-----------------------------------------------------------------------------

\* A configuration that boots is one a deployment can run on: in a deployed
\* tier every secret in use is long and private and every public address is
\* over TLS; in every tier a feature is configured whole or off.  A boot that
\* stops names a variable.  Nothing sealed is shown by a dump or an error.
BootIsSound(given) ==
    LET outcome == LoadConfig(given) IN
    IF outcome.issues # {}
    THEN /\ ReadPart(given) = "throws"
         /\ \A v \in outcome.issues \cap Sealed : DescribeReceived(v, given) # "the value"
    ELSE LET config == outcome.config
             env == config.values IN
         /\ \A feature \in {Oidc, Livekit} :
               Cardinality({v \in feature : env[v] # Missing}) \in {0, Cardinality(feature)}
         /\ env["EXEC_CPU_TIME_MS"] <= env["EXEC_WALL_TIME_MS"]
         /\ config.deployed =>
               /\ \A v \in SecretValues : env[v].bytes >= MIN_SECRET_BYTES /\ ~env[v].placeholder
               /\ config.oidc => env["OIDC_CLIENT_SECRET"].bytes >= MIN_SECRET_BYTES
               /\ config.oidc => env["OIDC_ISSUER"].protocol = "https:"
               /\ config.livekit => env["LIVEKIT_URL"].protocol = "wss:"
               /\ config.logLevel = "debug" => env["LOG_LEVEL"] = "debug"
         /\ \A v \in Sealed : Render(given, v) \notin {"shown", "the failure"}
         /\ ReadPart(given) = "value"
=============================================================================
