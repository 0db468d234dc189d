---------------------------- MODULE Configuration ----------------------------
(***************************************************************************)
(* environments-variables.ts and cors.ts: which environments the process   *)
(* starts in, and the values it reads there once.  Of its variables, those *)
(* that another module's behaviour depends on; "unset" is a variable that  *)
(* is not there.                                                           *)
(***************************************************************************)

Flag == {"unset", "true", "false"}
Secrets == {"JWT_ACCESS_SECRET", "JWT_REFRESH_SECRET", "APP_ENCRYPTION_KEY"}

Environment == [
    NODE_ENV : {"development", "production", "test"},
    CORS_ORIGINS : {"unset", "*", "listed"},
    CORS_CREDENTIALS : Flag,
    THROTTLE_ENABLED : Flag,
    THROTTLE_STORAGE : {"unset", "memory", "redis"},
    OUTBOX_RELAY_LOCK : {"unset", "memory", "redis"},
    CACHE_ENABLED : Flag,
    REDIS_URL : {"unset", "set"},
    IP_FILTER_ENABLED : Flag,
    METRICS_ENABLED : Flag,
    METRICS_IP_FILTER_ENABLED : Flag,
    IDEMPOTENCY_ENABLED : Flag,
    API_KEYS_ENABLED : Flag,
    CORS_ENABLED : Flag,
    secrets : [Secrets -> {"unset", "short", "long"}]]

\* booleanEnv and default.
FlagOr(value, default) == IF value = "unset" THEN default ELSE value = "true"
ValueOr(value, default) == IF value = "unset" THEN default ELSE value

(***************************************************************************)
(* ENVIRONMENT_VARIABLES                                                   *)
(***************************************************************************)
Settings(e) == [
    production |-> e.NODE_ENV = "production",
    origins |-> ValueOr(e.CORS_ORIGINS, "*"),
    credentials |-> FlagOr(e.CORS_CREDENTIALS, FALSE),
    cors |-> FlagOr(e.CORS_ENABLED, TRUE),
    throttle |-> FlagOr(e.THROTTLE_ENABLED, TRUE),
    throttleStorage |-> ValueOr(e.THROTTLE_STORAGE, "memory"),
    relayLock |-> ValueOr(e.OUTBOX_RELAY_LOCK, "memory"),
    cache |-> FlagOr(e.CACHE_ENABLED, FALSE),
    redisUrl |-> e.REDIS_URL,
    ipFilter |-> FlagOr(e.IP_FILTER_ENABLED, FALSE),
    metrics |-> FlagOr(e.METRICS_ENABLED, TRUE),
    metricsIpFilter |-> FlagOr(e.METRICS_IP_FILTER_ENABLED, e.NODE_ENV = "production"),
    idempotency |-> FlagOr(e.IDEMPOTENCY_ENABLED, TRUE),
    apiKeys |-> FlagOr(e.API_KEYS_ENABLED, TRUE)]

\* isRedisEnabled.
RedisEnabled(s) == s.throttleStorage = "redis" \/ s.relayLock = "redis" \/ s.cache

(***************************************************************************)
(* What ends the process before it listens                                 *)
(***************************************************************************)

\* REDIS_URL: required by the first of three conditions that holds.
RedisUrlGiven(e) ==
    \/ e.REDIS_URL = "set"
    \/ /\ ValueOr(e.THROTTLE_STORAGE, "memory") # "redis"
       /\ ValueOr(e.OUTBOX_RELAY_LOCK, "memory") # "redis"
       /\ ~FlagOr(e.CACHE_ENABLED, FALSE)

\* In production a secret is given, and has 32 characters.
SecretsGiven(e) ==
    e.NODE_ENV = "production" => \A x \in Secrets : e.secrets[x] = "long"

\* getCorsOptions throws.
CorsRefused(s) == s.cors /\ s.origins = "*" /\ s.credentials

Starts(e) ==
    /\ RedisUrlGiven(e)
    /\ SecretsGiven(e)
    /\ ~(e.NODE_ENV = "production" /\ Settings(e).origins = "*")
    /\ ~CorsRefused(Settings(e))

=============================================================================
