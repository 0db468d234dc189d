---------------------------- MODULE MCHttpPipeline ----------------------------
(***************************************************************************)
(* Instances of HttpPipeline for TLC: every route on its own, called by    *)
(* every kind of caller, and pairs of calls that meet in one key or in one *)
(* user.                                                                   *)
(***************************************************************************)
EXTENDS HttpPipeline

CONSTANTS q1, q2, alice, bob

MCRequest == {q1, q2}

Development == [
    NODE_ENV |-> "development", CORS_ORIGINS |-> "unset", CORS_CREDENTIALS |-> "unset",
    THROTTLE_ENABLED |-> "unset", THROTTLE_STORAGE |-> "unset",
    OUTBOX_RELAY_LOCK |-> "unset", CACHE_ENABLED |-> "unset", REDIS_URL |-> "unset",
    IP_FILTER_ENABLED |-> "unset", METRICS_ENABLED |-> "unset",
    METRICS_IP_FILTER_ENABLED |-> "unset", IDEMPOTENCY_ENABLED |-> "unset",
    API_KEYS_ENABLED |-> "unset", CORS_ENABLED |-> "unset",
    secrets |-> [x \in Secrets |-> "unset"]]

Production == [Development EXCEPT
    !.NODE_ENV = "production", !.CORS_ORIGINS = "listed", !.CORS_CREDENTIALS = "true",
    !.IP_FILTER_ENABLED = "true", !.CACHE_ENABLED = "true", !.REDIS_URL = "set",
    !.THROTTLE_STORAGE = "redis",
    !.secrets = [x \in Secrets |-> "long"]]

\* The last does not start.
MCEnvironments == {
    Development, Production,
    [Development EXCEPT !.API_KEYS_ENABLED = "false", !.METRICS_ENABLED = "false",
                        !.THROTTLE_ENABLED = "false"],
    [Production EXCEPT !.REDIS_URL = "unset"]}

By(route, u) ==
    [route |-> route, token |-> "good", subject |-> u, target |-> u, apiKey |-> "none",
     listed |-> TRUE, keyed |-> FALSE, body |-> "first", problem |-> FALSE, sendsId |-> FALSE]

Alone(c) == [q \in MCRequest |-> IF q = q1 THEN c ELSE None]
Pair(c, d) == [q \in MCRequest |-> IF q = q1 THEN c ELSE d]

EveryRoute ==
    {Alone([By(r, alice) EXCEPT !.token = t, !.listed = l, !.problem = l, !.sendsId = i]) :
        r \in Routes, t \in {"none", "bad", "good"}, l, i \in BOOLEAN}
    \cup {Alone([By("health_summary", alice) EXCEPT !.apiKey = k, !.problem = x]) :
        k \in {"unknown", "narrow", "good"}, x \in BOOLEAN}
    \cup {Alone([By(r, alice) EXCEPT !.target = bob]) : r \in {"update_user", "delete_user"}}

Keyed(r, u, b) == [By(r, u) EXCEPT !.keyed = TRUE, !.body = b]

SameKey ==
    {Pair(Keyed(r, alice, "first"), Keyed(r, alice, b)) :
        r \in {"login", "update_user"}, b \in {"first", "second"}}
    \cup {Pair(Keyed("update_user", alice, "first"), Keyed("update_user", bob, "first")),
          Pair(Keyed("update_user", alice, "first"), Keyed("mfa_verify", alice, "first")),
          Pair(Keyed("login", alice, "first"), Keyed("mfa_verify", alice, "first")),
          Pair(Keyed("upload", alice, "first"), Keyed("upload", alice, "second"))}

SameUser ==
    {Pair([By("delete_user", alice) EXCEPT !.target = bob], By(r, bob)) :
        r \in {"get_me", "update_user", "create_api_key"}}

MCWorkloads == EveryRoute \cup SameKey \cup SameUser

Uploads == {Pair(Keyed("upload", alice, "first"), Keyed("upload", alice, "second"))}

\* Two calls meet in one environment: two keyed ones in the first, two calls
\* about one user in the second, where profiles are cached.
MCInit ==
    /\ Init
    /\ call \in SameKey => settings = Settings(Development)
    /\ call \in SameUser => settings = Settings(Production)

MCSpec == MCInit /\ [][Next]_vars

=============================================================================
