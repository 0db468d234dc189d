---------------------------- MODULE AccessControl ----------------------------
(***************************************************************************)
(* The routes of the API, what their decorators ask of a caller, and the   *)
(* guards, middlewares and checks that ask it.                             *)
(*                                                                         *)
(* A user, as JwtStrategy puts it into the request, is a record of an id   *)
(* and of the roles the database had for it; a request without a user has  *)
(* one without roles.                                                      *)
(***************************************************************************)

\* AuthController, UsersController, AdminController, FilesController,
\* InternalController, HealthyController and the metrics; "unknown" is any
\* path under the prefix that no controller has.
AuthRoutes == {"register", "login", "refresh", "logout", "verify_email",
               "forgot_password", "reset_password", "mfa_setup", "mfa_verify",
               "mfa_challenge", "oidc_redirect", "oidc_callback"}
UserRoutes == {"get_me", "list_users", "update_user", "delete_user"}
HealthProbes == {"live", "ready", "deep"}
Routes == AuthRoutes \cup UserRoutes \cup HealthProbes \cup
          {"upload", "create_api_key", "health_summary", "metrics", "unknown"}

\* @Get, @Delete, @Patch, @Post.
MethodOf(route) ==
    CASE route \in HealthProbes \cup {"metrics", "oidc_redirect", "oidc_callback", "get_me",
                                      "list_users", "health_summary", "unknown"} -> "GET"
      [] route = "delete_user" -> "DELETE"
      [] route = "update_user" -> "PATCH"
      [] OTHER -> "POST"

(***************************************************************************)
(* Decorators                                                              *)
(***************************************************************************)

\* @Public.
PublicRoutes ==
    (AuthRoutes \ {"logout", "mfa_setup", "mfa_verify"}) \cup HealthProbes \cup
    {"health_summary"}

\* @Roles.
RequiredRoles(route) == IF route \in {"list_users", "create_api_key"} THEN {"admin"} ELSE {}

\* @Permissions.
RequiredPermissions(route) ==
    CASE route = "list_users"  -> {"users:read"}
      [] route = "delete_user" -> {"users:delete"}
      [] route = "upload"      -> {"files:write"}
      [] OTHER -> {}

\* @ApiKeyAuth.
RequiredScopes(route) == IF route = "health_summary" THEN {"internal:read"} ELSE {}

(***************************************************************************)
(* Roles and their permissions, as they are seeded                         *)
(***************************************************************************)
Roles == {"user", "admin"}

RolePermissions(role) ==
    IF role = "admin"
    THEN {"users:read", "users:write", "users:delete", "files:write"}
    ELSE {"users:read"}

Permissions(user) == UNION {RolePermissions(role) : role \in user.roles}

(***************************************************************************)
(* Guards: what lets a request pass                                        *)
(***************************************************************************)

\* Wrong on purpose: the prefix /health is taken for the whole of its paths.
ProbesWithoutReady(route) == route \in HealthProbes \ {"ready"}

isHealthProbePath(route) == route \in HealthProbes

isPublicPath(route) == isHealthProbePath(route) \/ route = "metrics"

\* JwtAuthGuard asks for a token.
NeedsToken(route) == route \notin PublicRoutes /\ ~isPublicPath(route)

\* Wrong on purpose: the guard is not registered, or its metadata not found.
AnyRole(route, user) == TRUE

RolesGuard(route, user) ==
    RequiredRoles(route) # {} => RequiredRoles(route) \cap user.roles # {}

PermissionsGuard(route, user) == RequiredPermissions(route) \subseteq Permissions(user)

\* ApiKeyGuard; scopes are those of a key that is neither revoked nor expired.
ApiKeyGuard(route, enabled, valid, scopes) ==
    enabled /\ RequiredScopes(route) # {} => valid /\ RequiredScopes(route) \subseteq scopes

\* ConditionalThrottlerGuard.
Throttled(route) == ~isHealthProbePath(route) /\ route # "metrics"

(***************************************************************************)
(* Middlewares: which callers reach the guards                             *)
(***************************************************************************)

\* IpAllowlistMiddleware.  It is mounted on a wildcard, and Express takes what
\* the mount matched off req.path, so that no request looks like a probe.
IpAllowed(enabled, listed) == enabled => listed

\* MetricsIpAllowlistMiddleware, which is registered for GET of the one path.
MetricsIpAllowed(route, enabled, listed) == enabled /\ route = "metrics" => listed

(***************************************************************************)
(* What use cases ask themselves                                           *)
(***************************************************************************)

\* UpdateUserUseCase: the owner, or who may write users.
MayUpdate(user, target) == user.id = target \/ "users:write" \in Permissions(user)

\* DeleteUserUseCase: not oneself.
MayDelete(user, target) == user.id # target /\ "users:delete" \in Permissions(user)

=============================================================================
