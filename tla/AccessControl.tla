---------------------------- MODULE AccessControl ----------------------------
(***************************************************************************)
(* Who may do what: the authentication settings, the validation of a       *)
(* Cognito access token, the project authorization policy with the event   *)
(* it leaves in the audit trail, and the public demo publication.          *)
(*                                                                         *)
(* Everything here is a decision, not state.  Strings are abstracted to    *)
(* what the code tells apart: "" is an absent or blank value, a header is  *)
(* its scheme and number of words, a signature is valid or not.            *)
(***************************************************************************)
EXTENDS Naturals, FiniteSets, Sequences, SequencesExt

CONSTANTS None,      \* an absent value
          Rejected   \* a value that does not validate

-----------------------------------------------------------------------------
(* Authentication.                                                         *)

AppEnvironments == {"local", "preview", "production"}

\* CognitoSettings.validate: an https issuer URL without credentials or query
CognitoValid(cognito) == cognito.issuer = "https"

\* AuthSettings.validate
SettingsValid(s) ==
    /\ s.bypass => s.app_env = "local"
    /\ s.cognito # None => CognitoValid(s.cognito)
    /\ s.app_env # "local" => s.cognito # None

\* AuthSettings.from_mapping: the three Cognito values come together.
AuthSettings(environ) ==
    LET values == <<environ.issuer, environ.client_id, environ.owner_subject>>
        settings == [app_env |-> environ.app_env,
                     bypass  |-> environ.bypass = "true",
                     cognito |-> IF "" \in ToSet(values) THEN None
                                 ELSE [issuer |-> environ.issuer,
                                       client_id |-> environ.client_id,
                                       owner |-> environ.owner_subject]]
    IN  IF /\ environ.app_env \in AppEnvironments
           /\ environ.bypass \in {"true", "false"}
           /\ ToSet(values) # {""} => "" \notin ToSet(values)
           /\ SettingsValid(settings)
        THEN settings ELSE Rejected

\* _bearer_token: None when the header is missing or is not "Bearer <token>"
BearerToken(header) ==
    IF header # None /\ header.scheme = "bearer" /\ header.words = 1
    THEN header.token ELSE None

\* _required_string_claim
HasClaim(token, claim) == token[claim] # ""

\* CognitoJwtValidator.validate: the identity the token proves
Validate(cognito, token) ==
    IF /\ token.alg = "RS256" /\ token.kid
       /\ token.key = "RS256"     \* the key of the issuer's JWKS with this kid
       /\ token.verified          \* signature, exp, nbf and required claims
       /\ token.iss = cognito.issuer
       /\ HasClaim(token, "sub") /\ HasClaim(token, "client_id")
       /\ token.client_id = cognito.client_id
       /\ token.token_use = "access"
    THEN [issuer |-> token.iss, subject |-> token.sub]
    ELSE Rejected

CognitoOwner(identity) == [principal |-> "owner", source |-> "cognito", actor |-> identity.subject]
LocalOwner == [principal |-> "owner", source |-> "local_bypass", actor |-> "local-development"]
Guest == [principal |-> "guest", source |-> "anonymous", actor |-> None]

\* OwnerResolutionFailure
Failure(status, reason, actor) ==
    [principal |-> Rejected, status |-> status, reason |-> reason, actor |-> actor]
Unauthenticated == Failure(401, "invalid_or_missing_credentials", None)

\* AuthBoundary.resolve_owner
ResolveOwner(settings, header) ==
    LET token == BearerToken(header)
        identity == Validate(settings.cognito, token)
    IN  CASE settings.bypass -> LocalOwner
          [] ~settings.bypass /\ (token = None \/ settings.cognito = None) -> Unauthenticated
          [] OTHER ->
               IF identity = Rejected THEN Unauthenticated
               ELSE IF identity = [issuer |-> settings.cognito.issuer,
                                   subject |-> settings.cognito.owner]
               THEN CognitoOwner(identity)
               ELSE Failure(403, "valid_non_owner", identity.subject)

\* resolve_public_demo_principal: a request without credentials is a guest's.
ResolvePublicDemoPrincipal(settings, header) ==
    IF ~settings.bypass /\ header = None THEN Guest ELSE ResolveOwner(settings, header)

-----------------------------------------------------------------------------
(* Authorization, and the event each decision records before it is final.  *)

Actions == {"read", "mutate", "ingest", "read_raw_object", "invoke_model",
            "enqueue_job", "approve", "execute", "list"}
ResourceTypes == {"project", "artifact", "raw_object", "report", "job",
                  "approval", "execution"}

\* ProjectResourceReference; version 0 is no version.
Resource(p, type, version) == [project |-> p, type |-> type, version |-> version]
ProjectResource(p) == Resource(p, "project", 0)

\* actor_for_principal, actor_for_owner_resolution_failure
ActorType(who) ==
    IF who.principal # Rejected THEN who.principal
    ELSE IF who.actor # None THEN "authenticated_non_owner" ELSE "unknown"

\* AuthorizationActor: identified actors, and only they, carry an id.
ActorValid(type, actor) == (type \in {"owner", "authenticated_non_owner"}) <=> (actor # None)

\* AuthorizationAuditor.record
Event(who, action, result, reason) ==
    [actor_type |-> ActorType(who), actor |-> who.actor, action |-> action,
     result |-> result, reason |-> reason]

\* The answer the caller gets and the event that was recorded
Decision(status, event) == [status |-> status, event |-> event]

\* ProjectAuthorizationPolicy._deny discloses nothing: 404.
DenyPrivate(who, action, reason) == Decision(404, Event(who, action, "denied", reason))

RawObjectMismatch(action, resource) ==
    \/ (resource.type = "raw_object") # (action = "read_raw_object")
    \/ resource.type = "raw_object" /\ resource.version = 0

\* ProjectAuthorizationPolicy.authorize
PolicyAuthorize(who, action, requested, resource) ==
    CASE RawObjectMismatch(action, resource) ->
           DenyPrivate(who, action, "raw_object_action_or_version_invalid")
      [] ~RawObjectMismatch(action, resource) /\ who.principal # "owner" ->
           DenyPrivate(who, action, "guest_private_project_access")
      [] /\ ~RawObjectMismatch(action, resource) /\ who.principal = "owner"
         /\ requested # resource.project ->
           DenyPrivate(who, action, "project_scope_mismatch")
      [] OTHER -> Decision(200, Event(who, action, "allowed", "owner_project_scope_match"))

\* ProjectAuthorizationPolicy.authorize_collection
PolicyAuthorizeCollection(who, action) ==
    IF who.principal = "owner"
    THEN Decision(200, Event(who, action, "allowed", "owner_project_collection_access"))
    ELSE DenyPrivate(who, action, "guest_private_project_collection_access")

\* The boundary records the denial of an owner it cannot resolve.
DenyUnresolved(who, action) == Decision(who.status, Event(who, action, "denied", who.reason))

\* ProjectAuthorizationBoundary.authorize_request
AuthorizeRequest(settings, header, action, requested, resource) ==
    LET who == ResolveOwner(settings, header) IN
    IF who.principal = Rejected THEN DenyUnresolved(who, action)
    ELSE PolicyAuthorize(who, action, requested, resource)

\* authorize_collection_request
AuthorizeCollectionRequest(settings, header, action) ==
    LET who == ResolveOwner(settings, header) IN
    IF who.principal = Rejected THEN DenyUnresolved(who, action)
    ELSE PolicyAuthorizeCollection(who, action)

-----------------------------------------------------------------------------
(* The public demo publication the server selects.                         *)

\* DemoPublicationSettings.from_mapping
DemoSelection(environ) ==
    CASE (environ.publication = "") # (environ.revision = "") -> Rejected
      [] environ.publication = "" /\ environ.revision = "" -> None
      [] OTHER -> IF environ.publication = "0" \/ environ.revision = "0" THEN Rejected
                  ELSE <<environ.publication, environ.revision>>

\* _is_public
MaxExcerpts == 100
IsPublic(publication, selection) ==
    /\ publication.selection = selection
    /\ publication.excerpts # << >> /\ Len(publication.excerpts) <= MaxExcerpts
    /\ IsInjective(publication.excerpts)
    /\ publication.references     \* project, report and trace ids non-zero
    /\ publication.text           \* title, summary and policy trimmed, within bounds
    /\ publication.classification \in {"synthetic", "public"}
    /\ publication.hash_matches   \* content_hash = expected_content_hash()
    /\ publication.state = "published"
    /\ publication.sanitized /\ publication.immutable

DenyDemo(who, action, status, reason) == Decision(status, Event(who, action, "denied", reason))

\* DemoPublicationService.read_selected; stored is what get_exact returns.
ReadSelected(who, method, selection, stored) ==
    CASE method \notin {"GET", "HEAD"} ->
           DenyDemo(who, "demo.write", 403, "demo_route_read_only")
      [] method \in {"GET", "HEAD"} /\ selection = None ->
           DenyDemo(who, "demo.read", 404, "demo_publication_not_configured")
      [] method \in {"GET", "HEAD"} /\ selection # None /\ stored = Rejected ->
           DenyDemo(who, "demo.read", 503, "demo_repository_unavailable")
      [] OTHER -> IF stored # None /\ IsPublic(stored, selection)
                  THEN Decision(200, Event(who, "demo.read", "allowed",
                                           "server_selected_sanitized_publication"))
                  ELSE DenyDemo(who, "demo.read", 404, "demo_publication_not_public")

\* The route public_demo
PublicDemo(settings, header, method, selection, stored) ==
    LET who == ResolvePublicDemoPrincipal(settings, header) IN
    IF who.principal = Rejected
    THEN DenyUnresolved(who, IF method \in {"GET", "HEAD"} THEN "demo.read" ELSE "demo.write")
    ELSE ReadSelected(who, method, selection, stored)
=============================================================================
