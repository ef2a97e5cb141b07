------------------------------- MODULE ApiAdmin -------------------------------
(***************************************************************************)
(* The handlers that administer the hub (hub/internal/api): projects, keys,*)
(* users, tokens, rates, collection, OIDC mapping, the authorization       *)
(* server, sign-in.  What their writes mean is in the modules Projects,    *)
(* Accounts, OAuthGrants and IngestAuth; here is who gets to make them.    *)
(***************************************************************************)
EXTENDS ApiSteps

\* The identity the handler needs: any, one that is not the anonymous one, a
\* global administrator's.
Named == <<Step("identity", "named")>>
Admin == <<Step("identity", "admin")>>
\* The handler's own row: a token, a grant or a password of the caller.
Own(op) == <<Step("own", op)>>

\* projects.go.  Listing degrades to what can be read.
dbProjects == Soft(store \o Control("ListProjects"))
observedTenants == Soft(store \o Maybe(Control("ListTenants")))
handleProjects == dbProjects \o observedTenants

validateRetentionDays == Param("retentionDays")

handleCreateProject ==
    store \o decodeJSON \o Param("id, label") \o Expect("not reserved") \o validateRetentionDays
      \o Control("GetProject") \o Expect("id free") \o Save("SaveProject")

editableProject == Expect("not reserved") \o Control("GetProject") \o Expect("stored")

validateMembers == Param("members") \o Maybe(Control("ListProjects") \o Expect("one level"))

handleUpdateProject ==
    store \o decodeJSON \o editableProject \o Param("label") \o Maybe(validateMembers)
      \o Maybe(validateRetentionDays) \o Expect("no retention on an aggregate")
      \o Save("SaveProject")

handleDeleteProject == store \o editableProject \o Save("DeleteProject")

\* ingest_keys.go
handleListIngestKeys == store \o Param("id") \o Control("ListIngestKeys")

handleCreateIngestKey ==
    store \o Param("id") \o decodeJSON \o Param("name") \o isAggregate \o Save("CreateIngestKey")

handleRevokeIngestKey == store \o Save("RevokeIngestKey")

\* ingest_validate.go: the gateway's shared secret, then the key.
handleValidateIngestKey ==
    Expect("internal token") \o store \o decodeJSON \o Maybe(Answer) \o Control("GetIngestKeyByHash")

-----------------------------------------------------------------------------
\* collection.go
effectiveOrNil == Soft(Control("Effective"))

handleGetCollectionOverlay ==
    store \o Control("LoadCollectionOverlay") \o Expect("stored overlay parses") \o effectiveOrNil

readOverlayBody == Param("overlay")

handlePutCollectionOverlay ==
    store \o readOverlayBody \o Save("SaveCollectionOverlay") \o Save("Apply")

handleDeleteCollectionOverlay == store \o Save("SaveCollectionOverlay") \o Save("Apply")

\* rates.go
handleGetRates ==
    store \o Soft(Maybe(Control("LoadRatesOverlay"))) \o Control("LoadRatesOverlay")
      \o Expect("stored overlay parses")

readRatesBody == Param("rates")

handlePutRates ==
    store \o readRatesBody \o Save("SaveRatesOverlay") \o Soft(Control("LoadRatesOverlay"))

handleDeleteRates == store \o Save("SaveRatesOverlay") \o Soft(Control("LoadRatesOverlay"))

\* system_status.go: every part that cannot be read is reported as such.
projectUsage ==
    projectTenants("viewer") \o Query("TenantUsage") \o Control("dbProjectsCached")

handleSystemStatus ==
    Soft(store \o Control("Ping") \o Control("SystemStats") \o Soft(projectUsage))

-----------------------------------------------------------------------------
\* users.go
handleListUsers == store \o Control("ListAuthUsers") \o Control("ListAuthGrants")

handleCreateUser ==
    store \o decodeJSON \o Param("email, password") \o Param("grants")
      \o Control("GetAuthUserByEmail") \o Expect("email free") \o Param("password")
      \o Save("SaveAuthUser") \o Save("ReplaceAuthGrants")

handleUpdateUser ==
    store \o Control("GetAuthUser") \o decodeJSON \o Maybe(Param("grants"))
      \o Expect("no self lockout") \o Maybe(Expect("a password of the hub's"))
      \o Param("password") \o Save("SaveAuthUser") \o Maybe(Save("RevokeAuthSessionsForUser"))
      \o Control("ListAuthGrants") \o Maybe(Save("ReplaceAuthGrants"))

handleDeleteUser ==
    store \o Control("GetAuthUser") \o Expect("disabled, not the demo user")
      \o Save("RevokeAuthSessionsForUser") \o Save("ReplaceAuthGrants") \o Save("DeleteAuthUser")

\* tokens.go: one's own, or another's for a global administrator.
handleListAPITokens == store \o identityFrom \o Maybe(Admin) \o Control("ListAuthTokens")

handleCreateAPIToken ==
    store \o identityFrom \o decodeJSON \o Param("name, expiresInDays") \o Own("CreateAuthToken")

handleRevokeAPIToken ==
    store \o identityFrom \o Maybe(Admin \o Control("GetAuthTokenByHash")) \o Own("RevokeAuthToken")

\* oidc_mapping.go.  The refresh after a write may fail; the poll catches up.
invalidOIDCMappingRows == Soft(store \o Control("ListOIDCGroupMappings"))
handleOIDCMapping == invalidOIDCMappingRows

refreshOIDCMapping == Soft(Control("ListOIDCGroupMappings"))

handleUpsertOIDCMapping ==
    store \o decodeJSON \o Param("role") \o Save("SaveOIDCGroupMapping") \o refreshOIDCMapping

handleDeleteOIDCMapping == store \o Save("DeleteOIDCGroupMapping") \o refreshOIDCMapping

handleResetOIDCMapping == store \o Save("ResetOIDCGroupMappings") \o refreshOIDCMapping

-----------------------------------------------------------------------------
\* auth_handlers.go, oidc_handlers.go.  `origin` is checkOrigin, which a public
\* route calls itself.
checkOrigin == <<Step("origin", "any")>>

handleAuthConfig == <<>>

handleLogin == checkOrigin \o decodeJSON \o Param("email, password") \o Own("Login")
handleDemoLogin == checkOrigin \o Own("Login")
handleLogout == Maybe(Own("Logout"))
handleMe == identityFrom

handleChangePassword ==
    identityFrom \o Named \o decodeJSON \o Param("passwords") \o Own("ChangePassword")

handleOIDCStart == Param("configured")
handleOIDCCallback ==
    Param("configured") \o Expect("state") \o Control("Exchange") \o Own("CompleteSSO")

handlePermissions == <<>>
handleHealthz == <<>>

-----------------------------------------------------------------------------
\* oauth_metadata.go, oauth_register.go
handleProtectedResourceMetadata == <<>>
handleAuthorizationServerMetadata == <<>>

handleRegisterClient ==
    Expect("registration on") \o Expect("rate") \o decodeJSON \o Param("registration")
      \o store \o Own("CreateOAuthClient")

\* oauth_flow.go.  A session that cannot be read is a visitor who must sign in.
registeredRedirects == Maybe(store \o Control("GetOAuthClient"))

handleAuthorize ==
    registeredRedirects \o Param("request") \o Soft(Control("IdentityFromToken"))
      \o Expect("a project to share")

parseConsentRequest ==
    registeredRedirects \o Param("request") \o store \o Control("GetOAuthClient")

handleConsentView ==
    parseConsentRequest \o Soft(store \o Control("ListOAuthGrants"))

\* The project the grant is for is authorized here, and bound to the credential.
handleConsentDecide ==
    parseConsentRequest \o decodeJSON \o Maybe(Answer)
      \o <<Step("bind", "viewer")>> \o store
      \o Own("CreateOAuthGrant") \o Own("CreateOAuthAuthCode")

\* oauth_token.go, oauth_grants.go
issuePair == store \o Own("CreateOAuthToken") \o Maybe(Own("CreateOAuthToken"))

exchangeCode ==
    Param("code") \o store \o Control("GetOAuthAuthCode")
      \o Maybe(Soft(Own("RevokeOAuthTokensForGrant")) \o Soft(Own("RevokeOAuthGrant")) \o Refuse)
      \o Param("expiry, client, redirect, resource, verifier")
      \o Own("ConsumeOAuthAuthCode") \o issuePair

rotateRefresh ==
    Param("refresh_token") \o store \o Control("GetOAuthTokenByHash") \o Param("kind, expiry, client")
      \o Own("RevokeOAuthTokensForGrant") \o issuePair

handleToken == Param("form") \o Maybe(exchangeCode \o Answer) \o Maybe(rotateRefresh \o Answer)
                 \o Refuse

handleRevoke ==
    Param("form") \o Maybe(Answer)
      \o Soft(store \o Control("GetOAuthTokenByHash") \o Own("RevokeOAuthTokensForGrant"))

handleListGrants == store \o Control("ListOAuthGrants") \o Soft(Control("GetOAuthClient"))

handleRevokeGrant ==
    store \o Own("RevokeOAuthTokensForGrant") \o Own("RevokeOAuthGrant")
===============================================================================
