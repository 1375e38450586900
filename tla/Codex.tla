------------------------------- MODULE Codex --------------------------------
(***************************************************************************)
(* The bootstrap steps of the codex backend (internal/backend/codex),      *)
(* under the names of the Go methods.                                      *)
(***************************************************************************)
EXTENDS GuestSteps

VerifyIdentity   == <<Proves("codex user")>>
VerifyMembership == <<Proves("codex in projects")>>

verifyGroupsExact == <<Proves("codex groups")>>
verifyNoSudo      == <<Proves("codex sudo")>>
VerifyIsolation   == verifyGroupsExact \o verifyNoSudo

\* Nothing is unpacked before the digest, which is pinned in the source.
extract == <<Clears("codex extract"), Places("codex extract", "codex staging"),
             Places("codex binary", "codex extract"), Clears("codex extract")>>
download == <<Fetches("codex staging"), Checks("codex staging")>> \o extract
            \o <<Clears("codex staging")>>

verifyTarget         == <<ProvesOwner("codex binary")>>
reconcileCommandPath == <<Repoints("codex link")>>
Install == <<Installs("codex binary")>> \o verifyTarget \o reconcileCommandPath

VerifyVersion == <<Answers("codex link", "codex binary")>>

RequiredPaths == <<Proves("codex home"), ProvesPath("codex profile"),
                   ProvesPath("codex brain"), Proves("codex workspace")>>

Session == <<Creates("codex session helper"), Creates("codex push helper")>>

reconcileSystemConfig           == <<Creates("codex system config")>>
verifyWaitingMarkerDependencies == <<Proves("jq")>>
reconcileWaitingMarkerHelper    ==
  verifyWaitingMarkerDependencies \o <<Creates("codex waiting helper")>>
reconcileWaitingMarkerState     == <<Creates("codex waiting marker")>>
reportMCPServers                == <<Observes("codex servers")>>
VerifyGuardrails == reconcileSystemConfig \o reconcileWaitingMarkerHelper
                    \o reconcileWaitingMarkerState \o reportMCPServers

ProbeAuth == <<Observes("codex credential")>>

ProvisionScript == {"jq", "codex user", "codex in projects", "codex home",
                    "codex profile", "codex brain", "codex workspace"}
OfTheImage == {"codex groups", "codex sudo"}
=============================================================================
