----------------------------- MODULE ClaudeCode -----------------------------
(***************************************************************************)
(* The bootstrap steps of the claude-code backend                          *)
(* (internal/backend/claudecode), under the names of the Go methods.       *)
(***************************************************************************)
EXTENDS GuestSteps

VerifyIdentity   == <<Proves("claude user")>>
VerifyMembership == <<Proves("claude in projects")>>

\* The whole group set is enumerated and the absence of sudo is proved.
verifyGroupsExact == <<Proves("claude groups")>>
verifyNoSudo      == <<Proves("claude sudo")>>
VerifyIsolation   == verifyGroupsExact \o verifyNoSudo

\* The checksum comes from the release manifest, the binary goes from a fixed
\* staging path to its versioned name.
download == <<Fetches("claude staging"), Checks("claude staging"),
              Places("claude binary", "claude staging"), Clears("claude staging")>>

verifyTarget         == <<ProvesOwner("claude binary")>>
reconcileCommandPath == <<Repoints("claude link")>>
Install == <<Installs("claude binary")>> \o verifyTarget \o reconcileCommandPath

VerifyVersion == <<Answers("claude link", "claude binary")>>

\* The agent may tighten its own profile and vault (AllowStricter).
RequiredPaths == <<Proves("claude home"), ProvesPath("claude profile"),
                   ProvesPath("claude brain"), Proves("claude workspace")>>

Session == <<Creates("claude session helper"), Creates("claude push helper")>>

reconcileManagedSettings        == <<Creates("claude settings")>>
verifyWaitingMarkerDependencies == <<Proves("jq")>>
reconcileWaitingMarkerHelper    ==
  verifyWaitingMarkerDependencies \o <<Creates("claude waiting helper")>>
reconcileWaitingMarkerState     == <<Creates("claude waiting marker")>>
reportMCPServers                == <<Observes("claude servers")>>
VerifyGuardrails == reconcileManagedSettings \o reconcileWaitingMarkerHelper
                    \o reconcileWaitingMarkerState \o reportMCPServers

ProbeAuth == <<Observes("claude credential")>>

\* What provisioning puts right on every boot, and what the image brings.
ProvisionScript == {"jq", "claude user", "claude in projects", "claude home",
                    "claude profile", "claude brain", "claude workspace"}
OfTheImage == {"claude groups", "claude sudo"}
=============================================================================
