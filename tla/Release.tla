------------------------------ MODULE Release -------------------------------
(***************************************************************************)
(* The operator's way to a release (tools/release):                         *)
(*                                                                         *)
(*   package.mjs             copies the tree, then manifest, then checksums *)
(*   sbom.mjs                adds the SBOM and its checksum                 *)
(*   sign.mjs, verify.mjs    signs, verifies the package                    *)
(*   local-staging-smoke.mjs verifies running containers, leaves a marker   *)
(*   tag-dry-run.mjs, operator-status.mjs   say whether all is there        *)
(*                                                                         *)
(* One operator runs one tool at a time; it may be stopped at any of its    *)
(* steps.  The release directory is that of one version.  A file's content  *)
(* is the edit of the tree it was copied at, and equal contents are equal   *)
(* hashes.  BeginPackageOver and OtherLinesAll are mistakes for mutation    *)
(* tests (see README.md).                                                   *)
(***************************************************************************)
EXTENDS Naturals, FiniteSets

CONSTANTS MaxEdits,      \* bound on the edits of the working tree
          MaxPackagings  \* bound on the runs of package.mjs

ASSUME ReleaseAssumption == {MaxEdits, MaxPackagings} \subseteq Nat \ {0}

\* One file of each kind that lib.mjs and verify.mjs tell apart.  "code" is what neither
\* of them forbids, a .env of a subdirectory included; "stray" is not in the tree.
TreeFiles == {"code", ".env", "dev.sqlite"}
PackageFiles == TreeFiles \cup {"stray"}
\* forbiddenPackagePatterns, which package.mjs leaves out.
ShouldExclude(f) == f \in {".env", "dev.sqlite"}
\* The names that verify.mjs looks for in the package: fewer.
LooksForbidden(f) == f = ".env"

Missing == 0  \* the content of a file that is not there, or was edited by hand
ByHand == MaxEdits + 1  \* the content of a file put in by hand
Nowhere == [f \in PackageFiles |-> Missing]

VARIABLES
    tree,                    \* the last edit of the working tree
    exists, packed,          \* the release directory and its files
    packagings,              \* the runs of package.mjs, which name its manifest
    manifest, manifestFiles, \* which run's manifest it holds, and the hashes in it
    summed, sums,            \* checksums.sha256: is it there, and its lines
    sbom, signature,         \* the SBOM, and that there is a signature, which no tool reads
    marker,                  \* staging-verification.json
    containers,              \* the edit the staging containers were built from
    stagingEnv, preflight,   \* .env.staging, and what the preflight status file says
    step,                    \* the next step of the tool under way
    said,                    \* what was said of the directory as it is
    made, cutOff, tampered, earned  \* history: see ReleaseInit

packageVars == <<exists, packed, packagings, manifest, manifestFiles, summed, sums, sbom, signature, marker>>
stagingVars == <<containers, stagingEnv, preflight>>
releaseHistory == <<made, cutOff, tampered, earned>>
releaseVars == <<tree, packageVars, stagingVars, step, said, releaseHistory>>

ReleaseInit ==
    /\ tree = 1
    /\ exists = FALSE /\ packed = Nowhere /\ packagings = 0
    /\ manifest = 0 /\ manifestFiles = Nowhere
    /\ summed = FALSE /\ sums = {} /\ sbom = Missing /\ signature = FALSE /\ marker = FALSE
    /\ containers = Missing /\ stagingEnv = FALSE /\ preflight = "other"
    /\ step = "none" /\ said = "nothing"
    /\ made = Nowhere    \* what the last packaging copied
    /\ cutOff = FALSE    \* a tool that writes the package was stopped in it
    /\ tampered = FALSE  \* the package was changed by hand
    /\ earned = FALSE    \* containers were verified since the last packaging

Begins(s) == step = "none" /\ step' = s /\ said' = "nothing"
Goes(s, t) == step = s /\ step' = t /\ UNCHANGED said
Idle == step = "none" /\ UNCHANGED step

-----------------------------------------------------------------------------
(* The world around the tools *)

Edit ==
    /\ tree < MaxEdits
    /\ tree' = tree + 1
    /\ UNCHANGED <<packageVars, stagingVars, step, said, releaseHistory>>

ContainersStop ==
    /\ containers # Missing /\ containers' = Missing
    /\ UNCHANGED <<tree, packageVars, stagingEnv, preflight, step, said, releaseHistory>>

\* A file of a package that is there is edited or removed, or one is put into it.
Tamper(f) ==
    /\ Idle /\ manifest # 0
    /\ packed' = [packed EXCEPT ![f] = IF @ = Missing THEN ByHand ELSE Missing]
    /\ tampered' = TRUE /\ said' = "nothing"
    /\ UNCHANGED <<tree, exists, packagings, manifest, manifestFiles, summed, sums, sbom, signature, marker,
                   stagingVars, made, cutOff, earned>>

-----------------------------------------------------------------------------
(* package.mjs *)

BeginPackageOver ==
    /\ packagings < MaxPackagings /\ Begins("copy")
    /\ packagings' = packagings + 1
    /\ exists' = TRUE
    /\ made' = Nowhere /\ cutOff' = FALSE /\ tampered' = FALSE /\ earned' = FALSE
    /\ UNCHANGED <<tree, packed, manifest, manifestFiles, summed, sums, sbom, signature, marker, stagingVars>>

\* The directory is removed and made again.
BeginPackage ==
    /\ packagings < MaxPackagings /\ Begins("copy")
    /\ packagings' = packagings + 1
    /\ exists' = TRUE /\ packed' = Nowhere /\ manifest' = 0 /\ manifestFiles' = Nowhere
    /\ summed' = FALSE /\ sums' = {} /\ sbom' = Missing /\ signature' = FALSE /\ marker' = FALSE
    /\ made' = Nowhere /\ cutOff' = FALSE /\ tampered' = FALSE /\ earned' = FALSE
    /\ UNCHANGED <<tree, stagingVars>>

CopyFiles ==
    /\ Goes("copy", "manifest")
    /\ packed' = [f \in PackageFiles |-> IF f \in TreeFiles /\ ~ShouldExclude(f) THEN tree ELSE Missing]
    /\ made' = packed'
    /\ UNCHANGED <<tree, exists, packagings, manifest, manifestFiles, summed, sums, sbom, signature, marker,
                   stagingVars, cutOff, tampered, earned>>

WriteManifest ==
    /\ Goes("manifest", "checksums")
    /\ manifest' = packagings /\ manifestFiles' = packed
    /\ UNCHANGED <<tree, exists, packed, packagings, summed, sums, sbom, signature, marker,
                   stagingVars, releaseHistory>>

Listed == {f \in PackageFiles : manifestFiles[f] # Missing}

WriteChecksums ==
    /\ Goes("checksums", "none")
    /\ summed' = TRUE
    /\ sums' = {<<f, manifestFiles[f]>> : f \in Listed} \cup {<<"manifest", manifest>>}
    /\ UNCHANGED <<tree, exists, packed, packagings, manifest, manifestFiles, sbom, signature, marker,
                   stagingVars, releaseHistory>>

-----------------------------------------------------------------------------
(* sbom.mjs, sign.mjs *)

WriteSbom ==
    /\ exists /\ Begins("sumSbom")
    /\ sbom' = tree
    /\ UNCHANGED <<tree, exists, packed, packagings, manifest, manifestFiles, summed, sums, signature, marker,
                   stagingVars, releaseHistory>>

OtherLinesAll == sums

\* The lines of checksums.sha256 but the SBOM's own, or none when it is missing.
OtherLines == {line \in sums : line[1] # "sbom"}

SumSbom ==
    /\ Goes("sumSbom", "none")
    /\ summed' = TRUE /\ sums' = OtherLines \cup {<<"sbom", sbom>>}
    /\ UNCHANGED <<tree, exists, packed, packagings, manifest, manifestFiles, sbom, signature, marker,
                   stagingVars, releaseHistory>>

\* --dry-run signs nothing, and without cosign nothing else is possible.
Sign ==
    /\ Idle /\ exists /\ summed
    /\ signature' = TRUE
    /\ UNCHANGED <<tree, exists, packed, packagings, manifest, manifestFiles, summed, sums, sbom, marker,
                   stagingVars, said, releaseHistory>>

-----------------------------------------------------------------------------
(* verify.mjs *)

HashOf(name) == IF name = "manifest" THEN manifest ELSE IF name = "sbom" THEN sbom ELSE packed[name]

SumsHold == \A line \in sums : line[2] = HashOf(line[1])
ManifestHolds == manifest # 0 /\ \A f \in Listed : packed[f] = manifestFiles[f]
NoneForbidden == \A f \in PackageFiles : LooksForbidden(f) => packed[f] = Missing

Verifies(requireSbom) ==
    /\ exists /\ ManifestHolds /\ NoneForbidden
    /\ requireSbom => sbom # Missing
    /\ summed => SumsHold

Verify(requireSbom) ==
    /\ Idle
    /\ said' = IF Verifies(requireSbom) THEN "verified"
               ELSE IF requireSbom /\ sbom = Missing THEN "nothing" ELSE "notVerified"
    /\ UNCHANGED <<tree, packageVars, stagingVars, releaseHistory>>

-----------------------------------------------------------------------------
(* staging-env.mjs, docker-preflight.mjs, local-staging-smoke.mjs.  An      *)
(* option is chosen where it is read.                                       *)

\* An existing file is kept unless --force is given: it is there either way.
GenerateStagingEnv ==
    /\ Idle /\ ~stagingEnv
    /\ stagingEnv' = TRUE
    /\ UNCHANGED <<tree, packageVars, containers, preflight, said, releaseHistory>>

BeginSmoke(generateEnv) ==
    /\ stagingEnv \/ generateEnv
    /\ Begins("preflight")
    /\ stagingEnv' = TRUE
    /\ UNCHANGED <<tree, packageVars, containers, preflight, releaseHistory>>

\* docker, compose and the daemon are checked up to the first that fails; "noDocker" is
\* either of the first two.
DockerPreflights == {"pass", "noDocker", "noDaemon"}

\* What the status file says of the daemon: "other" is that it runs or was not checked.
StatusFor(report) == IF report = "noDaemon" THEN "unavailable" ELSE "other"

\* A failure, or --preflight-only, ends the run.
RunDockerPreflight(report, preflightOnly) ==
    /\ preflight' = StatusFor(report)
    /\ Goes("preflight", IF report = "pass" /\ ~preflightOnly THEN "up" ELSE "none")
    /\ UNCHANGED <<tree, packageVars, containers, stagingEnv, releaseHistory>>

ComposeUp(skipUp) ==
    /\ Goes("up", "ready")
    /\ containers' = IF skipUp THEN containers ELSE tree
    /\ UNCHANGED <<tree, packageVars, stagingEnv, preflight, releaseHistory>>

WaitForReady ==
    /\ containers # Missing /\ Goes("ready", "verify")
    /\ UNCHANGED <<tree, packageVars, stagingVars, releaseHistory>>

\* Every check is run; the report passes when none of them failed.
VerifyStaging ==
    /\ containers # Missing /\ Goes("verify", "marker")
    /\ earned' = TRUE
    /\ UNCHANGED <<tree, packageVars, stagingVars, made, cutOff, tampered>>

WriteStagingMarker ==
    /\ Goes("marker", "down")
    /\ exists' = TRUE /\ marker' = TRUE
    /\ UNCHANGED <<tree, packed, packagings, manifest, manifestFiles, summed, sums, sbom, signature,
                   stagingVars, releaseHistory>>

ComposeDown(down) ==
    /\ Goes("down", "none")
    /\ containers' = IF down THEN Missing ELSE containers
    /\ UNCHANGED <<tree, packageVars, stagingEnv, preflight, releaseHistory>>

\* A command, the waiting or a check fails, or the operator stops the run: the
\* error is rethrown, and nothing takes the containers down.
SmokeFails ==
    /\ \E s \in {"up", "ready", "verify", "marker", "down"} : Goes(s, "none")
    /\ UNCHANGED <<tree, packageVars, stagingVars, releaseHistory>>

-----------------------------------------------------------------------------
(* tag-dry-run.mjs, operator-status.mjs.  cosign may be there or not and be *)
(* required or not, the checkout clean or not, the status strict or not;    *)
(* documents and version are as they should be.                             *)

TagChecks == exists /\ manifest # 0 /\ sbom # Missing /\ summed /\ sums # {} /\ SumsHold

\* A check fails, that of a required cosign too, or there are warnings: a missing
\* marker or cosign, or a checkout with changes.
RunTagDryRun ==
    /\ Idle
    /\ \/ said' = "refused"
       \/ TagChecks /\ said' = "warned"
       \/ TagChecks /\ marker /\ said' = "ready"
    /\ UNCHANGED <<tree, packageVars, stagingVars, releaseHistory>>

RowsFail == ~(exists /\ manifest # 0 /\ summed /\ sbom # Missing)
RowsBlocked == ~marker \/ ~stagingEnv \/ preflight = "unavailable"

\* A row fails, that of a required cosign too, or is blocked, which fails when strict.
RunOperatorStatus ==
    /\ Idle
    /\ \/ said' = "refused"
       \/ ~RowsFail /\ RowsBlocked /\ said' = "warned"
       \/ ~RowsFail /\ ~RowsBlocked /\ said' = "statusPasses"
    /\ UNCHANGED <<tree, packageVars, stagingVars, releaseHistory>>

\* The operator stops a tool that writes the package.
Interrupt ==
    /\ step \in {"copy", "manifest", "checksums", "sumSbom"} /\ step' = "none"
    /\ cutOff' = TRUE
    /\ UNCHANGED <<tree, packageVars, stagingVars, said, made, tampered, earned>>

ReleaseNext ==
    \/ Edit \/ ContainersStop
    \/ \E f \in PackageFiles : Tamper(f)
    \/ BeginPackage \/ CopyFiles \/ WriteManifest \/ WriteChecksums
    \/ WriteSbom \/ SumSbom \/ Sign
    \/ \E requireSbom \in BOOLEAN : Verify(requireSbom)
    \/ GenerateStagingEnv
    \/ \E generateEnv \in BOOLEAN : BeginSmoke(generateEnv)
    \/ \E report \in DockerPreflights, only \in BOOLEAN : RunDockerPreflight(report, only)
    \/ \E skipUp \in BOOLEAN : ComposeUp(skipUp)
    \/ WaitForReady \/ VerifyStaging \/ WriteStagingMarker
    \/ \E down \in BOOLEAN : ComposeDown(down)
    \/ SmokeFails
    \/ RunTagDryRun \/ RunOperatorStatus
    \/ Interrupt

ReleaseSpec == ReleaseInit /\ [][ReleaseNext]_releaseVars

-----------------------------------------------------------------------------

(* verify.mjs passes a package only when every file of it is what was       *)
(* packaged, but for files put in by hand under names it does not look for  *)
(* (a database that is not a .db, and whatever the manifest does not list); *)
(* and it fails none that was left alone: not after a second SBOM, a        *)
(* signature or a marker either, unless the tool that wrote it was cut off. *)
VerifyTells ==
    /\ said = "verified" =>
          \A f \in PackageFiles :
             packed[f] # made[f] => tampered /\ made[f] = Missing /\ ~LooksForbidden(f)
    /\ said = "notVerified" => tampered \/ cutOff \/ manifest = 0

(* A dry run without a warning, and a status that passes, are about a       *)
(* package for which a staging verification passed after it was begun; and  *)
(* the dry run about one whose files are as packaged, unless package.mjs    *)
(* was cut off before it wrote the checksums.                               *)
ReadyIsEarned ==
    /\ said \in {"ready", "statusPasses"} => earned
    /\ said = "ready" => packed["code"] = made["code"] \/ cutOff
=============================================================================
