---------------------------- MODULE ReleaseGate ----------------------------
(***************************************************************************)
(* The release-contract gate: `gatemole gate` reads a change manifest, the *)
(* specs it touches, the evidence artifacts it names and the release       *)
(* policy of the repository, and decides whether the change may go out.    *)
(* The repository is not locked: agents and runners edit any of these      *)
(* files before, between and during the reads of the gate, and the gate is *)
(* run again and again.                                                    *)
(*                                                                         *)
(* An obligation is its spec and its kind: a spec has one of each kind or  *)
(* leaves the section of a kind out.  A file's digest is the file's        *)
(* content.  The content of an artifact is what it says of obligations:    *)
(* `refs` are those a passing test case, a token or a rule refers to,      *)
(* `bad` those a failing test case, a severe result, a blocking finding or *)
(* a failing status is about.                                              *)
(***************************************************************************)
EXTENDS Integers, Sequences

CONSTANTS
  Specs,          \* the specs a repository may have
  Files,          \* the files a change may touch
  OwnedPaths,     \* OwnedPaths[s]: the files spec s owns
  SpecRisk,       \* SpecRisk[s]: the rank of its risk
  Artifacts,      \* the artifacts a manifest may list
  KindOf,         \* KindOf[a]: the kind of evidence it is
  Signers, AllowedSigners, \* runner identities, and those the config accepts
  Volatile,       \* the artifacts that are edited while the gate runs
  Reworked,       \* those whose bundles are written over, before the gate runs or meanwhile
  Changes,        \* the sets of specs a change may touch at first
  OtherPolicies,  \* release policies a repository may have instead of the default
  MaxEdits        \* bound on the edits of the repository

Low == 0
Medium == 1
High == 2
Critical == 3
Risks == {Low, Medium, High, Critical}

Kinds == {"behavior", "security", "required_test", "runtime_signal", "rollback"}
requiredEvidence ==
  [behavior |-> "behavior_trace", security |-> "security_check", required_test |-> "test_coverage",
   runtime_signal |-> "runtime_metric", rollback |-> "rollback_plan"]
EvidenceKinds == {requiredEvidence[k] : k \in Kinds} \cup {"verifier_output"}
Obligation == [spec : Specs, kind : Kinds]

Content ==
  [form : {"missing", "empty", "garbled"}, refs : {{}}, bad : {{}}]
    \cup [form : {"report", "sarif"}, refs : SUBSET Obligation, bad : SUBSET Obligation]
Decisions == {"block", "human_escalation", "canary", "auto_merge"}

-----------------------------------------------------------------------------
(* A condition of a policy is the set of the inputs it matches.            *)

PolicyInput ==
  [risk : Risks, canary : BOOLEAN, signed : BOOLEAN, invalid : BOOLEAN, blocking : BOOLEAN,
   invalidEvidence : BOOLEAN, missing : BOOLEAN]
Rule == [when : SUBSET PolicyInput, decision : Decisions, stop : BOOLEAN]

policyFact(name) ==
  {i \in PolicyInput :
     CASE name = "always" -> TRUE
       [] name = "has_invalid_spec_or_manifest" -> i.invalid
       [] name = "has_blocking_findings" -> i.blocking
       [] name = "no_policy_blockers" -> ~i.invalid /\ ~i.blocking
       [] name = "canary_enabled" -> i.canary
       [] name = "signed_evidence_required" -> i.signed
       [] name = "has_invalid_evidence" -> i.invalidEvidence
       [] name = "has_missing_obligations" -> i.missing}
riskAtLeast(r) == {i \in PolicyInput : i.risk >= r}
All(conditions) == {i \in PolicyInput : \A c \in conditions : i \in c}
Not(condition) == PolicyInput \ condition

DefaultReleasePolicy ==
  << [when |-> policyFact("has_invalid_spec_or_manifest"), decision |-> "block", stop |-> TRUE],
     [when |-> policyFact("has_blocking_findings"), decision |-> "block", stop |-> TRUE],
     [when |-> All({policyFact("no_policy_blockers"), riskAtLeast(High), policyFact("canary_enabled")}),
      decision |-> "canary", stop |-> TRUE],
     [when |-> All({policyFact("no_policy_blockers"), riskAtLeast(High),
                    Not(policyFact("canary_enabled"))}),
      decision |-> "human_escalation", stop |-> TRUE],
     [when |-> All({policyFact("no_policy_blockers"), Not(riskAtLeast(High))}),
      decision |-> "auto_merge", stop |-> TRUE] >>

ReleasePolicies == {"default"} \cup DOMAIN OtherPolicies
Rules(p) == IF p = "default" THEN DefaultReleasePolicy ELSE OtherPolicies[p]

ASSUME GateAssumption ==
  /\ OwnedPaths \in [Specs -> SUBSET Files] /\ SpecRisk \in [Specs -> Risks]
  /\ KindOf \in [Artifacts -> EvidenceKinds] /\ AllowedSigners \subseteq Signers
  /\ Volatile \subseteq Artifacts /\ Reworked \subseteq Artifacts
  /\ Changes \subseteq (SUBSET Specs) \ {{}}
  /\ "default" \notin DOMAIN OtherPolicies /\ "none" \notin DOMAIN OtherPolicies
  /\ \A p \in DOMAIN OtherPolicies : OtherPolicies[p] \in Seq(Rule) /\ OtherPolicies[p] # <<>>
  /\ MaxEdits \in Nat

VARIABLES
  manifest, \* the change manifest
  specs,    \* specs[s]: the sections its file has, {} when there is no file
  content,  \* content[a]: the file of artifact a
  bundle,   \* bundle[a]: {} or the evidence bundle on disk for a, whoever wrote it
  signature, \* signature[a]: {} or who signed which bundle, by the signature bundle of a
  rewritten, \* the bundle of the artifact being linked changed after the gate read it
  policy,   \* the release policy of the repository, "none" when there is none
  gate,     \* the run of the gate: what it read and what it concluded
  edits

repository == <<manifest, specs, content, bundle, signature, policy>>
vars == <<repository, gate, rewritten, edits>>

NoManifest ==
  [present |-> FALSE, risk |-> Low, touched |-> {}, changed |-> {}, wellFormed |-> TRUE,
   canary |-> FALSE, effects |-> FALSE, rollback |-> "none", failing |-> FALSE,
   declared |-> {}, items |-> <<>>]
NoRun ==
  [step |-> "idle", signed |-> FALSE, manifest |-> NoManifest, specs |-> [s \in Specs |-> {}],
   todo |-> {}, linking |-> {}, results |-> {}, policy |-> "none", decision |-> "none"]

-----------------------------------------------------------------------------
(* Compilation of the specs and validation of the manifest.                *)

Present(sp) == {s \in Specs : sp[s] # {}}
ValidSpecs(sp) == {s \in Present(sp) : sp[s] = Kinds}
IRFromSpec(sp, s) == {[spec |-> s, kind |-> k] : k \in sp[s]}
Plan(m, sp) == UNION {IRFromSpec(sp, s) : s \in m.touched \cap ValidSpecs(sp)}
maxSpecRisk(S) == CHOOSE r \in {SpecRisk[s] : s \in S} : \A s \in S : r >= SpecRisk[s]
OwnersForFile(sp, f) == {s \in ValidSpecs(sp) : f \in OwnedPaths[s]}

\* Fault variant of ValidateManifest: the declared risk is taken as it is.
ValidateManifestAnyRisk(m, sp) == m.wellFormed /\ m.touched \subseteq Present(sp)

ValidateManifest(m, sp) ==
  /\ m.wellFormed
  /\ \A s \in m.touched : s \in Present(sp) /\ m.risk >= SpecRisk[s]

validateArtifacts(m) == \A a \in DOMAIN m.items : m.items[a].obligations # {}

\* Fault variant of validateFileTraceability: one touched owner is enough.
traceableToSome(m, sp) ==
  \A f \in m.changed : OwnersForFile(sp, f) \cap m.touched # {}

validateFileTraceability(m, sp) ==
  \A f \in m.changed : OwnersForFile(sp, f) # {} /\ OwnersForFile(sp, f) \subseteq m.touched

Satisfies(a, o) == KindOf[a] \in {"verifier_output", requiredEvidence[o.kind]}

validateArtifactReferences(m, sp) ==
  \A a \in DOMAIN m.items : \A o \in m.items[a].obligations : o \in Plan(m, sp) /\ Satisfies(a, o)

HasInvalidSpecOrManifest(m, sp) ==
  \/ Present(sp) # ValidSpecs(sp)
  \/ ~ValidateManifest(m, sp) \/ ~validateArtifacts(m)
  \/ ~validateFileTraceability(m, sp) \/ ~validateArtifactReferences(m, sp)

-----------------------------------------------------------------------------
(* Linking: what one artifact is worth.  An import gives the obligations   *)
(* it covers, whether tests failed, whether a finding blocks, and whether  *)
(* it is in order.                                                         *)

importJUnitEvidence(c, wanted) ==
  [covered |-> wanted \cap c.refs, failed |-> c.bad # {}, blocks |-> FALSE,
   ok |-> c.form = "report" /\ c.bad = {} /\ wanted \subseteq c.refs]

importGenericEvidence(c, wanted) ==
  [covered |-> wanted \cap c.refs, failed |-> FALSE, blocks |-> FALSE,
   ok |-> c.bad = {} /\ wanted \subseteq c.refs]

importSARIFEvidence(c, wanted, plan) ==
  LET known == wanted \cap plan IN
  [covered |-> (known \cap c.refs) \ c.bad, failed |-> FALSE, blocks |-> known \cap c.bad # {},
   ok |-> wanted \subseteq plan /\ known \subseteq c.refs \cup c.bad]

importVerifierOutput(c, wanted, plan) ==
  LET ok == /\ c.form = "report" /\ c.refs = wanted /\ c.refs # {}
            /\ c.refs \subseteq plan /\ c.bad \subseteq c.refs
  IN  [covered |-> IF ok THEN c.refs ELSE {}, failed |-> FALSE, blocks |-> ok /\ c.bad # {}, ok |-> ok]

\* A file without a byte is not imported.
Import(a, c, wanted, plan) ==
  CASE c.form \in {"missing", "empty"} ->
         [covered |-> {}, failed |-> FALSE, blocks |-> FALSE, ok |-> TRUE]
    [] OTHER ->
         CASE KindOf[a] = "verifier_output" -> importVerifierOutput(c, wanted, plan)
           [] KindOf[a] = "test_coverage"   -> importJUnitEvidence(c, wanted)
           [] KindOf[a] = "security_check" /\ c.form = "sarif" -> importSARIFEvidence(c, wanted, plan)
           [] OTHER -> importGenericEvidence(c, wanted)

\* Fault variant of validateEvidenceBundle: the bundle of the artifact as it was earlier will do.
bundleOfArtifact(b, m, a, c) ==
  /\ b.touched = m.touched /\ b.risk = m.risk
  /\ b.item.obligations = m.items[a].obligations /\ b.signer \in m.items[a].signer

validateEvidenceBundle(b, m, a, c) ==
  /\ b.touched = m.touched /\ b.risk = m.risk
  /\ b.item.obligations = m.items[a].obligations /\ b.item.exit = m.items[a].exit
  /\ b.content = c /\ m.items[a].sha \subseteq {c}
  /\ b.signer \in m.items[a].signer

\* The checks before the bundle is read.
signerAllowed(item) == item.signer # {} /\ item.signer \subseteq AllowedSigners

\* What artifact a is worth but for its signature.
Link(a) ==
  LET m == gate.manifest
      item == m.items[a]
      c == content[a]
      plan == Plan(m, gate.specs)
      import == Import(a, c, item.obligations, plan)
  IN  [artifact |-> a, kind |-> KindOf[a], covered |-> import.covered, failed |-> import.failed,
       blocks |-> import.blocks, content |-> c, bundle |-> {}, signature |-> {}, rewritten |-> FALSE,
       valid |-> /\ item.exit = 0
                 /\ \A o \in item.obligations : o \in plan /\ Satisfies(a, o)
                 /\ c.form # "missing" /\ item.sha \subseteq {c}
                 /\ import.ok]

\* Fault variant of verifyBlob: any certificate will do.
verifyBlobOfAnyone(item, a) == \E g \in signature[a] : g.bundle \in bundle[a]

\* cosign verify-blob: the signature is one of the bundle on disk, by the identity it is asked for.
verifyBlob(item, a) == \E g \in signature[a] : g.bundle \in bundle[a] /\ g.signer \in item.signer

-----------------------------------------------------------------------------
(* Coverage, the verifiers and the release policy.                         *)

artifactCoverage(results, k) ==
  UNION {r.covered : r \in {x \in results : x.valid /\ x.kind = requiredEvidence[k]}}

Linked == DOMAIN gate.manifest.items # {} \/ gate.results # {}

obligationCovered(o) ==
  IF Linked
  THEN /\ o.kind = "rollback" => gate.manifest.rollback = "strategy"
       /\ o \in artifactCoverage(gate.results, o.kind)
  ELSE IF o.kind = "rollback" THEN gate.manifest.rollback = "strategy"
       ELSE o \in gate.manifest.declared

MissingObligations == {o \in Plan(gate.manifest, gate.specs) : ~obligationCovered(o)}
missingByKind(k) == {o \in MissingObligations : o.kind = k}

verifyCompilation == Plan(gate.manifest, gate.specs) = {}

verifyArtifactEvidence ==
  \/ /\ ~Linked /\ Plan(gate.manifest, gate.specs) # {}
     /\ gate.signed \/ gate.manifest.risk >= Medium
  \/ \E r \in gate.results : r.failed \/ ~r.valid

verifyBehaviorEvidence == missingByKind("behavior") # {}

verifyTestAdequacy == gate.manifest.failing \/ missingByKind("required_test") # {}

verifySecurityEvidence == missingByKind("security") # {}

verifyReleaseReadiness ==
  \/ missingByKind("rollback") # {} \/ missingByKind("runtime_signal") # {}
  \/ gate.manifest.effects /\ gate.manifest.rollback = "none"

\* Fault variant of importVerifierFindings: the output of verifiers is kept but its findings are not.
importSARIFFindings == \E r \in gate.results : r.blocks /\ r.kind = "security_check"

importVerifierFindings == \E r \in gate.results : r.blocks

HasBlockingFindings ==
  \/ verifyCompilation \/ HasInvalidSpecOrManifest(gate.manifest, gate.specs)
  \/ verifyArtifactEvidence \/ verifyBehaviorEvidence \/ verifyTestAdequacy
  \/ verifySecurityEvidence \/ verifyReleaseReadiness \/ importVerifierFindings

PolicyInputFromEvidence ==
  [risk |-> gate.manifest.risk, canary |-> gate.manifest.canary, signed |-> gate.signed,
   invalid |-> HasInvalidSpecOrManifest(gate.manifest, gate.specs),
   blocking |-> HasBlockingFindings,
   invalidEvidence |-> \E r \in gate.results : ~r.valid,
   missing |-> MissingObligations # {}]

NoDecision == [decision |-> "none", stopped |-> FALSE]

\* A rule that matches replaces the decision, but for a block, which only a block replaces.
policyRule(rule, input, before) ==
  IF \/ before.stopped \/ input \notin rule.when
     \/ before.decision = "block" /\ rule.decision # "block"
  THEN before
  ELSE [decision |-> rule.decision, stopped |-> rule.stop]

\* What is decided after each rule of policy p.
evaluation(p, input) ==
  LET eval[n \in 0..Len(p)] ==
        IF n = 0 THEN NoDecision ELSE policyRule(p[n], input, eval[n-1])
  IN  eval

\* Fault variant of EvaluateReleasePolicy: every rule that matches decides anew.
EvaluateLastMatch(p, input) ==
  LET eval[n \in 0..Len(p)] ==
        IF n = 0 THEN NoDecision
        ELSE IF eval[n-1].stopped \/ input \notin p[n].when THEN eval[n-1]
        ELSE [decision |-> p[n].decision, stopped |-> p[n].stop]
      last == eval[Len(p)].decision
  IN  IF last = "none" THEN "block" ELSE last

EvaluateReleasePolicy(p, input) ==
  LET last == evaluation(p, input)[Len(p)].decision
  IN  IF last = "none" THEN "block" ELSE last

\* Fault variant of enforcePolicyFloor: only an invalid spec or manifest overrides the policy.
floorOfManifest(input, decision) == IF input.invalid THEN "block" ELSE decision

enforcePolicyFloor(input, decision) == IF input.invalid \/ input.blocking THEN "block" ELSE decision

ApplyReleasePolicy(p) ==
  enforcePolicyFloor(PolicyInputFromEvidence, EvaluateReleasePolicy(p, PolicyInputFromEvidence))

-----------------------------------------------------------------------------
(* A run of the gate, read by read.                                        *)

gateCommand ==
  /\ gate.step = "idle"
  /\ \E signed \in BOOLEAN : gate' = [NoRun EXCEPT !.step = "manifest", !.signed = signed]
  /\ UNCHANGED <<repository, rewritten, edits>>

LoadManifest ==
  /\ gate.step = "manifest" /\ manifest.present
  /\ gate' = [gate EXCEPT !.manifest = manifest, !.step = "specs"]
  /\ UNCHANGED <<repository, rewritten, edits>>

\* Fault variant of LoadSpecs: the artifacts of the manifest as it is now are linked.
LoadSpecsAndManifest ==
  /\ gate.step = "specs"
  /\ gate' = [gate EXCEPT !.specs = specs, !.todo = DOMAIN gate.manifest.items, !.step = "link",
                          !.manifest = manifest]
  /\ UNCHANGED <<repository, rewritten, edits>>

LoadSpecs ==
  /\ gate.step = "specs"
  /\ gate' = [gate EXCEPT !.specs = specs, !.todo = DOMAIN gate.manifest.items, !.step = "link"]
  /\ UNCHANGED <<repository, rewritten, edits>>

rollbackForSpecs(sp) ==
  IF \E s \in Specs : Present(sp) = {s} /\ "rollback" \notin sp[s] THEN "none" ELSE "strategy"

EvidenceManifest(covered, failed) ==
  [artifact |-> "junit", kind |-> "test_coverage", covered |-> covered, failed |-> failed,
   blocks |-> FALSE, valid |-> TRUE, bundle |-> {}, signature |-> {}, rewritten |-> FALSE,
   content |-> [form |-> "report", refs |-> covered, bad |-> {}]]

\* Without a change manifest, an imported JUnit manifest is judged against every spec there is.
CollectEvidenceFromEvidenceManifest ==
  /\ gate.step = "manifest" /\ ~manifest.present /\ Present(specs) # {}
  /\ \E failed \in BOOLEAN, tests \in SUBSET {o \in Obligation : o.kind = "required_test"} :
       LET risk == maxSpecRisk(Present(specs)) IN
       gate' = [gate EXCEPT
         !.step = "policy", !.specs = specs,
         !.manifest = [NoManifest EXCEPT
            !.risk = risk, !.touched = Present(specs), !.canary = risk >= High,
            !.rollback = rollbackForSpecs(specs)],
         !.results = {EvidenceManifest(tests, failed)}]
  /\ UNCHANGED <<repository, rewritten, edits>>

\* The artifacts are read in the order they are listed in.  Where signatures are asked for, one
\* that has a byte is not finished yet.
LinkEvidenceArtifact ==
  /\ gate.step = "link" /\ gate.todo # {}
  /\ LET a == CHOOSE x \in gate.todo : TRUE
         read == [gate EXCEPT !.todo = @ \ {a}]
     IN  gate' = IF gate.signed /\ content[a].form \notin {"missing", "empty"}
                 THEN [read EXCEPT !.linking = {Link(a)}, !.step = "bundle"]
                 ELSE [read EXCEPT !.results = @ \cup {Link(a)}]
  /\ UNCHANGED <<repository, rewritten, edits>>

Linking == CHOOSE r \in gate.linking : TRUE

FinishLinking(result) ==
  [gate EXCEPT !.results = @ \cup {result}, !.linking = {}, !.step = "link"]

\* The first half of verifySignedEvidenceBundle reads the bundle and compares it with the manifest
\* and with the artifact as it was read.  cosign runs only if there is no issue so far; an artifact
\* whose import will fail is invalid whatever cosign says.
verifySignedEvidenceBundle ==
  LET r == Linking
      m == gate.manifest
      ok == /\ r.valid /\ signerAllowed(m.items[r.artifact]) /\ bundle[r.artifact] # {}
            /\ \A b \in bundle[r.artifact] : validateEvidenceBundle(b, m, r.artifact, r.content)
  IN  /\ gate.step = "bundle"
      /\ gate' = IF ok THEN [gate EXCEPT !.linking = {[r EXCEPT !.bundle = bundle[r.artifact]]},
                                         !.step = "cosign"]
                 ELSE FinishLinking([r EXCEPT !.valid = FALSE])
      /\ UNCHANGED <<repository, rewritten, edits>>

\* Fault variant of verifySignature: what validateEvidenceBundle accepts is not verified.
verifyNoSignature ==
  /\ gate.step = "cosign"
  /\ gate' = FinishLinking([Linking EXCEPT !.signature = signature[Linking.artifact],
                                          !.rewritten = rewritten])
  /\ rewritten' = FALSE
  /\ UNCHANGED <<repository, edits>>

\* The second half hands the path of the bundle to cosign, which reads it again.  That cosign is
\* not installed or breaks down has the outcome of a signature that is gone.
verifySignature ==
  LET r == Linking
      ok == verifyBlob(gate.manifest.items[r.artifact], r.artifact)
  IN  /\ gate.step = "cosign"
      /\ gate' = IF ok THEN FinishLinking([r EXCEPT !.signature = signature[r.artifact],
                                                    !.rewritten = rewritten])
                 ELSE FinishLinking([r EXCEPT !.valid = FALSE])
      /\ rewritten' = FALSE
      /\ UNCHANGED <<repository, edits>>

LinkEvidenceArtifacts ==
  /\ gate.step = "link" /\ gate.todo = {}
  /\ gate' = [gate EXCEPT !.step = "policy"]
  /\ UNCHANGED <<repository, rewritten, edits>>

LoadReleasePolicy ==
  /\ gate.step = "policy" /\ policy # "none"
  /\ gate' = [gate EXCEPT !.step = "done", !.policy = policy, !.decision = ApplyReleasePolicy(Rules(policy))]
  /\ UNCHANGED <<repository, rewritten, edits>>

\* No manifest at all, no spec or no policy: the command ends with an error.
GateFails ==
  /\ \/ gate.step = "manifest" /\ ~manifest.present
     \/ gate.step = "policy" /\ policy = "none"
  /\ gate' = [gate EXCEPT !.step = "done", !.decision = "error"]
  /\ UNCHANGED <<repository, rewritten, edits>>

\* The exit code is reported and the command is over.
collectAndRender ==
  /\ gate.step = "done"
  /\ gate' = NoRun
  /\ UNCHANGED <<repository, rewritten, edits>>

-----------------------------------------------------------------------------
(* The repository changes under the gate.                                  *)

ManifestEdits ==
  {[manifest EXCEPT !.risk = r] : r \in {Low, Medium, Critical}}
    \cup {[manifest EXCEPT !.touched = t] : t \in SUBSET Specs}
    \cup {[manifest EXCEPT !.changed = @ \cup {f}] : f \in Files}
    \cup {[manifest EXCEPT !.canary = ~@], [manifest EXCEPT !.failing = ~@],
          [manifest EXCEPT !.wellFormed = ~@], [manifest EXCEPT !.declared = {}],
          [manifest EXCEPT !.items = <<>>], [manifest EXCEPT !.effects = ~@]}
    \cup {[manifest EXCEPT !.rollback = r] : r \in {"none", "strategy", "compensation"}}

ItemEdits(a) ==
  LET i == manifest.items[a] IN
  {[i EXCEPT !.exit = 1], [i EXCEPT !.sha = {}], [i EXCEPT !.sha = {content[a]}],
   [i EXCEPT !.obligations = {}]}
    \cup {[i EXCEPT !.signer = {s}] : s \in Signers}
    \cup {[i EXCEPT !.obligations = {o}] : o \in {x \in Obligation : Satisfies(a, x)}}

ContentEdits(a) ==
  LET whole == {o \in Obligation : Satisfies(a, o)} IN
  {[form |-> f, refs |-> {}, bad |-> {}] : f \in {"missing", "empty", "garbled"}}
    \cup [form : IF KindOf[a] = "security_check" THEN {"report", "sarif"} ELSE {"report"},
          refs : {whole} \cup {manifest.items[a].obligations : x \in {a} \cap DOMAIN manifest.items},
          bad : {{}, {CHOOSE o \in whole : TRUE}}]

\* The bundle that belongs to a as it is now, in the name of s.
Statement(a, s) ==
  [signer |-> s, touched |-> manifest.touched, risk |-> manifest.risk,
   item |-> manifest.items[a], content |-> content[a]]

EditManifest ==
  /\ \/ manifest' \in {NoManifest} \cup IF manifest.present THEN ManifestEdits ELSE {}
     \/ \E a \in Volatile \cap DOMAIN manifest.items : \E i \in ItemEdits(a) :
          manifest' = [manifest EXCEPT !.items[a] = i]
  /\ UNCHANGED <<specs, content, bundle, signature, policy>>

EditContent ==
  /\ \E a \in Volatile : \E c \in ContentEdits(a) : content' = [content EXCEPT ![a] = c]
  /\ UNCHANGED <<manifest, specs, bundle, signature, policy>>

\* Somebody writes a bundle in a name of their choice, or puts the one back that was signed.
EditBundle ==
  /\ \E a \in Reworked \cap DOMAIN manifest.items :
       bundle' \in {[bundle EXCEPT ![a] = {Statement(a, s)}] : s \in Signers}
                    \cup {[bundle EXCEPT ![a] = {g.bundle : g \in signature[a]}]}
  /\ UNCHANGED <<manifest, specs, content, signature, policy>>

LoseSignature ==
  /\ \E a \in Reworked : signature' = [signature EXCEPT ![a] = {}]
  /\ UNCHANGED <<manifest, specs, content, bundle, policy>>

\* A runner writes a bundle and signs it.  It may name another, but its own identity signs.
Sign ==
  /\ \E a \in Reworked \cap DOMAIN manifest.items, s \in Signers, named \in Signers :
       /\ bundle' = [bundle EXCEPT ![a] = {Statement(a, named)}]
       /\ signature' = [signature EXCEPT ![a] = {[signer |-> s, bundle |-> Statement(a, named)]}]
  /\ UNCHANGED <<manifest, specs, content, policy>>

EditSpecs ==
  /\ \E s \in Specs, k \in {{}, Kinds, Kinds \ {"rollback"}} : specs' = [specs EXCEPT ![s] = k]
  /\ UNCHANGED <<manifest, content, bundle, signature, policy>>

EditPolicy ==
  /\ policy' \in ReleasePolicies \cup {"none"}
  /\ UNCHANGED <<manifest, specs, content, bundle, signature>>

Edit ==
  /\ edits < MaxEdits /\ edits' = edits + 1
  /\ EditManifest \/ EditContent \/ EditBundle \/ LoseSignature \/ Sign \/ EditSpecs \/ EditPolicy
  /\ rewritten' = (rewritten \/ /\ gate.step = "cosign"
                                /\ bundle'[Linking.artifact] # bundle[Linking.artifact])
  /\ UNCHANGED gate

-----------------------------------------------------------------------------
(* A change of some specs that is in order, with artifacts or with         *)
(* declared coverage.  Artifacts may have been written again, and a bundle *)
(* for each, since a runner signed them.                                   *)

WholeItem(t, a, c, s) ==
  [obligations |-> {o \in Obligation : o.spec \in t /\ Satisfies(a, o)}, exit |-> 0, sha |-> {c},
   signer |-> {s}]

WholeBundle(t, a, c, s) ==
  [signer |-> s, touched |-> t, risk |-> maxSpecRisk(t), item |-> WholeItem(t, a, c, s), content |-> c]

Garbled == [form |-> "garbled", refs |-> {}, bad |-> {}]

WholeContent(a) == [form |-> "report", refs |-> {o \in Obligation : Satisfies(a, o)}, bad |-> {}]

Init ==
  /\ specs = [s \in Specs |-> Kinds]
  /\ \E t \in Changes, artifacts \in BOOLEAN, s \in AllowedSigners, late \in SUBSET Reworked :
       LET said == [a \in Artifacts |->
                      IF KindOf[a] = "verifier_output"
                      THEN [form |-> "report", refs |-> {o \in Obligation : o.spec \in t}, bad |-> {}]
                      ELSE WholeContent(a)]
       IN  /\ manifest = [NoManifest EXCEPT
                !.present = TRUE, !.risk = maxSpecRisk(t), !.touched = t, !.canary = TRUE,
                !.changed = {f \in Files : OwnersForFile(specs, f) # {} /\ OwnersForFile(specs, f) \subseteq t},
                !.rollback = "strategy",
                !.declared = {o \in Obligation : o.spec \in t /\ o.kind # "rollback"},
                !.items = IF artifacts THEN [a \in Artifacts |-> WholeItem(t, a, said[a], s)] ELSE <<>>]
           /\ content = said
           /\ bundle = [a \in Artifacts |->
                IF artifacts THEN {WholeBundle(t, a, said[a], s)} ELSE {}]
           /\ signature = [a \in Artifacts |->
                IF artifacts
                THEN {[signer |-> s,
                       bundle |-> WholeBundle(t, a, IF a \in late THEN Garbled ELSE said[a], s)]}
                ELSE {}]
  /\ rewritten = FALSE
  /\ policy = "default" /\ gate = NoRun /\ edits = 0

Next ==
  \/ gateCommand \/ LoadManifest \/ LoadSpecs \/ CollectEvidenceFromEvidenceManifest
  \/ LinkEvidenceArtifact \/ verifySignedEvidenceBundle \/ verifySignature \/ LinkEvidenceArtifacts
  \/ LoadReleasePolicy \/ GateFails \/ collectAndRender
  \/ Edit

Spec == Init /\ [][Next]_vars

-----------------------------------------------------------------------------
Item ==
  [obligations : SUBSET Obligation, exit : {0, 1}, sha : SUBSET Content, signer : SUBSET Signers]

\* Type invariant.  A run of the gate has read the policy before it has a decision, and links
\* only artifacts its manifest lists.
TypeOK ==
  /\ policy \in ReleasePolicies \cup {"none"} /\ edits \in 0..MaxEdits
  /\ specs \in [Specs -> SUBSET Kinds] /\ content \in [Artifacts -> Content]
  /\ DOMAIN bundle = Artifacts /\ DOMAIN signature = Artifacts /\ rewritten \in BOOLEAN
  /\ \A a \in DOMAIN manifest.items : a \in Artifacts /\ manifest.items[a] \in Item
  /\ gate.step \in {"idle", "manifest", "specs", "link", "bundle", "cosign", "policy", "done"}
  /\ gate.decision \in Decisions \cup {"none", "error"}
  /\ gate.step = "done" <=> gate.decision # "none"
  /\ gate.todo \subseteq DOMAIN gate.manifest.items
  /\ gate.linking # {} <=> gate.step \in {"bundle", "cosign"}
  /\ \A r \in gate.linking \cup gate.results :
       r.covered \subseteq Obligation /\ r.kind \in EvidenceKinds

Released == gate.step = "done" /\ gate.decision \in Decisions \ {"block"}

Required == {[spec |-> s, kind |-> k] : s \in gate.manifest.touched, k \in Kinds}

\* What was read of an artifact speaks for an obligation: the artifact is listed for it, is of the
\* kind it asks for, is the file the manifest pins, and says so without saying the contrary.
Vouches(r, o) ==
  /\ r.artifact \in DOMAIN gate.manifest.items
  /\ LET item == gate.manifest.items[r.artifact] IN
     /\ o \in item.obligations /\ item.exit = 0 /\ item.sha \subseteq {r.content}
  /\ KindOf[r.artifact] = requiredEvidence[o.kind]
  /\ o \in r.content.refs \ r.content.bad

\* Whatever policy the repository has and whatever is edited while the gate reads, a change
\* that is not blocked has evidence for every obligation of every spec it touches: artifacts
\* that were read in full, or, for a low risk without signatures, a declaration.
ReleasedIsCovered ==
  Released =>
    /\ Required # {}
    /\ \A o \in Required :
         \/ \E r \in gate.results : Vouches(r, o)
         \/ /\ gate.manifest.risk = Low /\ ~gate.signed /\ DOMAIN gate.manifest.items = {}
            /\ o \in gate.manifest.declared \/ o.kind = "rollback"

\* A change that is not blocked owns up to what it changes: every changed file has an owner,
\* and every spec that owns one is among those the change answers for, and is valid.
FilesAccountedFor ==
  Released =>
    \A f \in gate.manifest.changed :
      /\ \E s \in gate.manifest.touched : f \in OwnedPaths[s]
      /\ \A s \in Specs : f \in OwnedPaths[s] /\ gate.specs[s] # {} =>
           s \in gate.manifest.touched /\ gate.specs[s] = Kinds

\* A change is not let through against the evidence: no artifact it lists says that one of its
\* obligations fails, whichever artifact says that it holds.
NoEvidenceAgainst ==
  Released =>
    /\ ~gate.manifest.failing
    /\ \A r \in gate.results : r.artifact \in DOMAIN gate.manifest.items =>
         r.content.bad \cap gate.manifest.items[r.artifact].obligations = {}

\* A bundle is about what was read of an artifact, and about this change.
Attests(b, r, o) ==
  /\ b.content = r.content /\ o \in b.item.obligations
  /\ b.touched = gate.manifest.touched /\ b.risk = gate.manifest.risk

\* With --require-signed, what speaks for an obligation has a bundle that attests the very content
\* for this set of specs and this risk, and cosign confirmed that an accepted runner signed the
\* bundle it found under that path.  The runner signed the attesting one, unless the bundle changed
\* between the read that compared it and the read of cosign.
SignedMeansSigned ==
  Released /\ gate.signed =>
    \A o \in Required : \E r \in gate.results :
      /\ Vouches(r, o)
      /\ \E b \in r.bundle : Attests(b, r, o)
      /\ \E g \in r.signature :
           g.signer \in AllowedSigners /\ (r.rewritten \/ Attests(g.bundle, r, o))

\* Under the default policy a change of a high-risk spec is never merged without more ado,
\* whatever risk its manifest declares.
HighRiskNeverAutoMerges ==
  Released /\ gate.policy = "default" /\ (\E s \in gate.manifest.touched : SpecRisk[s] >= High)
    => gate.decision \in {"canary", "human_escalation"}

\* A rule that blocks and is reached is final: no later rule takes the block back.
BlockSticks ==
  LET p == Rules(gate.policy)
      input == PolicyInputFromEvidence
  IN  gate.step = "done" /\ gate.decision # "error" =>
        ((\E n \in 1..Len(p) :
            /\ input \in p[n].when /\ p[n].decision = "block"
            /\ \A m \in 1..(n-1) : ~(input \in p[m].when /\ p[m].stop))
         => gate.decision = "block")

\* What the gate lets through is justified by what it read: covered, owned, and with nothing
\* that speaks against it.
ReleaseIsJustified == TypeOK /\ ReleasedIsCovered /\ FilesAccountedFor /\ NoEvidenceAgainst

\* Rules of a policy never loosen what the risk or an earlier rule demands.
PolicyNeverLoosens == HighRiskNeverAutoMerges /\ BlockSticks

=============================================================================
