------------------------- MODULE ReleaseGateProofs -------------------------
(***************************************************************************)
(* What the gate lets through is justified, for every policy, every set of *)
(* specs, artifacts and signers, and all edits of the repository while the *)
(* gate reads it.                                                          *)
(***************************************************************************)
EXTENDS ReleaseGate, FiniteSums

GateFields ==
  {"step", "signed", "manifest", "specs", "todo", "linking", "results", "policy", "decision"}
ResultFields ==
  {"artifact", "kind", "covered", "failed", "blocks", "content", "bundle", "signature", "rewritten",
   "valid"}

\* What is read of the repository is as the gate expects it: an artifact
\* without a byte says nothing, and risks are risks.
RepositoryOK ==
  /\ {"risk", "items"} \subseteq DOMAIN manifest
  /\ manifest.risk \in Risks /\ DOMAIN manifest.items \subseteq Artifacts
  /\ DOMAIN content = Artifacts
  /\ \A a \in Artifacts : content[a].form = "empty" => content[a].bad = {}

\* The result of an artifact says of it what its file said when it was read.
Reads(r) ==
  LET item == gate.manifest.items[r.artifact] IN
  /\ r.kind = KindOf[r.artifact]
  /\ r.valid =>
       /\ item.exit = 0 /\ item.sha \subseteq {r.content}
       /\ r.kind # "verifier_output" =>
            r.covered \subseteq item.obligations \cap (r.content.refs \ r.content.bad)
       /\ ~r.blocks => r.content.bad \cap item.obligations = {}

\* A bundle is the one that belongs to what was read.
Matches(b, r) ==
  /\ b.content = r.content
  /\ b.item.obligations = gate.manifest.items[r.artifact].obligations
  /\ b.touched = gate.manifest.touched /\ b.risk = gate.manifest.risk

\* Where signatures are asked for, what covers an obligation has its bundle, and a signature of an
\* accepted runner that cosign confirmed, of that bundle unless it changed in between.
Verified(r) ==
  gate.signed /\ r.valid /\ r.covered # {} =>
    /\ \E b \in r.bundle : Matches(b, r)
    /\ \E g \in r.signature :
         g.signer \in AllowedSigners /\ (r.rewritten \/ Matches(g.bundle, r))

Speaks(r) == Reads(r) /\ Verified(r)

\* Before cosign runs: the signer is accepted, and the bundle was compared and is still the one on
\* disk unless it changed.
Checked(r) ==
  /\ gate.manifest.items[r.artifact].signer \subseteq AllowedSigners
  /\ r.bundle # {} /\ \A b \in r.bundle : Matches(b, r)
  /\ ~rewritten => r.bundle = bundle[r.artifact]

\* Between the reads of an artifact, its result is at hand.
LinkingInv ==
  gate.step \in {"bundle", "cosign"} =>
    \E r : /\ gate.linking = {r} /\ DOMAIN r = ResultFields
           /\ r.artifact \in DOMAIN gate.manifest.items /\ Reads(r)
           /\ gate.step = "cosign" => Checked(r)

\* Results are of listed artifacts, or the manifest lists none and the one
\* result is that of an imported JUnit manifest.
ResultsInv ==
  \A r \in gate.results :
    IF r.artifact \in DOMAIN gate.manifest.items THEN Speaks(r)
    ELSE r.kind = "test_coverage" /\ DOMAIN gate.manifest.items = {}

\* What the gate has read, and what it concludes: nothing that blocks is let
\* through, whatever the policy says.
ReadInv ==
  /\ DOMAIN gate = GateFields
  /\ gate.todo \subseteq DOMAIN gate.manifest.items
  /\ DOMAIN gate.manifest.items \subseteq Artifacts
  /\ gate.results = {} => gate.manifest.risk \in Risks
  /\ gate.step \in {"manifest", "specs"} => gate.results = {} /\ gate.todo = {}

JudgedInv == Released => ~HasBlockingFindings

GateInv == RepositoryOK /\ ReadInv /\ ResultsInv /\ LinkingInv /\ JudgedInv

-----------------------------------------------------------------------------
\* A manifest without items links nothing.
LEMMA EmptyItems == DOMAIN <<>> = {}
  OBVIOUS

\* The largest risk of a set of specs exists.
LEMMA MaxRisk ==
  ASSUME NEW S \in SUBSET Specs, S # {} PROVE maxSpecRisk(S) \in Risks
<1> DEFINE R == {SpecRisk[s] : s \in S}
<1>1. R \subseteq 0..3 /\ R # {}
  BY GateAssumption DEF Risks, Low, Medium, High, Critical
<1>2. \E r \in R : \A q \in R : r >= q
  <2>1. CASE 3 \in R BY <1>1, <2>1
  <2>2. CASE 3 \notin R /\ 2 \in R BY <1>1, <2>2
  <2>3. CASE 3 \notin R /\ 2 \notin R /\ 1 \in R BY <1>1, <2>3
  <2>4. CASE 3 \notin R /\ 2 \notin R /\ 1 \notin R BY <1>1, <2>4
  <2> QED BY <2>1, <2>2, <2>3, <2>4
<1>3. \E r \in R : \A s \in S : r >= SpecRisk[s]
  BY <1>2
<1>4. maxSpecRisk(S) \in R
  BY <1>3 DEF maxSpecRisk
<1> QED
  BY <1>1, <1>4 DEF Risks, Low, Medium, High, Critical

\* The findings depend on what was read only.
LEMMA SameFindings ==
  ASSUME gate'.manifest = gate.manifest, gate'.specs = gate.specs,
         gate'.results = gate.results, gate'.signed = gate.signed
  PROVE  HasBlockingFindings' <=> HasBlockingFindings
<1>1. Linked' <=> Linked
  BY DEF Linked
<1>2. \A o : obligationCovered(o)' <=> obligationCovered(o)
  BY <1>1 DEF obligationCovered
<1>3. MissingObligations' = MissingObligations
  BY <1>2 DEF MissingObligations
<1>4. \A k : missingByKind(k)' = missingByKind(k)
  BY <1>3 DEF missingByKind
<1>5. verifyCompilation' <=> verifyCompilation
  BY DEF verifyCompilation
<1>6. verifyArtifactEvidence' <=> verifyArtifactEvidence
  BY <1>1 DEF verifyArtifactEvidence
<1>7. /\ verifyBehaviorEvidence' <=> verifyBehaviorEvidence
      /\ verifyTestAdequacy' <=> verifyTestAdequacy
      /\ verifySecurityEvidence' <=> verifySecurityEvidence
      /\ verifyReleaseReadiness' <=> verifyReleaseReadiness
  BY <1>4 DEF verifyBehaviorEvidence, verifyTestAdequacy, verifySecurityEvidence,
              verifyReleaseReadiness
<1>8. importVerifierFindings' <=> importVerifierFindings
  BY DEF importVerifierFindings
<1> QED
  BY <1>5, <1>6, <1>7, <1>8 DEF HasBlockingFindings

\* Linking an artifact tells what its file says.
LEMMA LinkSpeaks ==
  ASSUME RepositoryOK, ReadInv, NEW a \in DOMAIN gate.manifest.items
  PROVE  /\ Link(a).artifact = a /\ DOMAIN Link(a) = ResultFields /\ Reads(Link(a))
         /\ content[a].form \in {"missing", "empty"} => Verified(Link(a))
<1> DEFINE r == Link(a)
           item == gate.manifest.items[a]
           plan == Plan(gate.manifest, gate.specs)
           import == Import(a, content[a], item.obligations, plan)
<1>1. /\ r.artifact = a /\ r.kind = KindOf[a] /\ r.content = content[a]
      /\ r.covered = import.covered /\ r.blocks = import.blocks /\ DOMAIN r = ResultFields
  BY DEF Link, ResultFields
<1>2. ASSUME r.valid
      PROVE  /\ item.exit = 0 /\ content[a].form # "missing" /\ item.sha \subseteq {content[a]}
             /\ import.ok
  BY <1>2 DEF Link
<1>3. ASSUME r.valid, r.kind # "verifier_output"
      PROVE  r.covered \subseteq item.obligations \cap (r.content.refs \ r.content.bad)
  BY <1>1, <1>2, <1>3 DEF Import, importJUnitEvidence, importSARIFEvidence, importGenericEvidence
<1>4. ASSUME r.valid, ~r.blocks PROVE r.content.bad \cap item.obligations = {}
  <2>1. CASE content[a].form = "empty"
    BY <1>1, <2>1 DEF RepositoryOK, ReadInv
  <2>2. CASE content[a].form # "empty"
    BY <1>1, <1>2, <1>4, <2>2 DEF Import, importJUnitEvidence, importSARIFEvidence,
                            importGenericEvidence, importVerifierOutput
  <2> QED BY <2>1, <2>2
<1>5. content[a].form \in {"missing", "empty"} => r.covered = {}
  BY <1>1 DEF Import
<1>6. Reads(r)
  BY <1>1, <1>2, <1>3, <1>4 DEF Reads
<1> QED
  BY <1>1, <1>5, <1>6 DEF Verified

\* The result at hand is the only one there is.
LEMMA LinkingIs == ASSUME NEW r, gate.linking = {r} PROVE Linking = r
  BY DEF Linking

-----------------------------------------------------------------------------
\* Before the gate runs, nothing was read and nothing judged.
LEMMA GateInit == Init => GateInv
<1> SUFFICES ASSUME Init PROVE GateInv
  OBVIOUS
<1>1. gate = NoRun
  BY DEF Init
<1>2. RepositoryOK
  <2>1. PICK t \in Changes, artifacts \in BOOLEAN, s \in AllowedSigners :
          LET said == [a \in Artifacts |->
                         IF KindOf[a] = "verifier_output"
                         THEN [form |-> "report", refs |-> {o \in Obligation : o.spec \in t},
                               bad |-> {}]
                         ELSE WholeContent(a)]
          IN  /\ manifest = [NoManifest EXCEPT
                   !.present = TRUE, !.risk = maxSpecRisk(t), !.touched = t, !.canary = TRUE,
                   !.changed = {f \in Files : OwnersForFile(specs, f) # {} /\ OwnersForFile(specs, f) \subseteq t},
                   !.rollback = "strategy",
                   !.declared = {o \in Obligation : o.spec \in t /\ o.kind # "rollback"},
                   !.items = IF artifacts THEN [a \in Artifacts |-> WholeItem(t, a, said[a], s)]
                             ELSE <<>>]
              /\ content = said
    BY DEF Init
  <2>2. /\ DOMAIN content = Artifacts
        /\ \A a \in Artifacts : content[a].form = "report"
    BY <2>1 DEF WholeContent
  <2>3. {"risk", "items"} \subseteq DOMAIN manifest /\ manifest.risk = maxSpecRisk(t)
    BY <2>1 DEF NoManifest
  <2>4. DOMAIN manifest.items \subseteq Artifacts
    BY <2>1, EmptyItems DEF NoManifest
  <2> QED
    BY <2>2, <2>3, <2>4, MaxRisk, GateAssumption DEF RepositoryOK
<1>3. ReadInv /\ ResultsInv /\ LinkingInv /\ JudgedInv
  BY <1>1, EmptyItems
     DEF NoRun, NoManifest, ReadInv, GateFields, ResultsInv, LinkingInv, JudgedInv, Released, Risks
<1> QED
  BY <1>2, <1>3 DEF GateInv

\* An edit changes what a later read finds, not what was read.
LEMMA EditKeeps == ASSUME GateInv, Edit PROVE GateInv'
<1>1. gate' = gate
  BY DEF Edit
<1>2. ReadInv' /\ ResultsInv'
  BY <1>1 DEF GateInv, ReadInv, ResultsInv, Speaks, Reads, Verified, Matches
<1>l. LinkingInv'
  <2> SUFFICES ASSUME gate.step \in {"bundle", "cosign"} PROVE LinkingInv'
    BY <1>1 DEF LinkingInv
  <2>1. PICK r : /\ gate.linking = {r} /\ DOMAIN r = ResultFields
                 /\ r.artifact \in DOMAIN gate.manifest.items /\ Reads(r)
                 /\ gate.step = "cosign" => Checked(r)
    BY DEF GateInv, LinkingInv
  <2>2. gate.step = "cosign" /\ ~rewritten' => ~rewritten /\ bundle'[r.artifact] = bundle[r.artifact]
    BY <2>1, LinkingIs DEF Edit
  <2>3. gate.step = "cosign" => Checked(r)'
    BY <1>1, <2>1, <2>2 DEF Checked, Matches
  <2> QED
    BY <1>1, <2>1, <2>3 DEF LinkingInv, Reads
<1>3. JudgedInv'
  BY <1>1, SameFindings DEF GateInv, JudgedInv, Released
<1>4. /\ {"risk", "items"} \subseteq DOMAIN manifest'
      /\ manifest'.risk \in Risks /\ DOMAIN manifest'.items \subseteq Artifacts
  <2>1. CASE manifest' = manifest
    BY <2>1 DEF GateInv, RepositoryOK
  <2>2. CASE manifest' = NoManifest
    BY <2>2, EmptyItems DEF NoManifest, Risks
  <2>3. CASE manifest' \in ManifestEdits
    BY <2>3, EmptyItems DEF ManifestEdits, GateInv, RepositoryOK, Risks, Low, Medium, Critical
  <2>4. CASE \E a \in DOMAIN manifest.items : \E i \in ItemEdits(a) :
               manifest' = [manifest EXCEPT !.items[a] = i]
    BY <2>4 DEF GateInv, RepositoryOK
  <2> QED
    BY <2>1, <2>2, <2>3, <2>4 DEF Edit, EditManifest, EditContent, EditBundle, LoseSignature, Sign,
                                  EditSpecs, EditPolicy
<1>5. /\ DOMAIN content' = Artifacts
      /\ \A a \in Artifacts : content'[a].form = "empty" => content'[a].bad = {}
  <2>1. CASE content' = content
    BY <2>1 DEF GateInv, RepositoryOK
  <2>2. CASE \E a \in Artifacts : \E c \in ContentEdits(a) : content' = [content EXCEPT ![a] = c]
    <3>1. PICK a \in Artifacts : \E c \in ContentEdits(a) : content' = [content EXCEPT ![a] = c]
      BY <2>2
    <3>2. PICK c \in ContentEdits(a) : content' = [content EXCEPT ![a] = c]
      BY <3>1
    <3>3. c.form = "empty" => c.bad = {}
      BY DEF ContentEdits
    <3> QED
      BY <3>2, <3>3 DEF GateInv, RepositoryOK
  <2> QED
    BY <2>1, <2>2, GateAssumption DEF Edit, EditManifest, EditContent, EditBundle, LoseSignature,
                                      Sign, EditSpecs, EditPolicy
<1>6. RepositoryOK'
  BY <1>4, <1>5 DEF RepositoryOK
<1> QED
  BY <1>2, <1>l, <1>3, <1>6 DEF GateInv

\* A result that is finished joins the others.
LEMMA FinishKeeps ==
  ASSUME GateInv, gate.step \in {"bundle", "cosign"}, NEW x,
         x.artifact \in DOMAIN gate.manifest.items, Speaks(x), gate' = FinishLinking(x)
  PROVE  ReadInv' /\ ResultsInv' /\ LinkingInv' /\ JudgedInv'
<1>1. /\ DOMAIN gate' = GateFields /\ gate'.manifest = gate.manifest /\ gate'.signed = gate.signed
      /\ gate'.todo = gate.todo /\ gate'.step = "link" /\ gate'.results = gate.results \cup {x}
  BY DEF FinishLinking, GateInv, ReadInv, GateFields
<1>2. ResultsInv'
  BY <1>1 DEF GateInv, ResultsInv, Speaks, Reads, Verified, Matches
<1> QED
  BY <1>1, <1>2 DEF GateInv, ReadInv, LinkingInv, JudgedInv, Released

\* A result that is not valid vouches for nothing.
LEMMA RefusedSpeaks ==
  ASSUME NEW r, DOMAIN r = ResultFields, Reads(r)
  PROVE  LET x == [r EXCEPT !.valid = FALSE] IN x.artifact = r.artifact /\ Speaks(x)
  BY DEF ResultFields, Reads, Speaks, Verified

\* The bundle is compared with what was read of its artifact.
LEMMA BundleKeeps ==
  ASSUME GateInv, verifySignedEvidenceBundle
  PROVE  ReadInv' /\ ResultsInv' /\ LinkingInv' /\ JudgedInv'
<1>1. gate.step = "bundle" /\ bundle' = bundle
  BY DEF verifySignedEvidenceBundle, repository
<1>2. PICK r : /\ gate.linking = {r} /\ DOMAIN r = ResultFields
               /\ r.artifact \in DOMAIN gate.manifest.items /\ Reads(r)
  BY <1>1 DEF GateInv, LinkingInv
<1> DEFINE ok == /\ r.valid /\ signerAllowed(gate.manifest.items[r.artifact])
                 /\ bundle[r.artifact] # {}
                 /\ \A b \in bundle[r.artifact] :
                      validateEvidenceBundle(b, gate.manifest, r.artifact, r.content)
           x == [r EXCEPT !.bundle = bundle[r.artifact]]
<1>3. gate' = IF ok THEN [gate EXCEPT !.linking = {x}, !.step = "cosign"]
              ELSE FinishLinking([r EXCEPT !.valid = FALSE])
  BY <1>2, LinkingIs DEF verifySignedEvidenceBundle
<1>4. CASE ok
  <2>1. /\ DOMAIN gate' = GateFields /\ gate'.manifest = gate.manifest
        /\ gate'.signed = gate.signed /\ gate'.todo = gate.todo /\ gate'.step = "cosign"
        /\ gate'.results = gate.results /\ gate'.linking = {x}
    BY <1>3, <1>4 DEF GateInv, ReadInv, GateFields
  <2>2. /\ DOMAIN x = ResultFields /\ x.artifact = r.artifact /\ x.content = r.content
        /\ x.bundle = bundle[r.artifact] /\ Reads(x)
    BY <1>2 DEF ResultFields, Reads
  <2>3. /\ gate.manifest.items[r.artifact].signer \subseteq AllowedSigners
        /\ bundle[r.artifact] # {} /\ \A b \in bundle[r.artifact] : Matches(b, r)
    BY <1>4 DEF signerAllowed, validateEvidenceBundle, Matches
  <2> HIDE DEF x
  <2>4. LinkingInv'
    BY <1>1, <1>2, <2>1, <2>2, <2>3 DEF LinkingInv, Checked, Reads, Matches
  <2>5. ResultsInv'
    BY <2>1 DEF GateInv, ResultsInv, Speaks, Reads, Verified, Matches
  <2> QED
    BY <2>1, <2>4, <2>5 DEF GateInv, ReadInv, JudgedInv, Released
<1>5. CASE ~ok
  BY <1>1, <1>2, <1>3, <1>5, RefusedSpeaks, FinishKeeps
<1> QED
  BY <1>4, <1>5

\* cosign confirms the signature of the signer that the manifest names and the config accepts.
LEMMA SignatureKeeps ==
  ASSUME GateInv, verifySignature
  PROVE  ReadInv' /\ ResultsInv' /\ LinkingInv' /\ JudgedInv'
<1>1. gate.step = "cosign"
  BY DEF verifySignature
<1>2. PICK r : /\ gate.linking = {r} /\ DOMAIN r = ResultFields
               /\ r.artifact \in DOMAIN gate.manifest.items /\ Reads(r) /\ Checked(r)
  BY <1>1 DEF GateInv, LinkingInv
<1> DEFINE ok == verifyBlob(gate.manifest.items[r.artifact], r.artifact)
           x == [r EXCEPT !.signature = signature[r.artifact], !.rewritten = rewritten]
<1>3. gate' = IF ok THEN FinishLinking(x) ELSE FinishLinking([r EXCEPT !.valid = FALSE])
  BY <1>2, LinkingIs DEF verifySignature
<1>4. CASE ok
  <2>1. /\ x.artifact = r.artifact /\ x.content = r.content /\ x.bundle = r.bundle
        /\ x.signature = signature[r.artifact] /\ x.rewritten = rewritten /\ Reads(x)
    BY <1>2 DEF ResultFields, Reads
  <2>2. PICK g \in signature[r.artifact] :
          g.bundle \in bundle[r.artifact] /\ g.signer \in gate.manifest.items[r.artifact].signer
    BY <1>4 DEF verifyBlob
  <2>3. g.signer \in AllowedSigners /\ (rewritten \/ Matches(g.bundle, r))
    BY <1>2, <2>2 DEF Checked
  <2>4. \A b : Matches(b, r) => Matches(b, x)
    BY <2>1 DEF Matches
  <2> HIDE DEF x
  <2>5. Speaks(x)
    BY <1>2, <2>1, <2>2, <2>3, <2>4 DEF Speaks, Verified, Checked
  <2> QED
    BY <1>1, <1>2, <1>3, <1>4, <2>1, <2>5, FinishKeeps
<1>5. CASE ~ok
  BY <1>1, <1>2, <1>3, <1>5, RefusedSpeaks, FinishKeeps
<1> QED
  BY <1>4, <1>5

\* The steps of the gate change nothing of the repository.
LEMMA StepKeeps ==
  ASSUME GateInv,
         \/ gateCommand \/ LoadManifest \/ LoadSpecs \/ CollectEvidenceFromEvidenceManifest
         \/ LinkEvidenceArtifact \/ verifySignedEvidenceBundle \/ verifySignature
         \/ LinkEvidenceArtifacts \/ LoadReleasePolicy
         \/ GateFails \/ collectAndRender
  PROVE  GateInv'
<1> USE DEF GateInv
<1>r. RepositoryOK'
  BY DEF RepositoryOK, repository, gateCommand, LoadManifest, LoadSpecs,
         CollectEvidenceFromEvidenceManifest, LinkEvidenceArtifact, verifySignedEvidenceBundle,
         verifySignature, LinkEvidenceArtifacts, LoadReleasePolicy, GateFails, collectAndRender
<1>1. CASE gateCommand \/ collectAndRender
  <2>1. /\ DOMAIN gate' = GateFields /\ gate'.manifest = NoManifest
        /\ gate'.step \in {"idle", "manifest"} /\ gate'.results = {} /\ gate'.todo = {}
    <3>1. CASE gateCommand
      BY <3>1 DEF gateCommand, NoRun, GateFields
    <3>2. CASE collectAndRender
      BY <3>2 DEF collectAndRender, NoRun, GateFields
    <3> QED
      BY <1>1, <3>1, <3>2
  <2>2. NoManifest.risk \in Risks /\ DOMAIN NoManifest.items = {}
    BY EmptyItems DEF NoManifest, Risks
  <2> QED
    BY <1>r, <2>1, <2>2 DEF ReadInv, ResultsInv, LinkingInv, JudgedInv, Released
<1>2. CASE LoadManifest
  <2>1. /\ DOMAIN gate' = GateFields /\ gate'.manifest = manifest /\ gate'.step = "specs"
        /\ gate'.results = {} /\ gate'.todo = {}
    BY <1>2 DEF LoadManifest, ReadInv, GateFields
  <2> QED
    BY <1>r, <2>1 DEF ReadInv, RepositoryOK, ResultsInv, LinkingInv, JudgedInv, Released
<1>3. CASE LoadSpecs
  <2>1. /\ DOMAIN gate' = GateFields /\ gate'.manifest = gate.manifest /\ gate'.step = "link"
        /\ gate'.results = {} /\ gate'.todo = DOMAIN gate.manifest.items
    BY <1>3 DEF LoadSpecs, ReadInv, GateFields
  <2> QED
    BY <1>3, <1>r, <2>1 DEF LoadSpecs, ReadInv, ResultsInv, LinkingInv, JudgedInv, Released
<1>4. CASE CollectEvidenceFromEvidenceManifest
  <2>1. PICK failed \in BOOLEAN, tests \in SUBSET {o \in Obligation : o.kind = "required_test"} :
          LET risk == maxSpecRisk(Present(specs)) IN
          gate' = [gate EXCEPT
            !.step = "policy", !.specs = specs,
            !.manifest = [NoManifest EXCEPT
               !.risk = risk, !.touched = Present(specs), !.canary = risk >= High,
               !.rollback = rollbackForSpecs(specs)],
            !.results = {EvidenceManifest(tests, failed)}]
    BY <1>4 DEF CollectEvidenceFromEvidenceManifest
  <2>2. /\ DOMAIN gate' = GateFields /\ gate'.step = "policy" /\ gate'.todo = gate.todo
        /\ DOMAIN gate'.manifest.items = {}
        /\ gate'.results = {EvidenceManifest(tests, failed)}
    BY <2>1, EmptyItems DEF ReadInv, GateFields, NoManifest
  <2>3. gate.todo = {}
    BY <1>4 DEF CollectEvidenceFromEvidenceManifest, ReadInv
  <2>4. EvidenceManifest(tests, failed).kind = "test_coverage"
    BY DEF EvidenceManifest
  <2> QED
    BY <1>r, <2>2, <2>3, <2>4 DEF ReadInv, ResultsInv, LinkingInv, JudgedInv, Released
<1>5. CASE LinkEvidenceArtifact
  <2> DEFINE open(a) == gate.signed /\ content[a].form \notin {"missing", "empty"}
  <2>1. PICK a \in gate.todo :
          gate' = IF open(a)
                  THEN [[gate EXCEPT !.todo = @ \ {a}] EXCEPT !.linking = {Link(a)}, !.step = "bundle"]
                  ELSE [[gate EXCEPT !.todo = @ \ {a}] EXCEPT !.results = @ \cup {Link(a)}]
    BY <1>5 DEF LinkEvidenceArtifact
  <2>2. /\ DOMAIN gate' = GateFields /\ gate'.manifest = gate.manifest
        /\ gate'.signed = gate.signed /\ gate'.todo \subseteq gate.todo
        /\ IF open(a) THEN /\ gate'.step = "bundle" /\ gate'.linking = {Link(a)}
                           /\ gate'.results = gate.results
           ELSE gate'.step = "link" /\ gate'.results = gate.results \cup {Link(a)}
    <3>1. gate.step = "link"
      BY <1>5 DEF LinkEvidenceArtifact
    <3> QED
      BY <2>1, <3>1 DEF ReadInv, GateFields
  <2>3. /\ a \in DOMAIN gate.manifest.items /\ Link(a).artifact = a
        /\ DOMAIN Link(a) = ResultFields /\ Reads(Link(a))
        /\ ~open(a) => Speaks(Link(a))
    BY LinkSpeaks DEF ReadInv, Speaks, Verified
  <2> HIDE DEF open
  <2>4. ResultsInv' /\ LinkingInv'
    <3>1. CASE open(a)
      BY <2>2, <2>3, <3>1 DEF ResultsInv, LinkingInv, Speaks, Reads, Verified, Matches
    <3>2. CASE ~open(a)
      BY <2>2, <2>3, <3>2 DEF ResultsInv, LinkingInv, Speaks, Reads, Verified, Matches
    <3> QED
      BY <3>1, <3>2
  <2>5. ReadInv' /\ JudgedInv'
    BY <2>2 DEF ReadInv, JudgedInv, Released
  <2> QED
    BY <1>r, <2>4, <2>5
<1>8. CASE verifySignedEvidenceBundle
  BY <1>r, <1>8, BundleKeeps
<1>9. CASE verifySignature
  BY <1>r, <1>9, SignatureKeeps
<1>6. CASE LinkEvidenceArtifacts \/ GateFails
  <2>1. /\ DOMAIN gate' = GateFields /\ gate'.manifest = gate.manifest
        /\ gate'.signed = gate.signed /\ gate'.todo = gate.todo /\ gate'.results = gate.results
        /\ \/ gate'.step = "policy"
           \/ gate'.step = "done" /\ gate'.decision = "error"
    <3>1. CASE LinkEvidenceArtifacts
      BY <3>1 DEF LinkEvidenceArtifacts, ReadInv, GateFields
    <3>2. CASE GateFails
      BY <3>2 DEF GateFails, ReadInv, GateFields
    <3> QED
      BY <1>6, <3>1, <3>2
  <2> QED
    BY <1>r, <2>1 DEF ReadInv, ResultsInv, Speaks, Reads, Verified, Matches, LinkingInv, JudgedInv,
                      Released, Decisions
<1>7. CASE LoadReleasePolicy
  <2>1. /\ DOMAIN gate' = GateFields /\ gate'.manifest = gate.manifest /\ gate'.specs = gate.specs
        /\ gate'.signed = gate.signed /\ gate'.todo = gate.todo /\ gate'.results = gate.results
        /\ gate'.step = "done" /\ gate'.decision = ApplyReleasePolicy(Rules(policy))
    BY <1>7 DEF LoadReleasePolicy, ReadInv, GateFields
  <2>2. HasBlockingFindings => gate'.decision = "block"
    BY <2>1 DEF ApplyReleasePolicy, enforcePolicyFloor, PolicyInputFromEvidence
  <2>3. JudgedInv'
    BY <2>1, <2>2, SameFindings DEF JudgedInv, Released
  <2>4. ReadInv' /\ ResultsInv' /\ LinkingInv'
    BY <2>1 DEF ReadInv, ResultsInv, Speaks, Reads, Verified, Matches, LinkingInv
  <2> QED
    BY <1>r, <2>3, <2>4
<1> QED
  BY <1>1, <1>2, <1>3, <1>4, <1>5, <1>6, <1>7, <1>8, <1>9

\* Steps outside the module change nothing.
LEMMA StutterKeeps == ASSUME GateInv, UNCHANGED vars PROVE GateInv'
<1>1. RepositoryOK' /\ ReadInv' /\ ResultsInv'
  BY DEF GateInv, vars, repository, RepositoryOK, ReadInv, ResultsInv, Speaks, Reads, Verified,
         Matches
<1>3. LinkingInv'
  BY DEF GateInv, vars, repository, LinkingInv, Reads, Checked, Matches
<1>2. JudgedInv'
  BY SameFindings DEF GateInv, vars, JudgedInv, Released
<1> QED
  BY <1>1, <1>2, <1>3 DEF GateInv

\* The invariant behind the results on the gate: results say what the
\* artifacts said when they were read, and what blocks is not let through.
THEOREM GateCorrect == Spec => []GateInv
<1>1. GateInv /\ [Next]_vars => GateInv'
  BY EditKeeps, StepKeeps, StutterKeeps DEF Next
<1> QED
  BY GateInit, <1>1, PTL DEF Spec

-----------------------------------------------------------------------------
\* Without a blocking finding the specs and the manifest are in order, and
\* every obligation of a touched spec is in the plan and covered.
LEMMA ReleasedPlan ==
  ASSUME ~HasBlockingFindings
  PROVE  /\ \A s \in gate.manifest.touched : s \in Specs /\ gate.specs[s] = Kinds
         /\ Required \subseteq Plan(gate.manifest, gate.specs) /\ Required # {}
         /\ \A o \in Required : o.kind \in Kinds /\ obligationCovered(o)
<1>1. \A s \in gate.manifest.touched : s \in Specs /\ s \in ValidSpecs(gate.specs)
  BY DEF HasBlockingFindings, HasInvalidSpecOrManifest, ValidateManifest, Present
<1>2. \A s \in gate.manifest.touched : gate.specs[s] = Kinds
  BY <1>1 DEF ValidSpecs
<1>3. ASSUME NEW o \in Required PROVE o \in Plan(gate.manifest, gate.specs) /\ o.kind \in Kinds
  <2>1. PICK s \in gate.manifest.touched, k \in Kinds : o = [spec |-> s, kind |-> k]
    BY <1>3 DEF Required
  <2>2. o \in IRFromSpec(gate.specs, s)
    BY <1>2, <2>1 DEF IRFromSpec
  <2> QED
    BY <1>1, <2>1, <2>2 DEF Plan
<1>4. Required # {}
  <2>1. PICK o : o \in Plan(gate.manifest, gate.specs)
    BY DEF HasBlockingFindings, verifyCompilation
  <2>2. PICK s \in gate.manifest.touched \cap ValidSpecs(gate.specs) : o \in IRFromSpec(gate.specs, s)
    BY <2>1 DEF Plan
  <2>3. [spec |-> s, kind |-> "behavior"] \in Required
    BY <2>2 DEF Required, Kinds
  <2> QED
    BY <2>3
<1>5. \A k \in Kinds : missingByKind(k) = {}
  BY DEF Kinds, HasBlockingFindings, verifyBehaviorEvidence, verifyTestAdequacy,
         verifySecurityEvidence, verifyReleaseReadiness
<1>6. \A o \in Required : obligationCovered(o)
  BY <1>3, <1>5 DEF missingByKind, MissingObligations
<1> QED
  BY <1>1, <1>2, <1>3, <1>4, <1>6

\* Whatever covers an obligation of a released change is a listed artifact
\* that vouches for it, if anything was linked.
LEMMA LinkedVouches ==
  ASSUME GateInv, ~HasBlockingFindings, Linked, NEW o \in Required
  PROVE  \E r \in gate.results :
           /\ r.artifact \in DOMAIN gate.manifest.items /\ Speaks(r) /\ r.valid
           /\ o \in r.covered /\ Vouches(r, o)
<1>1. \A q \in Required : \E r \in gate.results :
        r.valid /\ r.kind = requiredEvidence[q.kind] /\ q \in r.covered
  <2> SUFFICES ASSUME NEW q \in Required
               PROVE  \E r \in gate.results :
                        r.valid /\ r.kind = requiredEvidence[q.kind] /\ q \in r.covered
    OBVIOUS
  <2>1. q \in artifactCoverage(gate.results, q.kind)
    BY ReleasedPlan DEF obligationCovered
  <2> QED
    BY <2>1 DEF artifactCoverage
<1>2. PICK r \in gate.results : r.valid /\ r.kind = requiredEvidence[o.kind] /\ o \in r.covered
  BY <1>1
<1>3. r.artifact \in DOMAIN gate.manifest.items
  <2> SUFFICES ASSUME r.artifact \notin DOMAIN gate.manifest.items PROVE FALSE
    OBVIOUS
  <2>1. DOMAIN gate.manifest.items = {}
    BY DEF GateInv, ResultsInv
  <2>2. PICK s \in gate.manifest.touched : [spec |-> s, kind |-> "behavior"] \in Required
    BY DEF Required, Kinds
  <2>3. PICK x \in gate.results : x.kind = requiredEvidence["behavior"]
    BY <1>1, <2>2
  <2> QED
    BY <2>1, <2>3 DEF GateInv, ResultsInv, requiredEvidence
<1>4. Speaks(r)
  BY <1>3 DEF GateInv, ResultsInv
<1>5. requiredEvidence[o.kind] # "verifier_output"
  BY ReleasedPlan DEF requiredEvidence, Kinds
<1>6. Vouches(r, o)
  BY <1>2, <1>3, <1>4, <1>5 DEF Speaks, Reads, Vouches
<1> QED
  BY <1>2, <1>3, <1>4, <1>6

\* A change that is not blocked has evidence for each obligation, owns up to
\* what it changes, and nothing that was read speaks against it: the parts of
\* ReleaseIsJustified that are not types, for every policy and all edits.
THEOREM ReleaseJustified ==
  Spec => [](ReleasedIsCovered /\ FilesAccountedFor /\ NoEvidenceAgainst)
<1>1. GateInv => ReleasedIsCovered
  <2> SUFFICES ASSUME GateInv, Released, NEW o \in Required,
                      ~\E r \in gate.results : Vouches(r, o)
               PROVE  /\ gate.manifest.risk = Low /\ ~gate.signed
                      /\ DOMAIN gate.manifest.items = {}
                      /\ o \in gate.manifest.declared \/ o.kind = "rollback"
    BY ReleasedPlan DEF ReleasedIsCovered, GateInv, JudgedInv
  <2>1. ~HasBlockingFindings
    BY DEF GateInv, JudgedInv
  <2>2. ~Linked
    BY <2>1, LinkedVouches
  <2>3. ~gate.signed /\ ~(gate.manifest.risk >= Medium)
    BY <2>1, <2>2, ReleasedPlan DEF HasBlockingFindings, verifyArtifactEvidence
  <2>4. gate.manifest.risk \in Risks
    BY <2>2 DEF Linked, GateInv, ReadInv
  <2>5. obligationCovered(o)
    BY <2>1, ReleasedPlan
  <2> QED
    BY <2>2, <2>3, <2>4, <2>5
       DEF Linked, obligationCovered, Risks, Low, Medium, High, Critical
<1>2. GateInv => FilesAccountedFor
  <2> SUFFICES ASSUME ~HasBlockingFindings, NEW f \in gate.manifest.changed
               PROVE  /\ \E s \in gate.manifest.touched : f \in OwnedPaths[s]
                      /\ \A s \in Specs : f \in OwnedPaths[s] /\ gate.specs[s] # {} =>
                           s \in gate.manifest.touched /\ gate.specs[s] = Kinds
    BY DEF FilesAccountedFor, GateInv, JudgedInv
  <2>1. /\ OwnersForFile(gate.specs, f) # {}
        /\ OwnersForFile(gate.specs, f) \subseteq gate.manifest.touched
        /\ Present(gate.specs) = ValidSpecs(gate.specs)
    BY DEF HasBlockingFindings, HasInvalidSpecOrManifest, validateFileTraceability
  <2> QED
    BY <2>1 DEF OwnersForFile, Present, ValidSpecs
<1>3. GateInv => NoEvidenceAgainst
  <2> SUFFICES ASSUME GateInv, ~HasBlockingFindings
               PROVE  /\ ~gate.manifest.failing
                      /\ \A r \in gate.results : r.artifact \in DOMAIN gate.manifest.items =>
                           r.content.bad \cap gate.manifest.items[r.artifact].obligations = {}
    BY DEF NoEvidenceAgainst, GateInv, JudgedInv
  <2>1. ~gate.manifest.failing
    BY DEF HasBlockingFindings, verifyTestAdequacy
  <2>2. \A r \in gate.results : r.valid /\ ~r.blocks
    BY DEF HasBlockingFindings, verifyArtifactEvidence, importVerifierFindings
  <2> QED
    BY <2>1, <2>2 DEF GateInv, ResultsInv, Speaks, Reads
<1> QED
  BY GateCorrect, <1>1, <1>2, <1>3, PTL

\* With --require-signed, what speaks for an obligation has a bundle that attests it, and cosign
\* confirmed the signature of an accepted runner: of that bundle, unless it changed between the
\* read that compared it and the read of cosign.
THEOREM SignedCorrect == Spec => []SignedMeansSigned
<1>1. GateInv => SignedMeansSigned
  <2> SUFFICES ASSUME GateInv, ~HasBlockingFindings, gate.signed, NEW o \in Required
               PROVE  \E r \in gate.results :
                        /\ Vouches(r, o)
                        /\ \E b \in r.bundle : Attests(b, r, o)
                        /\ \E g \in r.signature :
                             g.signer \in AllowedSigners /\ (r.rewritten \/ Attests(g.bundle, r, o))
    BY DEF SignedMeansSigned, GateInv, JudgedInv
  <2>1. Linked
    BY ReleasedPlan DEF HasBlockingFindings, verifyArtifactEvidence
  <2>2. PICK r \in gate.results :
          /\ r.artifact \in DOMAIN gate.manifest.items /\ Speaks(r) /\ r.valid
          /\ o \in r.covered /\ Vouches(r, o)
    BY <2>1, LinkedVouches
  <2>3. \A b : Matches(b, r) => Attests(b, r, o)
    BY <2>2 DEF Matches, Attests, Vouches
  <2>4. /\ \E b \in r.bundle : Matches(b, r)
        /\ \E g \in r.signature :
             g.signer \in AllowedSigners /\ (r.rewritten \/ Matches(g.bundle, r))
    BY <2>2 DEF Speaks, Verified
  <2> QED
    BY <2>2, <2>3, <2>4
<1> QED
  BY GateCorrect, <1>1, PTL

-----------------------------------------------------------------------------
(* What a release policy decides, for every list of rules.  The loop over  *)
(* the rules is a recursive function: facts about it are proved by taking  *)
(* the least number of rules after which they would not hold.              *)

\* Function f holds the decisions after the first k rules.
Evaluates(p, input, f, k) ==
  f = [n \in 0..k |-> IF n = 0 THEN NoDecision ELSE policyRule(p[n], input, f[n-1])]

\* The loop over the rules ends: decisions after the first k rules exist.
LEMMA EvaluationExists ==
  ASSUME NEW p, NEW input, NEW k \in Nat
  PROVE  \E f : Evaluates(p, input, f, k)
<1> DEFINE S == {n \in Nat : ~\E f : Evaluates(p, input, f, n)}
<1> SUFFICES ASSUME S # {} PROVE FALSE
  OBVIOUS
<1>1. PICK m \in S : \A n \in 0..(m-1) : n \notin S
  BY Least
<1>2. m # 0
  <2> DEFINE f == [n \in 0..0 |-> NoDecision]
  <2>1. Evaluates(p, input, f, 0)
    BY DEF Evaluates
  <2> QED
    BY <2>1
<1>3. PICK f : Evaluates(p, input, f, m-1)
  <2>1. m-1 \in 0..(m-1) /\ m-1 \in Nat
    BY <1>2
  <2> QED
    BY <1>1, <2>1
<1> DEFINE g == [n \in 0..m |-> IF n = m THEN policyRule(p[m], input, f[m-1]) ELSE f[n]]
<1>4. Evaluates(p, input, g, m)
  <2>1. \A n \in 0..m : n # m => n \in 0..(m-1) /\ g[n] = f[n]
    OBVIOUS
  <2>2. \A n \in 0..(m-1) : f[n] = IF n = 0 THEN NoDecision ELSE policyRule(p[n], input, f[n-1])
    BY <1>3 DEF Evaluates
  <2>3. \A n \in 0..m : g[n] = IF n = 0 THEN NoDecision ELSE policyRule(p[n], input, g[n-1])
    <3> TAKE n \in 0..m
    <3>1. CASE n = m
      <4>1. g[n] = policyRule(p[m], input, f[m-1])
        BY <3>1
      <4>2. g[m-1] = f[m-1]
        BY <1>2, <2>1
      <4> QED
        BY <1>2, <3>1, <4>1, <4>2
    <3>2. CASE n # m
      <4>1. g[n] = f[n] /\ (n # 0 => g[n-1] = f[n-1])
        BY <2>1, <3>2
      <4> HIDE DEF g
      <4> QED
        BY <2>1, <2>2, <3>2, <4>1
    <3> QED
      BY <3>1, <3>2
  <2>4. g = [n \in 0..m |-> g[n]]
    OBVIOUS
  <2> HIDE DEF g
  <2> QED
    BY <2>3, <2>4 DEF Evaluates
<1> QED
  BY <1>4

LEMMA EvaluationIs ==
  ASSUME NEW p, Len(p) \in Nat, NEW input
  PROVE  \A n \in 0..Len(p) : evaluation(p, input)[n] =
           IF n = 0 THEN NoDecision ELSE policyRule(p[n], input, evaluation(p, input)[n-1])
<1> DEFINE e == evaluation(p, input)
<1>1. e = CHOOSE f : Evaluates(p, input, f, Len(p))
  BY DEF evaluation, Evaluates
<1>2. Evaluates(p, input, e, Len(p))
  BY <1>1, EvaluationExists
<1> HIDE DEF e
<1> QED
  BY <1>2 DEF Evaluates, e

\* A policy decides one of the decisions there are, whatever its rules.
LEMMA EvaluationTyped ==
  ASSUME NEW p \in Seq(Rule), NEW input
  PROVE  EvaluateReleasePolicy(p, input) \in Decisions
<1> DEFINE e == evaluation(p, input)
           S == {n \in 0..Len(p) : e[n].decision \notin Decisions \cup {"none"}}
<1>1. S = {}
  <2> SUFFICES ASSUME S # {} PROVE FALSE
    OBVIOUS
  <2>0. S \in SUBSET Nat
    OBVIOUS
  <2> HIDE DEF S
  <2>1. PICK m \in S : \A k \in 0..(m-1) : k \notin S
    BY <2>0, Least
  <2> USE DEF S
  <2>2. e[m] = IF m = 0 THEN NoDecision ELSE policyRule(p[m], input, e[m-1])
    BY EvaluationIs
  <2>3. CASE m = 0
    BY <2>1, <2>2, <2>3 DEF NoDecision
  <2>4. CASE m # 0
    <3>1. p[m] \in Rule /\ e[m-1].decision \in Decisions \cup {"none"}
      BY <2>1, <2>4
    <3> HIDE DEF e
    <3>2. e[m].decision \in {p[m].decision, e[m-1].decision}
      BY <2>2, <2>4 DEF policyRule
    <3> QED
      BY <2>1, <3>1, <3>2 DEF Rule, e
  <2> QED
    BY <2>3, <2>4
<1>2. e[Len(p)].decision \in Decisions \cup {"none"}
  BY <1>1
<1> QED
  BY <1>2 DEF EvaluateReleasePolicy, Decisions

\* A rule that blocks and is reached is final: up to it nothing has stopped,
\* and after it nothing but a block replaces the block.
LEMMA BlockFinal ==
  ASSUME NEW p \in Seq(Rule), NEW input, NEW n \in 1..Len(p),
         input \in p[n].when, p[n].decision = "block",
         \A m \in 1..(n-1) : ~(input \in p[m].when /\ p[m].stop)
  PROVE  EvaluateReleasePolicy(p, input) = "block"
<1> DEFINE e == evaluation(p, input)
           Going == {k \in 0..(n-1) : e[k].stopped}
           Lifted == {k \in n..Len(p) : e[k].decision # "block"}
<1>0. \A k \in 0..Len(p) : e[k] = IF k = 0 THEN NoDecision ELSE policyRule(p[k], input, e[k-1])
  BY EvaluationIs
<1> HIDE DEF e
<1>1. Going = {}
  <2> SUFFICES ASSUME Going # {} PROVE FALSE
    OBVIOUS
  <2>0. Going \in SUBSET Nat
    OBVIOUS
  <2> HIDE DEF Going
  <2>1. PICK m \in Going : \A k \in 0..(m-1) : k \notin Going
    BY <2>0, Least
  <2> USE DEF Going
  <2>2. m # 0
    BY <1>0, <2>1 DEF NoDecision
  <2>3. ~e[m-1].stopped /\ e[m] = policyRule(p[m], input, e[m-1])
    BY <1>0, <2>1, <2>2
  <2>4. e[m] # e[m-1]
    BY <2>1, <2>3
  <2> QED
    BY <2>1, <2>2, <2>3, <2>4 DEF policyRule
<1>2. e[n].decision = "block"
  <2>1. ~e[n-1].stopped
    BY <1>1
  <2>2. e[n] = policyRule(p[n], input, e[n-1])
    BY <1>0
  <2> QED
    BY <2>1, <2>2 DEF policyRule
<1>3. Lifted = {}
  <2> SUFFICES ASSUME Lifted # {} PROVE FALSE
    OBVIOUS
  <2>0. Lifted \in SUBSET Nat
    OBVIOUS
  <2> HIDE DEF Lifted
  <2>1. PICK m \in Lifted : \A k \in 0..(m-1) : k \notin Lifted
    BY <2>0, Least
  <2> USE DEF Lifted
  <2>2. m # n
    BY <1>2, <2>1
  <2>3. e[m-1].decision = "block" /\ e[m] = policyRule(p[m], input, e[m-1])
    BY <1>0, <2>1, <2>2
  <2> QED
    BY <2>1, <2>3 DEF policyRule
<1>4. e[Len(p)].decision = "block"
  BY <1>3
<1> QED
  BY <1>4 DEF EvaluateReleasePolicy, e

\* The default policy lets a change of high risk that nothing blocks out by
\* way of a canary or of a person.
LEMMA HighRiskDefault ==
  ASSUME NEW input \in PolicyInput, ~input.invalid, ~input.blocking, input.risk >= High
  PROVE  EvaluateReleasePolicy(DefaultReleasePolicy, input) \in {"canary", "human_escalation"}
<1> DEFINE p == DefaultReleasePolicy
           e == evaluation(p, input)
<1>0. Len(p) = 5
  BY DEF DefaultReleasePolicy
<1>1. /\ e[0] = NoDecision /\ e[1] = policyRule(p[1], input, e[0])
      /\ e[2] = policyRule(p[2], input, e[1]) /\ e[3] = policyRule(p[3], input, e[2])
      /\ e[4] = policyRule(p[4], input, e[3]) /\ e[5] = policyRule(p[5], input, e[4])
  <2>1. \A n \in 0..5 : e[n] = IF n = 0 THEN NoDecision ELSE policyRule(p[n], input, e[n-1])
    <3> HIDE DEF p
    <3>1. Len(p) \in Nat
      BY <1>0
    <3>2. \A n \in 0..Len(p) : e[n] = IF n = 0 THEN NoDecision ELSE policyRule(p[n], input, e[n-1])
      BY <3>1, EvaluationIs
    <3> QED
      BY <1>0, <3>2
  <2> HIDE DEF p, e
  <2> QED
    BY <2>1
<1>2. /\ input \notin p[1].when /\ input \notin p[2].when /\ input \notin p[5].when
      /\ input \in p[3].when <=> input.canary
      /\ input \in p[4].when <=> ~input.canary
      /\ p[3].decision = "canary" /\ p[4].decision = "human_escalation"
      /\ p[3].stop /\ p[4].stop
  <2>1. input \in riskAtLeast(High) /\ input \in policyFact("no_policy_blockers")
    BY DEF riskAtLeast, policyFact
  <2>2. /\ input \notin policyFact("has_invalid_spec_or_manifest")
        /\ input \notin policyFact("has_blocking_findings")
        /\ input \in policyFact("canary_enabled") <=> input.canary
    BY DEF policyFact
  <2> QED
    BY <2>1, <2>2 DEF DefaultReleasePolicy, All, Not
<1> HIDE DEF p, e
<1>3. e[2] = NoDecision
  BY <1>1, <1>2 DEF policyRule
<1>4. CASE input.canary
  BY <1>0, <1>1, <1>2, <1>3, <1>4 DEF policyRule, NoDecision, EvaluateReleasePolicy, p, e
<1>5. CASE ~input.canary
  BY <1>0, <1>1, <1>2, <1>3, <1>5 DEF policyRule, NoDecision, EvaluateReleasePolicy, p, e
<1> QED
  BY <1>4, <1>5

-----------------------------------------------------------------------------
(* Types, and the decision as the policy's *)

ManifestFields ==
  {"present", "risk", "touched", "changed", "wellFormed", "canary", "effects", "rollback",
   "failing", "declared", "items"}

ManifestOK(m) ==
  /\ DOMAIN m = ManifestFields /\ m.risk \in Risks /\ m.canary \in BOOLEAN
  /\ \A a \in DOMAIN m.items : a \in Artifacts /\ m.items[a] \in Item

\* A decision other than an error is what the policy that was read decides.
DecidedInv ==
  gate.step = "done" /\ gate.decision # "error" =>
    /\ gate.policy \in ReleasePolicies
    /\ gate.decision = ApplyReleasePolicy(Rules(gate.policy))

\* TypeOK is not inductive: an edit of an artifact refers to what the
\* manifest lists, and a result to what was read of the manifest.
TypeInv ==
  /\ TypeOK /\ Specs # {}
  /\ DOMAIN gate = GateFields /\ gate.signed \in BOOLEAN
  /\ ManifestOK(manifest) /\ ManifestOK(gate.manifest)
  /\ gate.step \in {"manifest", "specs"} => gate.results = {} /\ gate.todo = {}
  /\ DecidedInv

\* The rules of a policy are rules.
LEMMA RulesTyped == \A p \in ReleasePolicies : Rules(p) \in Seq(Rule)
<1>1. DefaultReleasePolicy \in Seq(Rule)
  <2>1. \A name : policyFact(name) \in SUBSET PolicyInput
    BY DEF policyFact
  <2>2. \A S : All(S) \in SUBSET PolicyInput
    BY DEF All
  <2>3. \A w \in SUBSET PolicyInput, d \in Decisions :
          [when |-> w, decision |-> d, stop |-> TRUE] \in Rule
    BY DEF Rule
  <2> DEFINE p == DefaultReleasePolicy
  <2>4. \A n \in 1..5 : p[n] \in Rule
    <3>1. \A n \in 1..5 : n \in {1, 2, 3, 4, 5}
      OBVIOUS
    <3>2. p[1] \in Rule /\ p[2] \in Rule
      BY <2>1, <2>3 DEF DefaultReleasePolicy, Decisions
    <3>3. p[3] \in Rule /\ p[4] \in Rule /\ p[5] \in Rule
      BY <2>2, <2>3 DEF DefaultReleasePolicy, Decisions
    <3> QED
      BY <3>1, <3>2, <3>3
  <2>5. Len(DefaultReleasePolicy) = 5 /\ DOMAIN DefaultReleasePolicy = 1..5
    BY DEF DefaultReleasePolicy
  <2> QED
    BY <2>4, <2>5 DEF DefaultReleasePolicy
<1> QED
  BY <1>1, GateAssumption DEF Rules, ReleasePolicies

\* What the policy is asked about is an input of policies.
LEMMA InputTyped ==
  ASSUME ManifestOK(gate.manifest), gate.signed \in BOOLEAN
  PROVE  PolicyInputFromEvidence \in PolicyInput
<1>1. /\ HasInvalidSpecOrManifest(gate.manifest, gate.specs) \in BOOLEAN
      /\ HasBlockingFindings \in BOOLEAN
      /\ (\E r \in gate.results : ~r.valid) \in BOOLEAN
      /\ (MissingObligations # {}) \in BOOLEAN
  BY DEF HasInvalidSpecOrManifest, HasBlockingFindings
<1> QED
  BY <1>1 DEF PolicyInputFromEvidence, PolicyInput, ManifestOK

\* The decision is one of those there are.
LEMMA DecisionTyped == \A p \in ReleasePolicies : ApplyReleasePolicy(Rules(p)) \in Decisions
  BY RulesTyped, EvaluationTyped DEF ApplyReleasePolicy, enforcePolicyFloor, Decisions

\* The decision depends on what was read only.
LEMMA SameDecision ==
  ASSUME gate'.manifest = gate.manifest, gate'.specs = gate.specs,
         gate'.results = gate.results, gate'.signed = gate.signed
  PROVE  /\ PolicyInputFromEvidence' = PolicyInputFromEvidence
         /\ \A p : ApplyReleasePolicy(p)' = ApplyReleasePolicy(p)
<1>1. HasBlockingFindings' <=> HasBlockingFindings
  BY SameFindings
<1>2. MissingObligations' = MissingObligations
  BY DEF MissingObligations, obligationCovered, Linked
<1>3. PolicyInputFromEvidence' = PolicyInputFromEvidence
  BY <1>1, <1>2 DEF PolicyInputFromEvidence
<1> QED
  BY <1>3 DEF ApplyReleasePolicy

\* Every spec leaves an obligation for each kind of evidence to meet.
LEMMA SomethingToSatisfy ==
  ASSUME NEW a \in Artifacts, Specs # {}
  PROVE  \E o \in Obligation : Satisfies(a, o)
<1>1. PICK s : s \in Specs
  OBVIOUS
<1>2. PICK k \in Kinds : KindOf[a] \in {"verifier_output", requiredEvidence[k]}
  <2>1. KindOf[a] \in EvidenceKinds
    BY GateAssumption
  <2>2. "behavior" \in Kinds
    BY DEF Kinds
  <2> QED
    BY <2>1, <2>2 DEF EvidenceKinds
<1>3. [spec |-> s, kind |-> k] \in Obligation /\ Satisfies(a, [spec |-> s, kind |-> k])
  BY <1>1, <1>2 DEF Obligation, Satisfies
<1> QED
  BY <1>3

\* What an artifact may be edited to is content.
LEMMA ContentEditsTyped ==
  ASSUME ManifestOK(manifest), Specs # {}, NEW a \in Artifacts, NEW c \in ContentEdits(a)
  PROVE  c \in Content
<1> DEFINE whole == {o \in Obligation : Satisfies(a, o)}
           one == CHOOSE o \in whole : TRUE
<1>1. whole \in SUBSET Obligation /\ one \in Obligation
  BY SomethingToSatisfy
<1>2. \A x \in {a} \cap DOMAIN manifest.items : manifest.items[a].obligations \in SUBSET Obligation
  BY DEF ManifestOK, Item
<1> HIDE DEF one
<1>3. CASE c \in {[form |-> f, refs |-> {}, bad |-> {}] : f \in {"missing", "empty", "garbled"}}
  BY <1>3 DEF Content
<1>4. CASE c \in [form : IF KindOf[a] = "security_check" THEN {"report", "sarif"} ELSE {"report"},
                  refs : {whole} \cup {manifest.items[a].obligations :
                                         x \in {a} \cap DOMAIN manifest.items},
                  bad : {{}, {one}}]
  <2>1. c.refs \in SUBSET Obligation /\ c.bad \in SUBSET Obligation /\ c.form \in {"report", "sarif"}
    BY <1>1, <1>2, <1>4
  <2>2. c = [form |-> c.form, refs |-> c.refs, bad |-> c.bad]
    BY <1>4
  <2> QED
    BY <2>1, <2>2 DEF Content
<1> QED
  BY <1>3, <1>4 DEF ContentEdits, one

\* What an item of the manifest may be edited to is an item.
LEMMA ItemEditsTyped ==
  ASSUME ManifestOK(manifest), NEW a \in DOMAIN manifest.items, content \in [Artifacts -> Content],
         NEW i \in ItemEdits(a)
  PROVE  i \in Item
<1>1. manifest.items[a] \in Item /\ content[a] \in Content
  BY DEF ManifestOK
<1> QED
  BY <1>1 DEF ItemEdits, Item

\* What is read of an artifact covers obligations.
LEMMA LinkTyped ==
  ASSUME ManifestOK(gate.manifest), NEW a \in DOMAIN gate.manifest.items,
         content \in [Artifacts -> Content]
  PROVE  Link(a).covered \subseteq Obligation /\ Link(a).kind \in EvidenceKinds
<1> DEFINE item == gate.manifest.items[a]
           plan == Plan(gate.manifest, gate.specs)
           import == Import(a, content[a], item.obligations, plan)
<1>1. a \in Artifacts /\ item \in Item /\ content[a] \in Content
  BY DEF ManifestOK
<1>2. item.obligations \subseteq Obligation /\ content[a].refs \subseteq Obligation
  BY <1>1 DEF Item, Content
<1>3. import.covered \subseteq Obligation
  BY <1>2 DEF Import, importJUnitEvidence, importGenericEvidence, importSARIFEvidence,
              importVerifierOutput
<1>4. Link(a).covered = import.covered /\ Link(a).kind = KindOf[a]
  BY DEF Link
<1> QED
  BY <1>1, <1>3, <1>4, GateAssumption

\* The manifest that is written for no change is one.
LEMMA NoManifestOK == ManifestOK(NoManifest)
  BY EmptyItems DEF ManifestOK, NoManifest, ManifestFields, Risks

LEMMA TypeInit == Init => TypeInv
<1> SUFFICES ASSUME Init PROVE TypeInv
  OBVIOUS
<1>1. PICK t \in Changes, artifacts \in BOOLEAN, s \in AllowedSigners :
        LET said == [a \in Artifacts |->
                       IF KindOf[a] = "verifier_output"
                       THEN [form |-> "report", refs |-> {o \in Obligation : o.spec \in t},
                             bad |-> {}]
                       ELSE WholeContent(a)]
        IN  /\ manifest = [NoManifest EXCEPT
                 !.present = TRUE, !.risk = maxSpecRisk(t), !.touched = t, !.canary = TRUE,
                 !.changed = {f \in Files : OwnersForFile(specs, f) # {} /\ OwnersForFile(specs, f) \subseteq t},
                 !.rollback = "strategy",
                 !.declared = {o \in Obligation : o.spec \in t /\ o.kind # "rollback"},
                 !.items = IF artifacts THEN [a \in Artifacts |-> WholeItem(t, a, said[a], s)]
                           ELSE <<>>]
            /\ content = said /\ DOMAIN bundle = Artifacts /\ DOMAIN signature = Artifacts
  BY DEF Init
<1>2. content \in [Artifacts -> Content]
  <2>1. \A S \in SUBSET Obligation : [form |-> "report", refs |-> S, bad |-> {}] \in Content
    BY DEF Content
  <2>2. \A a : WholeContent(a) \in Content
    BY <2>1 DEF WholeContent
  <2>3. {o \in Obligation : o.spec \in t} \in SUBSET Obligation
    OBVIOUS
  <2> QED
    BY <1>1, <2>1, <2>2, <2>3
<1>3. \A a \in Artifacts : WholeItem(t, a, content[a], s) \in Item
  BY <1>2, GateAssumption DEF WholeItem, Item
<1>4. ManifestOK(manifest)
  <2>1. DOMAIN manifest = ManifestFields /\ manifest.risk = maxSpecRisk(t) /\ manifest.canary = TRUE
    BY <1>1 DEF NoManifest, ManifestFields
  <2>2. manifest.items = IF artifacts THEN [a \in Artifacts |-> WholeItem(t, a, content[a], s)]
                         ELSE <<>>
    BY <1>1 DEF NoManifest
  <2>3. maxSpecRisk(t) \in Risks
    BY MaxRisk, GateAssumption
  <2> QED
    BY <1>3, <2>1, <2>2, <2>3, EmptyItems DEF ManifestOK
<1>5. /\ policy = "default" /\ gate = NoRun /\ edits = 0 /\ specs = [x \in Specs |-> Kinds]
      /\ rewritten = FALSE /\ Specs # {}
  BY <1>1, GateAssumption DEF Init
<1>6. /\ DOMAIN gate = GateFields /\ gate.step = "idle" /\ gate.decision = "none"
      /\ gate.todo = {} /\ gate.results = {} /\ gate.linking = {}
      /\ gate.signed = FALSE /\ gate.manifest = NoManifest
  BY <1>5 DEF NoRun, GateFields
<1>7. TypeOK
  <2>1. specs \in [Specs -> SUBSET Kinds] /\ edits \in 0..MaxEdits
    BY <1>5, GateAssumption
  <2>2. policy \in ReleasePolicies
    BY <1>5 DEF ReleasePolicies
  <2>3. \A a \in DOMAIN manifest.items : a \in Artifacts /\ manifest.items[a] \in Item
    BY <1>4 DEF ManifestOK
  <2> QED
    BY <1>1, <1>2, <1>5, <1>6, <2>1, <2>2, <2>3 DEF TypeOK
<1> QED
  BY <1>4, <1>5, <1>6, <1>7, NoManifestOK DEF TypeInv, DecidedInv


\* An edit leaves a manifest a manifest, an artifact an artifact and a policy
\* a policy.
LEMMA EditTyped == ASSUME TypeInv, Edit PROVE TypeInv'
<1>1. gate' = gate /\ edits' \in 0..MaxEdits
  BY GateAssumption DEF Edit, TypeInv, TypeOK
<1>2. ManifestOK(manifest)'
  <2>1. CASE manifest' = manifest
    BY <2>1 DEF TypeInv, ManifestOK
  <2>2. CASE manifest' = NoManifest
    BY <2>2, NoManifestOK DEF ManifestOK
  <2>3. CASE manifest' \in ManifestEdits
    <3>1. /\ DOMAIN manifest' = ManifestFields
          /\ manifest'.items = manifest.items \/ manifest'.items = <<>>
      BY <2>3 DEF ManifestEdits, TypeInv, ManifestOK, ManifestFields
    <3>2. manifest'.risk \in Risks /\ manifest'.canary \in BOOLEAN
      BY <2>3 DEF ManifestEdits, TypeInv, ManifestOK, ManifestFields, Risks
    <3> QED
      BY <3>1, <3>2, EmptyItems DEF TypeInv, ManifestOK
  <2>4. CASE \E a \in DOMAIN manifest.items : \E i \in ItemEdits(a) :
               manifest' = [manifest EXCEPT !.items[a] = i]
    <3>1. PICK a \in DOMAIN manifest.items : \E i \in ItemEdits(a) :
                 manifest' = [manifest EXCEPT !.items[a] = i]
      BY <2>4
    <3>2. PICK i \in ItemEdits(a) : manifest' = [manifest EXCEPT !.items[a] = i]
      BY <3>1
    <3>3. i \in Item
      BY ItemEditsTyped DEF TypeInv, TypeOK
    <3>4. /\ DOMAIN manifest' = ManifestFields /\ manifest'.risk = manifest.risk
          /\ manifest'.canary = manifest.canary
          /\ manifest'.items = [manifest.items EXCEPT ![a] = i]
      BY <3>2 DEF TypeInv, ManifestOK, ManifestFields
    <3> QED
      BY <3>3, <3>4 DEF TypeInv, ManifestOK
  <2> QED
    BY <2>1, <2>2, <2>3, <2>4 DEF Edit, EditManifest, EditContent, EditBundle, LoseSignature, Sign,
                                  EditSpecs, EditPolicy
<1>3. content' \in [Artifacts -> Content]
  <2>1. CASE content' = content
    BY <2>1 DEF TypeInv, TypeOK
  <2>2. CASE \E a \in Artifacts : \E c \in ContentEdits(a) : content' = [content EXCEPT ![a] = c]
    BY <2>2, ContentEditsTyped DEF TypeInv, TypeOK
  <2> QED
    BY <2>1, <2>2, GateAssumption DEF Edit, EditManifest, EditContent, EditBundle, LoseSignature,
                                      Sign, EditSpecs, EditPolicy
<1>4. DOMAIN bundle' = Artifacts /\ DOMAIN signature' = Artifacts /\ rewritten' \in BOOLEAN
  <2>1. rewritten' \in BOOLEAN
    BY DEF Edit, TypeInv, TypeOK
  <2> QED
    BY <2>1 DEF Edit, EditManifest, EditContent, EditBundle, LoseSignature, Sign, EditSpecs,
                EditPolicy, TypeInv, TypeOK
<1>5. specs' \in [Specs -> SUBSET Kinds] /\ policy' \in ReleasePolicies \cup {"none"}
  <2>1. \A k \in {{}, Kinds, Kinds \ {"rollback"}} : k \in SUBSET Kinds
    OBVIOUS
  <2> QED
    BY <2>1 DEF Edit, EditManifest, EditContent, EditBundle, LoseSignature, Sign, EditSpecs,
                EditPolicy, TypeInv, TypeOK
<1>6. TypeOK'
  BY <1>1, <1>2, <1>3, <1>4, <1>5 DEF TypeInv, TypeOK, ManifestOK
<1>7. DecidedInv'
  BY <1>1, SameDecision DEF TypeInv, DecidedInv
<1> QED
  BY <1>1, <1>2, <1>6, <1>7 DEF TypeInv, ManifestOK

\* Steps of the gate leave the repository alone: what they must keep is the
\* part of the invariant that is about the run.
LEMMA StepTyped ==
  ASSUME TypeInv, GateInv,
         \/ gateCommand \/ LoadManifest \/ LoadSpecs \/ CollectEvidenceFromEvidenceManifest
         \/ LinkEvidenceArtifact \/ verifySignedEvidenceBundle \/ verifySignature
         \/ LinkEvidenceArtifacts \/ LoadReleasePolicy
         \/ GateFails \/ collectAndRender
  PROVE  TypeInv'
<1> DEFINE Run(g) ==
      /\ DOMAIN g = GateFields /\ g.signed \in BOOLEAN /\ ManifestOK(g.manifest)
      /\ g.step \in {"idle", "manifest", "specs", "link", "bundle", "cosign", "policy", "done"}
      /\ g.decision \in Decisions \cup {"none", "error"}
      /\ g.step = "done" <=> g.decision # "none"
      /\ g.todo \subseteq DOMAIN g.manifest.items
      /\ g.linking # {} <=> g.step \in {"bundle", "cosign"}
      /\ \A r \in g.linking \cup g.results : r.covered \subseteq Obligation /\ r.kind \in EvidenceKinds
      /\ g.step \in {"manifest", "specs"} => g.results = {} /\ g.todo = {}
<1>1. UNCHANGED <<repository, edits>> /\ rewritten' \in BOOLEAN
  <2>1. rewritten' \in {FALSE, rewritten}
    BY DEF gateCommand, LoadManifest, LoadSpecs, CollectEvidenceFromEvidenceManifest,
           LinkEvidenceArtifact, verifySignedEvidenceBundle, verifySignature,
           LinkEvidenceArtifacts, LoadReleasePolicy, GateFails, collectAndRender
  <2> QED
    BY <2>1 DEF TypeInv, TypeOK, gateCommand, LoadManifest, LoadSpecs,
                CollectEvidenceFromEvidenceManifest, LinkEvidenceArtifact,
                verifySignedEvidenceBundle, verifySignature, LinkEvidenceArtifacts,
                LoadReleasePolicy, GateFails, collectAndRender
<1>2. Run(gate)
  BY DEF TypeInv, TypeOK
<1>3. SUFFICES Run(gate') /\ DecidedInv'
  <2> HIDE DEF Run
  <2>1. ASSUME Run(gate'), DecidedInv' PROVE TypeInv'
    <3>1. TypeOK'
      BY <1>1, <2>1 DEF TypeInv, TypeOK, repository, Run
    <3>2. ManifestOK(manifest)' /\ ManifestOK(gate.manifest)'
      BY <1>1, <2>1 DEF TypeInv, ManifestOK, repository, Run
    <3> QED
      BY <2>1, <3>1, <3>2 DEF TypeInv, Run
  <2> QED
    BY <2>1
<1>4. CASE gateCommand
  <2>1. PICK signed \in BOOLEAN : gate' = [NoRun EXCEPT !.step = "manifest", !.signed = signed]
    BY <1>4 DEF gateCommand
  <2>2. /\ DOMAIN gate' = GateFields /\ gate'.signed \in BOOLEAN /\ gate'.manifest = NoManifest
        /\ gate'.step = "manifest" /\ gate'.decision = "none" /\ gate'.todo = {} /\ gate'.results = {}
        /\ gate'.linking = {}
    BY <2>1 DEF NoRun, GateFields
  <2> QED
    BY <2>2, NoManifestOK DEF DecidedInv
<1>5. CASE collectAndRender
  <2>1. /\ DOMAIN gate' = GateFields /\ gate'.signed = FALSE /\ gate'.manifest = NoManifest
        /\ gate'.step = "idle" /\ gate'.decision = "none" /\ gate'.todo = {} /\ gate'.results = {}
        /\ gate'.linking = {}
    BY <1>5 DEF collectAndRender, NoRun, GateFields
  <2> QED
    BY <2>1, NoManifestOK DEF DecidedInv
<1>6. CASE LoadManifest
  <2>1. /\ DOMAIN gate' = GateFields /\ gate'.signed = gate.signed /\ gate'.manifest = manifest
        /\ gate'.step = "specs" /\ gate'.decision = gate.decision /\ gate'.todo = gate.todo
        /\ gate'.results = {} /\ gate'.linking = gate.linking /\ gate.step = "manifest"
    BY <1>2, <1>6 DEF LoadManifest, GateFields
  <2> QED
    BY <1>2, <2>1 DEF TypeInv, DecidedInv
<1>7. CASE LoadSpecs
  <2>1. /\ DOMAIN gate' = GateFields /\ gate'.signed = gate.signed /\ gate'.manifest = gate.manifest
        /\ gate'.step = "link" /\ gate'.decision = gate.decision
        /\ gate'.todo = DOMAIN gate.manifest.items
        /\ gate'.results = gate.results /\ gate'.linking = gate.linking /\ gate.step = "specs"
    BY <1>2, <1>7 DEF LoadSpecs, GateFields
  <2> QED
    BY <1>2, <2>1 DEF DecidedInv
<1>8. CASE CollectEvidenceFromEvidenceManifest
  <2>1. PICK failed \in BOOLEAN, tests \in SUBSET {o \in Obligation : o.kind = "required_test"} :
          LET risk == maxSpecRisk(Present(specs)) IN
          gate' = [gate EXCEPT
            !.step = "policy", !.specs = specs,
            !.manifest = [NoManifest EXCEPT
               !.risk = risk, !.touched = Present(specs), !.canary = risk >= High,
               !.rollback = rollbackForSpecs(specs)],
            !.results = {EvidenceManifest(tests, failed)}]
    BY <1>8 DEF CollectEvidenceFromEvidenceManifest
  <2>2. maxSpecRisk(Present(specs)) \in Risks
    BY <1>8, MaxRisk DEF CollectEvidenceFromEvidenceManifest, Present
  <2>3. ManifestOK(gate'.manifest)
    <3>1. DOMAIN gate'.manifest = ManifestFields /\ gate'.manifest.items = <<>>
      BY <1>2, <2>1 DEF GateFields, NoManifest, ManifestFields
    <3>2. /\ gate'.manifest.risk = maxSpecRisk(Present(specs))
          /\ gate'.manifest.canary = (maxSpecRisk(Present(specs)) >= High)
      BY <1>2, <2>1 DEF GateFields, NoManifest
    <3>3. (maxSpecRisk(Present(specs)) >= High) \in BOOLEAN
      BY <2>2 DEF Risks, High, Low, Medium, Critical
    <3>4. gate'.manifest.risk \in Risks /\ gate'.manifest.canary \in BOOLEAN
      BY <2>2, <3>2, <3>3
    <3> QED
      BY <3>1, <3>4, EmptyItems DEF ManifestOK
  <2>4. /\ DOMAIN gate' = GateFields /\ gate'.signed = gate.signed /\ gate'.step = "policy"
        /\ gate'.decision = gate.decision /\ gate'.todo = gate.todo /\ gate.step = "manifest"
        /\ gate'.results = {EvidenceManifest(tests, failed)} /\ gate'.linking = gate.linking
    BY <1>2, <1>8, <2>1 DEF GateFields, CollectEvidenceFromEvidenceManifest
  <2>5. /\ EvidenceManifest(tests, failed).covered \subseteq Obligation
        /\ EvidenceManifest(tests, failed).kind \in EvidenceKinds
    BY DEF EvidenceManifest, EvidenceKinds, requiredEvidence, Kinds
  <2>6. gate.todo = {}
    BY <1>2, <2>4
  <2> QED
    BY <1>2, <2>3, <2>4, <2>5, <2>6 DEF DecidedInv
<1>9. CASE LinkEvidenceArtifact
  <2> DEFINE open(a) == gate.signed /\ content[a].form \notin {"missing", "empty"}
  <2>1. PICK a \in gate.todo :
          gate' = IF open(a)
                  THEN [[gate EXCEPT !.todo = @ \ {a}] EXCEPT !.linking = {Link(a)}, !.step = "bundle"]
                  ELSE [[gate EXCEPT !.todo = @ \ {a}] EXCEPT !.results = @ \cup {Link(a)}]
    BY <1>9 DEF LinkEvidenceArtifact
  <2>2. gate.step = "link"
    BY <1>9 DEF LinkEvidenceArtifact
  <2> HIDE DEF open
  <2>3. /\ DOMAIN gate' = GateFields /\ gate'.signed = gate.signed /\ gate'.manifest = gate.manifest
        /\ gate'.decision = gate.decision /\ gate'.todo = gate.todo \ {a}
        /\ \/ /\ gate'.step = "bundle" /\ gate'.linking = {Link(a)} /\ gate'.results = gate.results
           \/ /\ gate'.step = "link" /\ gate'.linking = gate.linking
              /\ gate'.results = gate.results \cup {Link(a)}
    BY <1>2, <2>1, <2>2 DEF GateFields
  <2>4. Link(a).covered \subseteq Obligation /\ Link(a).kind \in EvidenceKinds
    BY <1>2, LinkTyped DEF TypeInv, TypeOK
  <2> QED
    BY <1>2, <2>2, <2>3, <2>4 DEF DecidedInv
<1>12. CASE verifySignedEvidenceBundle \/ verifySignature
  <2>1. gate.step \in {"bundle", "cosign"}
    BY <1>12 DEF verifySignedEvidenceBundle, verifySignature
  <2>2. PICK r : gate.linking = {r} /\ DOMAIN r = ResultFields
    BY <2>1 DEF GateInv, LinkingInv
  <2>3. r.covered \subseteq Obligation /\ r.kind \in EvidenceKinds
    BY <1>2, <2>2
  <2> DEFINE Same(x) == x.covered = r.covered /\ x.kind = r.kind
  <2>4. /\ \A v : Same([r EXCEPT !.valid = v]) /\ Same([r EXCEPT !.bundle = v])
        /\ \A v, w : Same([r EXCEPT !.signature = v, !.rewritten = w])
    BY <2>2 DEF ResultFields
  <2> HIDE DEF Same
  <2>5. \E x : /\ Same(x)
               /\ \/ gate' = [gate EXCEPT !.linking = {x}, !.step = "cosign"]
                  \/ gate' = FinishLinking(x)
    <3>1. CASE verifySignedEvidenceBundle
      BY <2>2, <2>4, <3>1, LinkingIs DEF verifySignedEvidenceBundle
    <3>2. CASE verifySignature
      BY <2>2, <2>4, <3>2, LinkingIs DEF verifySignature
    <3> QED
      BY <1>12, <3>1, <3>2
  <2>6. PICK x : /\ Same(x)
                 /\ \/ gate' = [gate EXCEPT !.linking = {x}, !.step = "cosign"]
                    \/ gate' = FinishLinking(x)
    BY <2>5
  <2>7. /\ DOMAIN gate' = GateFields /\ gate'.signed = gate.signed /\ gate'.manifest = gate.manifest
        /\ gate'.decision = gate.decision /\ gate'.todo = gate.todo
        /\ \/ /\ gate'.step = "cosign" /\ gate'.linking = {x} /\ gate'.results = gate.results
           \/ /\ gate'.step = "link" /\ gate'.linking = {} /\ gate'.results = gate.results \cup {x}
    BY <1>2, <2>6 DEF FinishLinking, GateFields
  <2>8. x.covered \subseteq Obligation /\ x.kind \in EvidenceKinds
    BY <2>3, <2>6 DEF Same
  <2> QED
    BY <1>2, <2>1, <2>7, <2>8 DEF DecidedInv
<1>10. CASE LinkEvidenceArtifacts \/ GateFails
  <2>1. /\ DOMAIN gate' = GateFields /\ gate'.signed = gate.signed /\ gate'.manifest = gate.manifest
        /\ gate'.todo = gate.todo /\ gate'.results = gate.results /\ gate'.linking = gate.linking
        /\ \/ gate'.step = "policy" /\ gate.step = "link" /\ gate'.decision = gate.decision
           \/ /\ gate'.step = "done" /\ gate'.decision = "error"
              /\ gate.step \in {"manifest", "policy"}
    <3>1. CASE LinkEvidenceArtifacts
      BY <1>2, <3>1 DEF LinkEvidenceArtifacts, GateFields
    <3>2. CASE GateFails
      BY <1>2, <3>2 DEF GateFails, GateFields
    <3> QED
      BY <1>10, <3>1, <3>2
  <2> QED
    BY <1>2, <2>1 DEF DecidedInv
<1>11. CASE LoadReleasePolicy
  <2>1. /\ DOMAIN gate' = GateFields /\ gate'.signed = gate.signed /\ gate'.manifest = gate.manifest
        /\ gate'.todo = gate.todo /\ gate'.results = gate.results /\ gate'.specs = gate.specs
        /\ gate'.linking = gate.linking /\ gate.step = "policy"
        /\ gate'.step = "done" /\ gate'.policy = policy
        /\ gate'.decision = ApplyReleasePolicy(Rules(policy))
    BY <1>2, <1>11 DEF LoadReleasePolicy, GateFields
  <2>2. policy \in ReleasePolicies
    BY <1>11 DEF LoadReleasePolicy, TypeInv, TypeOK
  <2>3. gate'.decision \in Decisions
    BY <2>1, <2>2, DecisionTyped
  <2>4. DecidedInv'
    BY <2>1, <2>2, SameDecision DEF DecidedInv
  <2> QED
    BY <1>2, <2>1, <2>3, <2>4 DEF Decisions
<1> QED
  BY <1>4, <1>5, <1>6, <1>7, <1>8, <1>9, <1>10, <1>11, <1>12

\* Every variable stays in its type, and a decision is that of the policy that
\* was read, on what was read.
THEOREM TypeCorrect == Spec => []TypeInv
<1>1. TypeInv /\ UNCHANGED vars => TypeInv'
  <2> SUFFICES ASSUME TypeInv, UNCHANGED vars PROVE TypeInv'
    OBVIOUS
  <2>1. TypeOK' /\ ManifestOK(manifest)' /\ ManifestOK(gate.manifest)'
    BY DEF TypeInv, TypeOK, ManifestOK, vars, repository
  <2>2. DecidedInv'
    BY SameDecision DEF TypeInv, DecidedInv, vars
  <2> QED
    BY <2>1, <2>2 DEF TypeInv, vars
<1>2. TypeInv /\ GateInv /\ [Next]_vars => TypeInv'
  BY <1>1, EditTyped, StepTyped DEF Next
<1> QED
  BY TypeInit, <1>2, GateCorrect, PTL DEF Spec

\* What is let through is justified by what was read: ReleaseIsJustified, the
\* types included, for every policy and all edits.
THEOREM JustifiedCorrect == Spec => []ReleaseIsJustified
<1>1. TypeInv => TypeOK
  BY DEF TypeInv
<1> QED
  BY <1>1, TypeCorrect, ReleaseJustified, PTL DEF ReleaseIsJustified

\* Rules of a policy never loosen what the risk or an earlier rule demands,
\* for every list of rules a policy may have.
THEOREM PolicyCorrect == Spec => []PolicyNeverLoosens
<1>1. TypeInv /\ GateInv => HighRiskNeverAutoMerges
  <2> SUFFICES ASSUME TypeInv, GateInv, Released, gate.policy = "default",
                      NEW s \in gate.manifest.touched, SpecRisk[s] >= High
               PROVE  gate.decision \in {"canary", "human_escalation"}
    BY DEF HighRiskNeverAutoMerges
  <2> DEFINE input == PolicyInputFromEvidence
  <2>1. ~HasBlockingFindings
    BY DEF GateInv, JudgedInv
  <2>2. ~HasInvalidSpecOrManifest(gate.manifest, gate.specs)
    BY <2>1 DEF HasBlockingFindings
  <2>3. gate.manifest.risk >= High
    <3>1. s \in Specs /\ gate.manifest.risk >= SpecRisk[s]
      BY <2>2 DEF HasInvalidSpecOrManifest, ValidateManifest, Present
    <3>2. SpecRisk[s] \in Risks /\ gate.manifest.risk \in Risks
      BY <3>1, GateAssumption DEF TypeInv, ManifestOK
    <3> QED
      BY <3>1, <3>2 DEF Risks, Low, Medium, High, Critical
  <2>4. /\ input \in PolicyInput /\ ~input.invalid /\ ~input.blocking /\ input.risk >= High
    BY <2>1, <2>2, <2>3, InputTyped DEF TypeInv, PolicyInputFromEvidence
  <2>5. gate.decision = ApplyReleasePolicy(Rules("default"))
    BY DEF TypeInv, DecidedInv, Released, Decisions
  <2>6. gate.decision = EvaluateReleasePolicy(DefaultReleasePolicy, input)
    BY <2>4, <2>5 DEF ApplyReleasePolicy, enforcePolicyFloor, Rules
  <2> HIDE DEF input
  <2> QED
    BY <2>4, <2>6, HighRiskDefault
<1>2. TypeInv => BlockSticks
  <2> DEFINE p == Rules(gate.policy)
             input == PolicyInputFromEvidence
  <2> SUFFICES ASSUME TypeInv, gate.step = "done", gate.decision # "error",
                      NEW n \in 1..Len(p), input \in p[n].when, p[n].decision = "block",
                      \A m \in 1..(n-1) : ~(input \in p[m].when /\ p[m].stop)
               PROVE  gate.decision = "block"
    BY DEF BlockSticks
  <2>1. p \in Seq(Rule) /\ gate.decision = ApplyReleasePolicy(p)
    BY RulesTyped DEF TypeInv, DecidedInv
  <2>2. gate.decision \in {"block", EvaluateReleasePolicy(p, input)}
    BY <2>1 DEF ApplyReleasePolicy, enforcePolicyFloor
  <2> HIDE DEF p, input
  <2> QED
    BY <2>1, <2>2, BlockFinal
<1> QED
  BY <1>1, <1>2, TypeCorrect, GateCorrect, PTL DEF PolicyNeverLoosens

=============================================================================
