SPECIFICATION Spec
CONSTANTS
  Specs = {"auth", "ui"}
  Files = {"login.go", "page.go", "style.css", "notes.txt"}
  OwnedPaths <- MCOwnedPaths
  SpecRisk <- MCSpecRisk
  Artifacts = {"trace", "scan", "junit", "metrics", "undo", "judge"}
  KindOf <- MCKindOf
  Signers = {"ci", "laptop"}
  AllowedSigners = {"ci"}
  Volatile = {"scan", "junit", "judge"}
  Reworked = {"scan"}
  Changes = {{"ui"}, {"auth", "ui"}}
  OtherPolicies <- MCOtherPolicies
  MaxEdits = 2
INVARIANTS
  ReleaseIsJustified
  SignedMeansSigned
  PolicyNeverLoosens
