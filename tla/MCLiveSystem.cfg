SPECIFICATION Spec
CONSTANTS
  s1 = s1
  s2 = s2
  editor = editor
  shell = shell
  editor1 = editor1
  editor2 = editor2
  shell1 = shell1
  Supervisors = {s1, s2}
  Packages = {editor, shell}
  Digests = {editor1, editor2, shell1}
  NoDigest = NoDigest
  Nobody = Nobody
  Manifest <- MCManifest
  Services = {1}
  Bearers = {b1}
  MaxRevision = 3
  MaxGeneration = 3
  MaxPackages = 2
  MaxServices = 2
SYMMETRY MCSymmetry
INVARIANTS ViewIsTheFile BearersAreCurrent AckedIsDurable
PROPERTIES GenerationsRotate IsARegister
