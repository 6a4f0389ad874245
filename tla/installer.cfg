\* Two accounts installing and upgrading three names, two of which collide.
SPECIFICATION Spec
CONSTANTS
  Account = {alice, bob}
  Name <- Names
  MaxContracts = 5
SYMMETRY AccountSymmetry
VIEW State
INVARIANTS TypeOK OneVersionEnabled StorageFollowsPackage NamedContractAnswers DeployableUnlessShadowed
PROPERTIES NameKeepsToken
