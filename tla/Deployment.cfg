\* Versions 1 and 3 have certificates, 2 has none: a gateway may be overtaken
\* by either.
SPECIFICATION DeploymentFairSpec
CONSTANTS
  MaxVersion = 3
  EmptyVersions = {2}
  BadVersions = {}
  MaxTime = 1
  Env = {"fault"}
  Here = here
  Others = {other}
INVARIANTS DeploymentTypeOK NeverBackward
PROPERTIES IsSystem Converges
