SPECIFICATION Spec
CONSTANTS
  Hosts = {h1, h2}
  MaxVersion = 2
  Faults = TRUE
  NoHost = NoHost
  TlsYml = TlsYml
  Nothing = Nothing
SYMMETRY Symmetry
INVARIANTS TypeOK IndexNeverDangles RenderExact ChangeIsReported
PROPERTIES RenderNeverSpoils IdenticalRenderIsQuiet IsServing
