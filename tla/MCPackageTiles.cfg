CONSTANTS
  p = p
  q = q
  v1 = v1
  v2 = v2
  Packages <- TwoPackages
  Versions <- TwoVersions
  Tiles <- TilesToZoom2
  Contents <- TwoContents
  Clips <- ThreeClips
  DEFAULT_TILEMASK_ZOOMLEVEL = 1
  MAX_SUPPORTED_ZOOM_LEVEL = 3
  MAX_OPEN_PACKAGES = 2
SPECIFICATION Spec
INVARIANTS
  MasksAreTrue
  TilesAreFound
PROPERTIES
  ReadsLocalPackages
SYMMETRY VersionSymmetry
