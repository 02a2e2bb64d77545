SPECIFICATION Spec
CONSTANTS
  l1 = l1
  l2 = l2
  g = g
  h = h
  tool = tool
  native = native
  c1 = c1
  x1 = x1
  None = None
  Unseen = Unseen
  AnyTool = AnyTool
  MaxName = 3
  Packages <- FourPackages
  DirOf <- FourDirs
  NameOf <- FourNames
  ToolsOf <- FourTools
  ManifestOf <- FourManifests
  Linked <- TwoLinked
  Tools <- TwoTools
  Native <- OneNative
  Matches <- Fits
  Scanned <- OneNative
  Calls <- OneCall
  ToolOf <- OneToolOf
  Terminals <- OneTerminal
PROPERTY VersionPinned
