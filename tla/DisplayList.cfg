\* Lists of packets, loads, modes, lights and matrices.  A list ends.
SPECIFICATION AllSpec
CONSTANTS
  Arguments <- MCArguments
  Positions <- MCPositions
  Steps <- MCSteps
  Quads <- MCQuads
  FogBands <- MCFogBands
  Shapes <- MCShapes
  Loads <- MCLoads
  MaxLoads = 3
  RenderModes <- MCRenderModes
  Presets <- MCPresets
  GeometryFlags = {"CULL_BACK", "LIGHTING"}
  Lists <- MCLists
  LightSets <- MCLightSets
  LookAts <- MCLookAts
  LightColors <- MCLightColors
  Matrices <- MCMatrices
  LightCalls = 3
  MatrixCalls = 4
INVARIANTS
  OpcodeKept FieldsKept QuadsKeepTheirOutline ClippedRectKeepsTexels FogThickens
  TexelsInPlace PalettesApart
  LayersKeepDepth BlendedIsRead
  LightsAsWanted MatricesAsWanted
PROPERTY ImplementsRenderState
CHECK_DEADLOCK FALSE
