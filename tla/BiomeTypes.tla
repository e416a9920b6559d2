----------------------------- MODULE BiomeTypes ------------------------------
(***************************************************************************)
(* The types of codec/types/biome.py: what BiomeDefinitionList carries for *)
(* each biome.  v924 added the village type, last of the chunk generation  *)
(* data.                                                                   *)
(***************************************************************************)
EXTENDS Primitives

BiomeClimateData == Rep(4, FLOAT_LE)
BiomeWeightedData == SHORT_LE \o INT_LE
BiomeWeightedTemperatureData == VAR_INT \o INT_LE
BiomeCoordinateData ==
  VAR_INT \o SHORT_LE \o VAR_INT \o SHORT_LE \o INT_LE \o INT_LE \o VAR_INT
BiomeSurfaceMaterialData == Rep(6, INT_LE)
BiomeElementData ==
  Rep(3, FLOAT_LE) \o VAR_INT \o SHORT_LE \o VAR_INT \o SHORT_LE
  \o BiomeSurfaceMaterialData
BiomeScatterParamData ==
  Arr(BiomeCoordinateData) \o VAR_INT \o VAR_INT \o SHORT_LE
  \o INT_LE \o INT_LE \o VAR_INT \o SHORT_LE
BiomeConsolidatedFeatureData ==
  BiomeScatterParamData \o Rep(3, SHORT_LE) \o BOOL
BiomeMountainParamsData == INT_LE \o Rep(5, BOOL)
BiomeMesaSurfaceData == Rep(2, INT_LE) \o Rep(2, BOOL)
BiomeCappedSurfaceData == Arr(INT_LE) \o Arr(INT_LE) \o Rep(3, Opt(INT_LE))
BiomeConditionalTransformationData ==
  Arr(BiomeWeightedData) \o SHORT_LE \o INT_LE
BiomeOverworldGenRulesData ==
  Rep(4, Arr(BiomeWeightedData))
  \o Rep(2, Arr(BiomeConditionalTransformationData))
  \o Arr(BiomeWeightedTemperatureData)
BiomeMultinoiseGenRulesData == Rep(5, FLOAT_LE)
BiomeLegacyWorldGenRulesData == Arr(BiomeConditionalTransformationData)
BiomeReplacementData ==
  SHORT_LE \o SHORT_LE \o Arr(SHORT_LE) \o FLOAT_LE \o FLOAT_LE \o INT_LE

\* _read_common and _write_common.
BiomeDefinitionChunkGenDataV898 ==
  Opt(BiomeClimateData) \o Opt(Arr(BiomeConsolidatedFeatureData))
  \o Opt(BiomeMountainParamsData) \o Opt(Arr(BiomeElementData))
  \o Opt(BiomeSurfaceMaterialData) \o Rep(4, BOOL)
  \o Opt(BiomeMesaSurfaceData) \o Opt(BiomeCappedSurfaceData)
  \o Opt(BiomeOverworldGenRulesData) \o Opt(BiomeMultinoiseGenRulesData)
  \o Opt(BiomeLegacyWorldGenRulesData) \o Opt(BiomeReplacementData)

VillageType == Opt(F("village_type", BYTE))

\* BiomeDefinitionData around one version's chunk generation data.
BiomeDefinitionHead == SHORT_LE \o Rep(5, FLOAT_LE) \o INT_LE \o BOOL \o Opt(Arr(USHORT_LE))
BiomeDefinitionData(chunk_gen_data) ==
  BiomeDefinitionHead \o Opt(chunk_gen_data)
BiomeDefinitionDataV898 == BiomeDefinitionData(BiomeDefinitionChunkGenDataV898)
BiomeDefinitionDataV924 ==
  BiomeDefinitionData(BiomeDefinitionChunkGenDataV898 \o VillageType)
=============================================================================
