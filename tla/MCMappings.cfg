CONSTANTS
  MapRequests <- MCRegions
  Accesses <- MCRegions
  NoAddr <- MCNoAddr
SPECIFICATION MappingsSpec
INVARIANTS
  MappingsTypeOK
  BoxSpans
  FilterExact
  CheckExact
PROPERTIES ImplementsMappedBytes RequestsExact
