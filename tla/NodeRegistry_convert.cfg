SPECIFICATION FairSpec
CONSTANTS
    ApiConversions = {k1, k2}
    BootConversions = {b1}
    a = a
    b = b
    c = c
    ab = ab
    bc = bc
    oid = oid
    NoOid = NoOid
    Nobody = Nobody
    Coords <- SmallCoords
    Features <- SmallFeatures
    CoordsOf <- SmallCoordsOf
    OidOf <- SmallOidOf
CHECK_DEADLOCK FALSE
INVARIANTS
    TypeOK
    NodeIdsUnique
    OsmAgreesWhenApart
    WayIdsUnique
PROPERTIES
    NodeIdsNeverChange
    EveryConversionEnds
