------------------------------ MODULE MCGeoTiff ------------------------------
\* Images whose sides are multiples of a tile's, and images that are not.
EXTENDS GeoTiff

MCDims == {<<2, 3>>, <<3, 2>>}
MCPictures ==
  UNION {{[dim |-> dim, image |-> image] : image \in [Pixels(dim) -> {0, 1, 3}]} : dim \in MCDims}
MCTileDims == {<<2, 2>>, <<1, 2>>, <<2, 1>>}
MCCoordinates == [dim \in MCDims |-> {TieCoordinate}]
=============================================================================
