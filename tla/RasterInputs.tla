---------------------------- MODULE RasterInputs ----------------------------
(* Requests and the rasters they name for RasterPairCounts, with ValueMax  *)
(* 3 and FieldMax 15.                                                      *)
EXTENDS Integers, Sequences

CONSTANT None

(* The same grid in units of the tolerance, by EPSG code, by text and as   *)
(* an Albers projection.                                                   *)
Grid(epsg, crs, albers, x) == [epsg |-> epsg, crs |-> crs, albers |-> albers, transform |-> <<x, 30, 0, 0, 0, -30>>]
Albers(geographic, sp2) ==
    [geographic |-> geographic,
     parameters |-> [lat_0 |-> 23, lon_0 |-> 96, sp_1 |-> 29, sp_2 |-> sp2, false_easting |-> 0, false_northing |-> 0]]
Code == Grid(5070, "a", None, 0)
Grids ==
    {Code, [Code EXCEPT !.transform[1] = 1], [Code EXCEPT !.transform[1] = 2], [Code EXCEPT !.epsg = 4326]}
    \cup {Grid(0, crs, None, 0) : crs \in {"a", "b"}}
    \cup {Grid(0, crs, Albers(g, sp2), 0) : crs \in {"a", "c"}, g \in {"", "nad83", "wgs84"}, sp2 \in {45, 46, 47}}
    \cup {Grid(0, "d", [geographic |-> "", parameters |-> [lat_0 |-> 23]], 0)}

Raster(width, height, bands) == [grid |-> Code, width |-> width, height |-> height, bands |-> bands]
BandOf(dtype, nodata, pixels) == [dtype |-> dtype, nodata |-> nodata, pixels |-> pixels]
Source(path, band, nodata) == [path |-> path, band |-> band, nodata |-> nodata]
Request(field, value, chunk, include, fieldDType, valueDType) ==
    [stacked |-> FALSE, requireAlignedGrid |-> None, chunkRows |-> chunk, fieldDType |-> fieldDType,
     valueDType |-> valueDType, field |-> field, value |-> value, includeValueNodata |-> include]

(* Three rows of one pixel, in chunks of one, two and four rows.           *)
Chunked ==
    {[fails |-> None, request |-> Request(Source("f", 1, None), Source("v", 1, None), chunk, include, "uint32", None),
      rasters |-> [f |-> Raster(1, 3, <<BandOf("UInt32", 0, fields)>>),
                   v |-> Raster(1, 3, <<BandOf("UInt16", 0, values)>>)]] :
        chunk \in {1, 2, 4}, include \in BOOLEAN, fields \in [1 .. 3 -> {0, 1, 5}], values \in [1 .. 3 -> {0, 3}]}

(* Separate and stacked bands, their types, the nodata values of request   *)
(* and band, and grids that are not aligned.                               *)
Requested ==
    {[fails |-> None, request |-> [Request(Source("f", fb, fn), Source(path, vb, vn), None, TRUE, fd, vd)
                     EXCEPT !.stacked = (path = "f")],
      rasters |-> [f |-> Raster(2, 2, <<BandOf(type, 0, <<0, 9, 1, 9>>), BandOf("Byte", None, <<2, 2, 3, 0>>)>>),
                   v |-> [Raster(2, 2, <<BandOf("UInt16", 5, <<1, 2, 1, 2>>)>>) EXCEPT !.grid = grid]]] :
        fb \in {None, 1}, vb \in {1, 2}, path \in {"f", "v"}, fn \in {None, 9}, vn \in {None, 2},
        fd \in {None, "int32", "byte"}, vd \in {None, "byte"}, type \in {"UInt16", "Int32"}, grid \in {Code, [Code EXCEPT !.epsg = 4326]}}

(* Pixels out of range, chunks of no rows, grids that need not be aligned, *)
(* and files that cannot be written.                                       *)
Refused ==
    {[fails |-> fails, request |-> [Request(Source("f", 1, 0), Source("f", 1, 0), chunk, FALSE, None, None)
                     EXCEPT !.requireAlignedGrid = aligned],
      rasters |-> [f |-> Raster(2, 2, <<BandOf("UInt16", None, <<pixel, 2, 1, 2>>)>>)]] :
        pixel \in {-1, 3, 4}, aligned \in {None, FALSE}, chunk \in {0, 1, None},
        fails \in {None, "paths", "counts", "metadata"}}

(* Grids that are written in different ways.                               *)
Aligned ==
    {[fails |-> None, request |-> Request(Source("f", 1, 0), Source("v", 1, 0), None, FALSE, None, None),
      rasters |-> [f |-> [Raster(1, 2, <<BandOf("UInt16", None, <<1, 2>>)>>) EXCEPT !.grid = a],
                   v |-> [Raster(1, 2, <<BandOf("UInt16", None, <<3, 0>>)>>) EXCEPT !.grid = b]]] : a, b \in Grids}

Requests == Chunked \cup Requested \cup Refused \cup Aligned
=============================================================================
