--------------------------- MODULE RasterPairCounts ---------------------------
(***************************************************************************)
(* The raster_pair_value_counts operation of the geospatial plugin         *)
(* (internal/geospatial/pair_counts.go, pair_counts_gdal.go): how often    *)
(* each pair of a field and a value occurs in two aligned raster bands,    *)
(* read and counted in chunks of rows.                                     *)
(*                                                                         *)
(* Values are narrow: a uint16 is at most ValueMax here, a uint32 at most  *)
(* FieldMax, which is twice as wide.  A raster is its grid, its size and   *)
(* its bands; a band has a type, a nodata value or None, and its pixels    *)
(* row by row.  Coordinates and the parameters of a projection are in      *)
(* units of gridFloatTolerance.                                            *)
(***************************************************************************)
EXTENDS Integers, Sequences, SequencesExt, FiniteSets

CONSTANTS ValueMax,    \* uint16MaxValue, scaled down
          None

ValueWidth == ValueMax + 1
FieldMax == ValueWidth * ValueWidth - 1      \* uint32MaxValue

Default(value, default) == IF value = None THEN default ELSE value

-----------------------------------------------------------------------------
(* ParseRasterPairValueCountsRequest.                                      *)

validateRasterPairNodata(nodata) == nodata = None \/ nodata \in 0 .. ValueMax

parseRasterPairBandSource(source) ==
    /\ source.band # None /\ source.band > 0
    /\ validateRasterPairNodata(source.nodata)

normalizeRasterPairFieldDType(dtype) == Default(dtype, "uint16")
normalizeRasterPairValueDType(dtype) == Default(dtype, "uint16")

ParseRasterPairValueCountsRequest(req) ==
    /\ Default(req.requireAlignedGrid, TRUE)
    /\ Default(req.chunkRows, 1024) > 0
    /\ normalizeRasterPairFieldDType(req.fieldDType) \in {"uint16", "uint32", "int32"}
    /\ normalizeRasterPairValueDType(req.valueDType) \in {"byte", "uint16"}
    /\ parseRasterPairBandSource(req.field) /\ parseRasterPairBandSource(req.value)
    /\ req.stacked => req.field.path = req.value.path /\ req.field.band # req.value.band
-----------------------------------------------------------------------------
(* The bands, their types and their nodata values.                         *)

rasterPairDTypeCompatible(gdalDType, wantDType) ==
    <<wantDType, gdalDType>> \in {<<"byte", "Byte">>, <<"uint16", "UInt16">>,
                                   <<"uint32", "UInt32">>, <<"int32", "Int32">>}

rasterPairBandMetadata(source, raster, wantDType) ==
    source.band <= Len(raster.bands) /\ rasterPairDTypeCompatible(raster.bands[source.band].dtype, wantDType)

(* A value band that is the field band is not looked at a second time.     *)
resolveRasterPairMetadata(req, rasters) ==
    LET field == rasters[req.field.path]
        value == rasters[req.value.path]
    IN  /\ rasterPairBandMetadata(req.field, field, normalizeRasterPairFieldDType(req.fieldDType))
        /\ \/ req.field.path = req.value.path /\ req.field.band = req.value.band
           \/ rasterPairBandMetadata(req.value, value, normalizeRasterPairValueDType(req.valueDType))
        /\ field.width = value.width /\ field.height = value.height

Near(x, y) == x - y \in -1 .. 1

AlbersKeys == {"lat_0", "lon_0", "sp_1", "sp_2", "false_easting", "false_northing"}

(* Two Albers projections may be written differently.                      *)
albersEqual(a, b) ==
    /\ a.geographic = b.geographic \/ "" \in {a.geographic, b.geographic}
    /\ \A key \in AlbersKeys :
          key \in DOMAIN a.parameters /\ key \in DOMAIN b.parameters /\ Near(a.parameters[key], b.parameters[key])

sameGridCRS(a, b) ==
    IF a.epsg > 0 \/ b.epsg > 0 THEN a.epsg = b.epsg
    ELSE a.crs = b.crs \/ (a.albers # None /\ b.albers # None /\ albersEqual(a.albers, b.albers))

GridsEqual(a, b) ==
    /\ sameGridCRS(a.grid, b.grid)
    /\ a.width = b.width /\ a.height = b.height
    /\ \A i \in DOMAIN a.grid.transform : Near(a.grid.transform[i], b.grid.transform[i])

Band(source, rasters) == rasters[source.path].bands[source.band]

Nodata(source, rasters) == Default(source.nodata, Band(source, rasters).nodata)

resolveRasterPairNodata(source, rasters) ==
    Nodata(source, rasters) # None /\ validateRasterPairNodata(Nodata(source, rasters))
-----------------------------------------------------------------------------
(* Reading and counting.                                                   *)

windowHeight(y, chunkRows, height) == IF height - y < chunkRows THEN height - y ELSE chunkRows

parseUintXYZValue(value, maxValue) == value \in 0 .. maxValue

(* The pixels of the rows from y on; None when one is out of range or gdal *)
(* gives fewer than the window has.                                        *)
readUintRasterWindowXYZ(band, width, rows, y, maxValue) ==
    LET first == y * width + 1
        last == (y + rows) * width
        values == SubSeq(band.pixels, first, IF last > Len(band.pixels) THEN Len(band.pixels) ELSE last)
    IN  IF Len(values) = width * rows /\ \A i \in DOMAIN values : parseUintXYZValue(values[i], maxValue)
        THEN values ELSE None

newPairCountAccumulator == [counts |-> <<>>, valid |-> 0, skippedField |-> 0, skippedValue |-> 0]

(* Faulty: packed as for a field of the value's width.                     *)
KeyInValueWidth(f, v) == (f * ValueWidth + v) % (ValueWidth * ValueWidth)

(* uint64(fieldID)<<16 | uint64(valueID)                                   *)
Key(f, v) == f * ValueWidth + v

Increment(counts, key) ==
    [k \in DOMAIN counts \cup {key} |-> (IF k \in DOMAIN counts THEN counts[k] ELSE 0) + (IF k = key THEN 1 ELSE 0)]

AddPixel(acc, f, v, fieldNodata, valueNodata, includeValueNodata) ==
    IF f = fieldNodata THEN [acc EXCEPT !.skippedField = @ + 1]
    ELSE IF ~includeValueNodata /\ v = valueNodata THEN [acc EXCEPT !.skippedValue = @ + 1]
    ELSE [acc EXCEPT !.counts = Increment(@, Key(f, v)), !.valid = @ + 1]

AddChunk(acc, fields, values, fieldNodata, valueNodata, includeValueNodata) ==
    FoldLeft(LAMBDA a, i : AddPixel(a, fields[i], values[i], fieldNodata, valueNodata, includeValueNodata),
             acc, [i \in 1 .. Len(fields) |-> i])

(* One row per key, in the order of the field and then of the value.       *)
Rows(acc) ==
    LET keys == SetToSortSeq(DOMAIN acc.counts, <)
    IN  [n \in DOMAIN keys |-> [field |-> keys[n] \div ValueWidth, value |-> keys[n] % ValueWidth,
                                count |-> acc.counts[keys[n]]]]

Metadata(acc) ==
    [validPixels |-> acc.valid, skippedFieldNodata |-> acc.skippedField, skippedValueNodata |-> acc.skippedValue,
     distinctFields |-> Cardinality({k \div ValueWidth : k \in DOMAIN acc.counts}),
     distinctValues |-> Cardinality({k % ValueWidth : k \in DOMAIN acc.counts}),
     distinctPairs |-> Cardinality(DOMAIN acc.counts)]

(* The loop over the windows; None once a window cannot be read.           *)
AddWindow(acc, y, req, rasters) ==
    LET raster == rasters[req.field.path]
        rows == windowHeight(y, Default(req.chunkRows, 1024), raster.height)
        fields == readUintRasterWindowXYZ(Band(req.field, rasters), raster.width, rows, y, FieldMax)
        values == readUintRasterWindowXYZ(Band(req.value, rasters), raster.width, rows, y, ValueMax)
    IN  IF acc = None \/ fields = None \/ values = None THEN None
        ELSE AddChunk(acc, fields, values, Nodata(req.field, rasters), Nodata(req.value, rasters),
                      req.includeValueNodata)

Offsets(height, chunkRows) == SetToSortSeq({y \in 0 .. height - 1 : y % chunkRows = 0}, <)

executeRasterPairValueCountsGDAL(req, rasters) ==
    LET acc == FoldLeft(LAMBDA a, y : AddWindow(a, y, req, rasters), newPairCountAccumulator,
                        Offsets(rasters[req.field.path].height, Default(req.chunkRows, 1024)))
    IN  IF /\ resolveRasterPairMetadata(req, rasters)
           /\ GridsEqual(rasters[req.field.path], rasters[req.value.path])
           /\ resolveRasterPairNodata(req.field, rasters) /\ resolveRasterPairNodata(req.value, rasters)
           /\ acc # None
        THEN [rows |-> Rows(acc), metadata |-> Metadata(acc)]
        ELSE None

(* The counts are written, then the metadata: None is a file not written.  *)
(* in.fails is what goes wrong meanwhile: the paths and their parents, the *)
(* first file, or the second.                                              *)
ExecuteRasterPairValueCounts(in) ==
    LET executed == IF ParseRasterPairValueCountsRequest(in.request)
                    THEN executeRasterPairValueCountsGDAL(in.request, in.rasters) ELSE None
    IN  [succeeds |-> executed # None /\ in.fails = None,
         rows |-> IF executed = None \/ in.fails \in {"paths", "counts"} THEN None ELSE executed.rows,
         metadata |-> IF executed = None \/ in.fails # None THEN None ELSE executed.metadata]

-----------------------------------------------------------------------------
(* Whatever the chunks, every pixel of the two bands counts once: in a     *)
(* file of counts there is a row for exactly the pairs that occur outside  *)
(* nodata, with as many pixels as have that pair, in order; the pixels     *)
(* counted and skipped are all the pixels there are; and success leaves    *)
(* both files (ExecuteRasterPairValueCounts).                              *)
CountsExact(in, made) ==
    LET req == in.request
        field == Band(req.field, in.rasters)
        value == Band(req.value, in.rasters)
        pixels == DOMAIN field.pixels
        Counted(p) == /\ field.pixels[p] # Nodata(req.field, in.rasters)
                      /\ req.includeValueNodata \/ value.pixels[p] # Nodata(req.value, in.rasters)
        With(f, v) == {p \in pixels : Counted(p) /\ field.pixels[p] = f /\ value.pixels[p] = v}
        rows == made.rows
        metadata == made.metadata
    IN  /\ made.succeeds => rows # None /\ metadata # None
        /\ rows # None =>
              /\ \A n \in DOMAIN rows : rows[n].count = Cardinality(With(rows[n].field, rows[n].value)) /\ rows[n].count > 0
              /\ \A p \in pixels : Counted(p) =>
                    \E n \in DOMAIN rows : rows[n].field = field.pixels[p] /\ rows[n].value = value.pixels[p]
              /\ \A n \in 2 .. Len(rows) : \/ rows[n - 1].field < rows[n].field
                                           \/ rows[n - 1].field = rows[n].field /\ rows[n - 1].value < rows[n].value
        /\ metadata # None =>
              /\ metadata.validPixels = Cardinality({p \in pixels : Counted(p)})
              /\ metadata.validPixels + metadata.skippedFieldNodata + metadata.skippedValueNodata = Cardinality(pixels)
=============================================================================
