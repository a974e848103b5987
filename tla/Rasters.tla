-------------------------------- MODULE Rasters --------------------------------
(* Raster images (imaging/models.py, operations.py). A decoded array has rows *)
(* of pixels of so many bits and a third dimension of so many channels, 0 if  *)
(* it has none. An image owns the rows of its backing, or shows a slice of    *)
(* them.                                                                      *)
EXTENDS Geometry, Sequences

ChannelCount == [gray8 |-> 1, bgr24 |-> 3, bgra32 |-> 4]
DimensionsOf(format) == IF ChannelCount[format] = 1 THEN 0 ELSE ChannelCount[format]

(* RasterImage(pixels, pixel_format): validated and copied. Every format has  *)
(* the dtype uint8.                                                           *)
RasterImage(array, format) ==
    IF /\ array.depth = 8 /\ array.channels = DimensionsOf(format)
       /\ array.rows # <<>> /\ array.rows[1] # <<>>
    THEN <<[backing |-> array.rows, slice |-> <<>>, format |-> format]>> ELSE <<>>

SlicePixels(rows, bounds) ==
    [i \in 1..bounds.height |->
        SubSeq(rows[bounds.y + i], bounds.x + 1, bounds.x + bounds.width)]

Pixels(image) ==
    IF image.slice = <<>> THEN image.backing ELSE SlicePixels(image.backing, image.slice[1])

BoundsOf(rows) == Rect(0, 0, Len(rows[1]), Len(rows))
Bounds(image) == BoundsOf(Pixels(image))
IsMaterialized(image) == image.slice = <<>>

RasterSlice(image, bounds) ==
    IF ContainsRect(BoundsOf(image.backing), bounds)
    THEN <<[image EXCEPT !.slice = <<bounds>>]>> ELSE <<>>

(* Nested crops are flattened onto the backing.                               *)
Crop(image, bounds) ==
    IF ~ContainsRect(Bounds(image), bounds) THEN <<>>
    ELSE IF bounds = Bounds(image) THEN <<image>>
    ELSE RasterSlice(image, IF image.slice = <<>> THEN bounds
                            ELSE Translated(bounds, image.slice[1].x, image.slice[1].y))

Materialize(image) ==
    IF image.slice = <<>> THEN image ELSE [image EXCEPT !.backing = Pixels(image), !.slice = <<>>]
==============================================================================
