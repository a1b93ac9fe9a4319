--------------------------- MODULE MCV4L2Formats ---------------------------
\* Instances of V4L2Formats and V4L2Frames for TLC.
EXTENDS V4L2Frames

Flat  == [w |-> 16, h |-> 4]
Tall  == [w |-> 8,  h |-> 8]      \* the area of Flat
Large == [w |-> 24, h |-> 10]
Small == [w |-> 6,  h |-> 2]      \* not the driver's: cropped
Odd   == [w |-> 3,  h |-> 3]

DriverSizes == {Flat, Tall, Large}
CroppedSizes == <<Small, Odd>>

AllFormats == {PixFmtsOrder[i].fmt : i \in DOMAIN PixFmtsOrder}

\* A driver accepts one format, or one after the best that can be cropped or
\* before the worst.
SomeDrivers == {{fmt} : fmt \in AllFormats}
                  \union {{"SPCA501", "BGR24"}, {"YUYV", "MJPEG"}}
===========================================================================
