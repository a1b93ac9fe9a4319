----------------------------- MODULE V4L2Frames -----------------------------
(***************************************************************************)
(* What becomes of a frame that the driver has captured for Init():        *)
(* GrabRawFrame() of libcamera/V4L2Camera.cpp converts the crop to YUYV,   *)
(* previewThread() of libcamera/CameraHardware.cpp converts that to the    *)
(* format of the client, with the functions of module Converter.           *)
(***************************************************************************)
EXTENDS V4L2Formats, Converter

\* The copy of the lines of a YUYV frame.
CopyLines(f) ==
    {<<f.dst * y + b, <<f.src * y + b>>>> : y \in Rows(f), b \in 0 .. 2 * f.w - 1}

\* The switch over the pixel format: the call f of its converter.
ToYuyv(fmt, f) ==
    CASE fmt = "YUYV"    -> CopyLines(f)      [] fmt = "UYVY"    -> uyvy_to_yuyv(f)
      [] fmt = "YVYU"    -> yvyu_to_yuyv(f)   [] fmt = "YYUV"    -> yyuv_to_yuyv(f)
      [] fmt = "YUV420"  -> yuv420_to_yuyv(f) [] fmt = "YVU420"  -> yvu420_to_yuyv(f)
      [] fmt = "NV12"    -> nv12_to_yuyv(f)   [] fmt = "NV21"    -> nv21_to_yuyv(f)
      [] fmt = "NV16"    -> nv16_to_yuyv(f)   [] fmt = "NV61"    -> nv61_to_yuyv(f)
      [] fmt = "Y41P"    -> y41p_to_yuyv(f)   [] fmt = "GREY"    -> grey_to_yuyv(f)
      [] fmt = "Y16"     -> y16_to_yuyv(f)    [] fmt = "SPCA501" -> s501_to_yuyv(f)
      [] fmt = "SPCA505" -> s505_to_yuyv(f)   [] fmt = "SPCA508" -> s508_to_yuyv(f)
      [] fmt = "RGB24"   -> rgb_to_yuyv(f)    [] fmt = "BGR24"   -> bgr_to_yuyv(f)
      \* of tmpBuffer, where bayer_to_rgb24() has left the frame
      [] fmt \in DOMAIN BayerOrder -> rgb_to_yuyv([f EXCEPT !.src = 3 * f.w])

\* A write whose source is counted from n bytes before.
Shift(write, n) == <<write[1], [i \in DOMAIN write[2] |-> n + write[2][i]]>>

\* The frame of outWidth x outHeight that starts at the crop's first byte.
GrabRawFrame(c) ==
    LET f == [w |-> c.out.w, h |-> c.out.h, dst |-> 2 * c.out.w, src |-> c.bytesperline]
    IN  {Shift(write, c.capCropOffset) : write \in ToYuyv(c.fmt, f)}

\* A raw frame of the video's size for the recorder.
RecordingFrame(fmt, raw) ==
    LET f == [w |-> raw.w, h |-> raw.h, dst |-> raw.w, dstHeight |-> raw.h,
              src |-> 2 * raw.w]
    IN  CASE fmt \in {"yuv422sp", "yuv420sp"} -> yuyv_to_yvu420sp(f)
          [] fmt = "yuv420p" -> yuyv_to_yuv420p(f)
          [] fmt = "yuv422i-yuyv" ->
                {<<b, <<b>>>> : b \in 0 .. 2 * Area(raw) - 1}

\* The bytes of raw that previewThread() has in the preview frame: "if we are
\* trying to display a preview larger than the effective capture, truncate to
\* it".  A YUYV frame is grabbed into the preview frame unless the sizes differ
\* while recording.
PreviewFrame(fmt, raw, preview) ==
    LET least(a, b) == IF a < b THEN a ELSE b
        f == [w |-> least(preview.w, raw.w), h |-> least(preview.h, raw.h),
              dst |-> preview.w, dstHeight |-> preview.h, src |-> 2 * raw.w]
    IN  CASE fmt \in {"yuv422sp", "yuv420sp"} -> yuyv_to_yvu420sp(f)
          [] fmt = "yuv420p" -> yuyv_to_yvu420p(f)
          [] fmt = "yuv422i-yuyv" ->
                IF Area(raw) = Area(preview)
                THEN {<<b, <<b>>>> : b \in 0 .. 2 * Area(raw) - 1}
                ELSE CopyLines([f EXCEPT !.dst = 2 * preview.w])

\* The bytes of raw that fillPreviewWindow() has in a buffer of the window with
\* lines of stride pixels.  The window has the captured size
\* (CameraHardware!WindowHasCapturedSize) and NegotiatePreviewFormat() knows one
\* format, RGBA_8888: the image is never centred, and no other is converted to.
WindowFrame(raw, stride) ==
    yuyv_to_rgb32([w |-> raw.w, h |-> raw.h, dst |-> 4 * stride, src |-> 2 * raw.w])

-----------------------------------------------------------------------------
(***************************************************************************)
(* Where the formats have their pixels, by V4L2's definitions: the bytes   *)
(* of component comp of pixel (x, y) in a frame of m.w x m.h pixels.       *)
(***************************************************************************)
\* The components of a pair in the order of its bytes.
PairLayout == [YUYV |-> <<"Y0", "U", "Y1", "V">>, YVYU |-> <<"Y0", "V", "Y1", "U">>,
               UYVY |-> <<"U", "Y0", "V", "Y1">>, YYUV |-> <<"Y0", "Y1", "U", "V">>]

\* A chroma plane's start, its bytes per pair and per line, and the rows that
\* share a line of it.
ChromaPlane(fmt, m, comp) ==
    LET luma == m.w * m.h
        swap == fmt \in {"YVU420", "NV21", "NV61"}
        second == (comp = "V") # swap
    IN  IF fmt \in {"YUV420", "YVU420"}
        THEN [start |-> luma + (IF second THEN luma \div 4 ELSE 0),
              step |-> 1, line |-> m.w \div 2, rows |-> 2]
        ELSE [start |-> luma + (IF second THEN 1 ELSE 0),
              step |-> 2, line |-> m.w, rows |-> IF fmt \in {"NV16", "NV61"} THEN 1 ELSE 2]

\* The order of the parts of two rows in the formats of SPCA50x.
BlockLayout == [SPCA501 |-> <<"Y0", "U", "Y1", "V">>, SPCA505 |-> <<"Y0", "Y1", "U", "V">>,
                SPCA508 |-> <<"Y0", "U", "V", "Y1">>]

\* The length of those of the four parts of layout that are before part, if a Y
\* part has y bytes and a chroma part has c.
Before(layout, part, y, c) ==
    LET length(i) == IF part \in {layout[j] : j \in 1 .. i} THEN 0
                     ELSE IF layout[i] \in {"Y0", "Y1"} THEN y ELSE c
    IN  length(1) + length(2) + length(3)

Component(comp, parity) ==
    IF comp = "Y" THEN (IF parity = 0 THEN "Y0" ELSE "Y1") ELSE comp

\* The bytes of each kind of format: of pairs; of blocks of two rows; of three
\* colours, from which the chrominance of a pair is computed; of eight pixels;
\* of planes.
PairPixel(fmt, m, comp, x, y) ==
    <<2 * m.w * y + 4 * (x \div 2) + Before(PairLayout[fmt], Component(comp, x % 2), 1, 1)>>

BlockPixel(fmt, m, comp, x, y) ==
    <<3 * m.w * (y \div 2) + Before(BlockLayout[fmt], Component(comp, y % 2), m.w, m.w \div 2)
        + (IF comp = "Y" THEN x ELSE x \div 2)>>

RgbPixel(fmt, m, comp, x, y) ==
    LET rgb(i) == LET at == 3 * (m.w * y + i)
                  IN  IF fmt = "BGR24" THEN <<at + 2, at + 1, at>>
                                       ELSE <<at, at + 1, at + 2>>
        even == 2 * (x \div 2)
    IN  IF comp = "Y" THEN rgb(x) ELSE rgb(even) \o rgb(even + 1)

EightPixel(m, comp, x, y) ==
    LET in8 == x % 8
    IN  <<12 * (x \div 8) + ((3 * m.w) \div 2) * y
            + (IF comp = "Y" THEN IF in8 < 4 THEN 2 * in8 + 1 ELSE in8 + 4
               ELSE 4 * (in8 \div 4) + IF comp = "U" THEN 0 ELSE 2)>>

PlanePixel(fmt, m, comp, x, y) ==
    LET plane == ChromaPlane(fmt, m, comp)
    IN  IF comp = "Y" THEN <<m.w * y + x>>
        ELSE <<plane.start + plane.line * (y \div plane.rows) + plane.step * (x \div 2)>>

Pixel(fmt, m, comp, x, y) ==
    CASE fmt \in DOMAIN PairLayout -> PairPixel(fmt, m, comp, x, y)
      [] fmt \in DOMAIN BlockLayout -> BlockPixel(fmt, m, comp, x, y)
      [] fmt \in {"RGB24", "BGR24"} \union DOMAIN BayerOrder -> RgbPixel(fmt, m, comp, x, y)
      [] fmt = "Y41P" -> EightPixel(m, comp, x, y)
      [] OTHER -> PlanePixel(fmt, m, comp, x, y)

\* The colours of the first two lines of Bayer formats, repeated all over.
BayerColours == [SGBRG8 |-> <<<<"G", "B">>, <<"R", "G">>>>,
                 SGRBG8 |-> <<<<"G", "R">>, <<"B", "G">>>>,
                 SBGGR8 |-> <<<<"B", "G">>, <<"G", "R">>>>,
                 SRGGB8 |-> <<<<"R", "G">>, <<"G", "B">>>>]

Colour(fmt, s) == BayerColours[fmt][1 + (s[2] % 2)][1 + (s[1] % 2)]

\* The YUYV frame of the pixels of size that start at (startX, startY).
Wanted(c) ==
    {<<2 * c.out.w * y + 2 * x + b,
       Pixel(c.fmt, c.mode,
             IF b = 0 THEN "Y" ELSE IF x % 2 = 0 THEN "U" ELSE "V",
             c.startX + x, c.startY + y)>> :
        x \in 0 .. c.out.w - 1, y \in 0 .. c.out.h - 1, b \in {0, 1}}

RoundUp16(n) == 16 * ((n + 15) \div 16)

\* The planes of the client's formats in a frame of p.w x p.h pixels, as
\* initHeapLocked() has them: the place of sample (x, y) of a plane.  yuv420sp
\* has V and U in turn; of the others, "YV12" has V first and "I420" has U, and
\* the lines of their planes are rounded up to 16 pixels.
Sample(layout, p, comp, x, y) ==
    LET stride == IF layout = "NV21" THEN p.w ELSE RoundUp16(p.w)
        half   == RoundUp16(stride \div 2)
    IN  IF comp = "Y" THEN stride * y + x
        ELSE IF layout = "NV21"
        THEN stride * p.h + stride * y + 2 * x + (IF comp = "V" THEN 0 ELSE 1)
        ELSE stride * p.h + half * y + x + (IF (comp = "V") = (layout = "YV12") THEN 0
                                            ELSE (half * p.h) \div 2)

\* The client's frame of the pixels that raw and p both have: their luminance,
\* and for each two by two of them one chrominance, computed from both rows.
WantedByClient(layout, raw, p) ==
    LET w == IF raw.w < p.w THEN raw.w ELSE p.w
        h == IF raw.h < p.h THEN raw.h ELSE p.h
        yuyv(x, y, b) == 2 * (raw.w * y + x) + b
    IN  IF layout = "YUYV"
        THEN {<<2 * (p.w * y + x) + b, <<yuyv(x, y, b)>>>> :
                x \in 0 .. w - 1, y \in 0 .. h - 1, b \in {0, 1}}
        ELSE {<<Sample(layout, p, "Y", x, y), <<yuyv(x, y, 0)>>>> :
                x \in 0 .. w - 1, y \in 0 .. h - 1}
             \union
             {<<Sample(layout, p, comp, x, y),
                LET b == IF comp = "U" THEN 1 ELSE 3
                IN  <<yuyv(2 * x, 2 * y, b), yuyv(2 * x, 2 * y + 1, b)>>>> :
                x \in 0 .. w \div 2 - 1, y \in 0 .. h \div 2 - 1, comp \in {"U", "V"}}

\* RGBA_8888 with lines of stride pixels, of all pixels of raw: red needs V,
\* blue U and green both.
WantedByWindow(raw, stride) ==
    LET yuyv(x, y, b) == 2 * (raw.w * y + x) + b
        pair(x) == 2 * (x \div 2)
    IN  {<<4 * (stride * y + x) + c,
           CASE c = 0 -> <<yuyv(x, y, 0), yuyv(pair(x), y, 3)>>
             [] c = 1 -> <<yuyv(x, y, 0), yuyv(pair(x), y, 1), yuyv(pair(x), y, 3)>>
             [] c = 2 -> <<yuyv(x, y, 0), yuyv(pair(x), y, 1)>>>> :
            x \in 0 .. raw.w - 1, y \in 0 .. raw.h - 1, c \in 0 .. 2}

-----------------------------------------------------------------------------
(***************************************************************************)
(* Properties.                                                             *)
(***************************************************************************)
AllSizes == Sizes \union ToSet(Extra)
Even(size) == size.w % 2 = 0 /\ size.h % 2 = 0

\* Is the format one whose converter is modelled and moves all components?
\* grey_to_yuyv() and y16_to_yuyv() are not among them, see the README.
IsConverted(fmt) ==
    fmt \in DOMAIN PairLayout \union DOMAIN BlockLayout
              \union DOMAIN BayerOrder
              \union {"YUV420", "YVU420", "NV12", "NV21", "NV16", "NV61", "Y41P",
                      "RGB24", "BGR24"}

\* Has a frame of this size whole groups of the pixels that share a component?
IsWhole(fmt, size) == Even(size) /\ (fmt = "Y41P" => size.w % 8 = 0)

\* A colour of a pixel is its own sample's, or computed from samples of this
\* colour around it.
Demosaics(fmt, rgb) == \A p \in DOMAIN rgb, i \in 1 .. 3 :
    LET colour == <<"R", "G", "B">>[i]
    IN  /\ rgb[p][i] # {}
        /\ \A s \in rgb[p][i] : Colour(fmt, s) = colour
        /\ Colour(fmt, p) = colour => rgb[p][i] = {p}

\* For every mode, request and pixel format of IsConverted GrabRawFrame() writes
\* a whole YUYV frame of the requested size and nothing behind it: each byte,
\* once, from the component it stands for of the pixel it stands for in the
\* middle of the captured frame, although the loops step by pairs and rows and
\* cropping is but an offset ("make sure to only select formats we can crop").
\* The frames are of even sizes, those of Y41P of whole eights of pixels in a
\* line.  Bayer frames, from 3 x 2 pixels on, go by way of an RGB frame, each
\* colour of which is computed from its samples.  The crop, also one of an odd
\* size, is inside of the captured frame and starts at an even pixel.
FrameConverted == capture # NoCapture =>
    /\ capture.startX % 2 = 0 /\ capture.startX + capture.out.w <= capture.mode.w
    /\ capture.startY % 2 = 0 /\ capture.startY + capture.out.h <= capture.mode.h
    /\ IsConverted(capture.fmt) /\ IsWhole(capture.fmt, capture.out)
          => GrabRawFrame(capture) = Wanted(capture)
    /\ capture.fmt \in DOMAIN BayerOrder /\ capture.out.w >= 3 /\ capture.out.h >= 2 =>
          Demosaics(capture.fmt, bayer_to_rgb24(capture.out, BayerOrder[capture.fmt]))

\* Is what previewThread() hands out for a captured size right in each format?
Delivers ==
    [raw \in {s \in AllSizes : Even(s)} |->
        /\ \A fmt \in {"yuv422sp", "yuv420sp"} :
              /\ RecordingFrame(fmt, raw) = WantedByClient("NV21", raw, raw)
              /\ \A p \in {s \in AllSizes : Even(s)} :
                    PreviewFrame(fmt, raw, p) = WantedByClient("NV21", raw, p)
        /\ raw.w % 16 = 0 =>
              RecordingFrame("yuv420p", raw) = WantedByClient("I420", raw, raw)
        /\ \A p \in {s \in AllSizes : Even(s) /\ s.w % 16 = 0} :
              PreviewFrame("yuv420p", raw, p) = WantedByClient("YV12", raw, p)
        /\ RecordingFrame("yuv422i-yuyv", raw) = WantedByClient("YUYV", raw, raw)
        /\ \A p \in {s \in AllSizes : Even(s) /\ (Area(s) = Area(raw) => s = raw)} :
              PreviewFrame("yuv422i-yuyv", raw, p) = WantedByClient("YUYV", raw, p)
        /\ \A stride \in {raw.w, RoundUp16(raw.w)} :
              WindowFrame(raw, stride) = WantedByWindow(raw, stride)]

\* Every frame of even sizes that previewThread() hands to a preview or video
\* callback or to the window has the pixels of the captured one in its layout:
\* planes, strides and chroma of two rows, also when the preview is larger or
\* smaller than the video that is captured ("truncate to it").  yuv420p (YV12
\* and I420) only with lines of whole 16 pixels, and YUYV not if a preview of
\* another shape has the video's area: see the README.
FrameDelivered ==
    capture # NoCapture /\ Even(capture.out) => Delivers[capture.out]
=============================================================================
