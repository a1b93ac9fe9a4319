----------------------------- MODULE V4L2Formats -----------------------------
(***************************************************************************)
(* The video modes of the capture object, libcamera/V4L2Camera.cpp with    *)
(* SurfaceSize.cpp and SurfaceDesc.cpp: how Open() collects them from the  *)
(* driver and chooses the default ones, which mode and pixel format        *)
(* Init() takes for a requested size, and how it crops the frames.         *)
(*                                                                         *)
(* A SortedVector is the sequence of its elements.                         *)
(***************************************************************************)
EXTENDS Integers, SequencesExt

CONSTANTS
    Sizes,          \* [w, h]: frame sizes the driver may have
    Extra,          \* the sizes initDefaultParameters() adds, a sequence
    Rates,          \* frames per second the driver may have
    Drivers         \* which pixel formats a driver accepts: a set of sets of names

ASSUME SizesArePositive == Sizes \union ToSet(Extra) \subseteq [w : Nat \ {0}, h : Nat \ {0}]
ASSUME RatesArePositive == Rates \subseteq Nat \ {0}

VARIABLES
    phase,          \* where Open() is; "open" after it
    m_AllFmts,      \* the modes collected
    found,          \* fsizeind > 0: the driver listed a size of this format
    best,           \* m_BestPictureFmt and m_BestPreviewFmt
    capture         \* what the last Init() since Open() set up

vars == <<phase, m_AllFmts, found, best, capture>>

NoMode    == [w |-> 0, h |-> 0, fps |-> 0]
NoCapture == [mode |-> NoMode]
NoBest    == [picture |-> NoMode, preview |-> NoMode]
Mode(size, fps) == [w |-> size.w, h |-> size.h, fps |-> fps]
SizeOf(m) == [w |-> m.w, h |-> m.h]

-----------------------------------------------------------------------------
(***************************************************************************)
(* Order of sizes and modes.                                               *)
(***************************************************************************)
Area(s) == s.w * s.h

\* SurfaceSize::compare().
CompareSizes(a, b) ==
    IF a.w > b.w /\ a.h > b.h THEN 1
    ELSE IF a.w < b.w /\ a.h < b.h THEN -1
    ELSE Area(a) - Area(b)

\* SurfaceDesc::compare().
CompareModes(a, b) ==
    IF CompareSizes(a, b) # 0 THEN CompareSizes(a, b) ELSE a.fps - b.fps

\* SortedVector::add(): a mode goes behind those before it in the order and
\* replaces one that compares equal.
AddMode(modes, m) ==
    LET before == Cardinality({i \in DOMAIN modes : CompareModes(modes[i], m) < 0})
        upto   == Cardinality({i \in DOMAIN modes : CompareModes(modes[i], m) <= 0})
    IN  SubSeq(modes, 1, before) \o <<m>> \o SubSeq(modes, upto + 1, Len(modes))

-----------------------------------------------------------------------------
(***************************************************************************)
(* Open() and EnumFrameFormats().                                          *)
(***************************************************************************)
Init ==
    /\ phase = "closed" /\ found = FALSE
    /\ m_AllFmts = <<>> /\ best = NoBest /\ capture = NoCapture

\* Mutated Open: what Init() set up is not cleared.
OpenKeepsCapture ==
    /\ phase \in {"closed", "open"}
    /\ phase' = "formats" /\ found' = FALSE /\ m_AllFmts' = <<>>
    /\ UNCHANGED <<best, capture>>

\* The constructor or the client opens the device, maybe not for the first time.
Open ==
    /\ phase \in {"closed", "open"}
    /\ phase' = "formats" /\ found' = FALSE
    /\ m_AllFmts' = <<>> /\ capture' = NoCapture
    /\ UNCHANGED best

\* open() or a query fails: the modes of the last time stay.
OpenFails ==
    /\ phase \in {"closed", "open"}
    /\ phase' = "closed" /\ capture' = NoCapture
    /\ UNCHANGED <<m_AllFmts, found, best>>

\* The driver has another pixel format: VIDIOC_ENUM_FMT.
EnumFormat ==
    /\ phase = "formats"
    /\ phase' = "sizes" /\ found' = FALSE
    /\ UNCHANGED <<m_AllFmts, best, capture>>

\* EnumFrameIntervals(): one of the rates of a size, or "Assume at least 1fps".
EnumFrameIntervals(size, rate) ==
    m_AllFmts' = AddMode(m_AllFmts, Mode(size, rate))

\* A discrete size of the pixel format, with one of the rates the driver has
\* for it; it is listed again with the next one.
EnumFrameSize == \E size \in Sizes, rate \in Rates \union {1} :
    /\ phase = "sizes"
    /\ EnumFrameIntervals(size, rate)
    /\ found' = TRUE
    /\ UNCHANGED <<phase, best, capture>>

\* "gspca doesn't enumerate frame sizes": default ones are tried.
EndOfSizes ==
    /\ phase = "sizes"
    /\ phase' = IF found THEN "formats" ELSE "defaults"
    /\ UNCHANGED <<m_AllFmts, found, best, capture>>

\* The driver answers a default size with one that it has.
TryDefaultMode == \E size \in Sizes :
    /\ phase = "defaults"
    /\ m_AllFmts' = AddMode(m_AllFmts, Mode(size, 25))
    /\ UNCHANGED <<phase, found, best, capture>>

EndOfDefaults ==
    /\ phase = "defaults"
    /\ phase' = "formats"
    /\ UNCHANGED <<m_AllFmts, found, best, capture>>

BetterPicture(m, b) ==
    \/ CompareSizes(m, b) > 0
    \/ CompareSizes(m, b) = 0 /\ m.fps < b.fps

BetterPreview(m, b) ==
    \/ m.fps > b.fps
    \/ m.fps = b.fps /\ CompareSizes(m, b) > 0

\* The loop that selects the best modes, from the ones b on.
Select(modes, b) ==
    LET selected[i \in 0 .. Len(modes)] ==
            IF i = 0 THEN b
            ELSE LET m == modes[i]
                     x == selected[i - 1]
                 IN  [picture |-> IF BetterPicture(m, x.picture) THEN m ELSE x.picture,
                      preview |-> IF BetterPreview(m, x.preview) THEN m ELSE x.preview]
    IN  selected[Len(modes)]

\* Mutated EndOfFormats: the best modes of the last time are not reset.
EndOfFormatsNoReset ==
    /\ phase = "formats"
    /\ phase' = "open" /\ best' = Select(m_AllFmts, best)
    /\ UNCHANGED <<m_AllFmts, found, capture>>

EndOfFormats ==
    /\ phase = "formats"
    /\ phase' = "open" /\ best' = Select(m_AllFmts, NoBest)
    /\ UNCHANGED <<m_AllFmts, found, capture>>

-----------------------------------------------------------------------------
(***************************************************************************)
(* Init(), which is named SetUp here.                                      *)
(***************************************************************************)
Covers(m, size) == m.w >= size.w /\ m.h >= size.h

Abs(n) == IF n < 0 THEN -n ELSE n

\* Mutated Closer: the rate decides before the size.
CloserRate(m, b, size, fps) ==
    \/ b = NoMode
    \/ Abs(m.fps - fps) < Abs(b.fps - fps)
    \/ Abs(m.fps - fps) = Abs(b.fps - fps) /\ Area(m) - Area(size) < Area(b) - Area(size)

\* Is m closer to size and fps than b, the closest mode before?
Closer(m, b, size, fps) ==
    LET difArea(x) == Area(x) - Area(size)
        difFps(x)  == Abs(x.fps - fps)
    IN  \/ b = NoMode
        \/ difArea(m) < difArea(b)
        \/ difArea(m) = difArea(b) /\ difFps(m) < difFps(b)

\* The loop over the modes: "Always choose a bigger or equal surface".
Closest(modes, size, fps) ==
    LET closest[i \in 0 .. Len(modes)] ==
            IF i = 0 THEN NoMode
            ELSE IF Covers(modes[i], size) /\ Closer(modes[i], closest[i - 1], size, fps)
                 THEN modes[i]
                 ELSE closest[i - 1]
    IN  closest[Len(modes)]

\* The formats of one row of pixFmtsOrder's columns, in order.
Kind(names, bpp, allowscrop) ==
    [i \in DOMAIN names |-> [fmt |-> names[i], bpp |-> bpp, allowscrop |-> allowscrop]]

\* pixFmtsOrder, best first.
PixFmtsOrder ==
    Kind(<<"YUYV", "YVYU", "UYVY", "YYUV">>, 2, TRUE)
    \o Kind(<<"SPCA501", "SPCA505", "SPCA508">>, 2, FALSE)
    \o Kind(<<"YUV420", "YVU420", "NV12", "NV21", "NV16", "NV61", "Y41P",
              "SGBRG8", "SGRBG8", "SBGGR8", "SRGGB8">>, 0, FALSE)
    \o Kind(<<"BGR24", "RGB24">>, 3, TRUE)
    \o Kind(<<"MJPEG", "JPEG">>, 0, FALSE)
    \o Kind(<<"GREY">>, 1, TRUE)
    \o Kind(<<"Y16">>, 2, TRUE)

\* The bytes of a pixel in the formats whose pixels have bytes of their own, by
\* V4L2's definition.
SampleBytes == [YUYV |-> 2, YVYU |-> 2, UYVY |-> 2, YYUV |-> 2,
                BGR24 |-> 3, RGB24 |-> 3, GREY |-> 1, Y16 |-> 2]

\* (n >> 1) & (-2)
EvenHalf(n) == 2 * ((n \div 2) \div 2)

Larger(a, b) == IF a > b THEN a ELSE b

\* The driver's bytes per line; "buggy driver paranoia" wants two per pixel.
BytesPerLine(m, p) ==
    IF p.fmt \in DOMAIN SampleBytes THEN Larger(SampleBytes[p.fmt] * m.w, 2 * m.w)
                                   ELSE 2 * m.w

\* Mutated Usable: formats that cannot be cropped are tried, too.
UsableAlways(crop, accepted) ==
    {i \in DOMAIN PixFmtsOrder : PixFmtsOrder[i].fmt \in accepted}

\* The formats that Init() tries when it must or must not crop; the first one
\* that the driver accepts is taken.
Usable(crop, accepted) ==
    {i \in DOMAIN PixFmtsOrder :
        /\ PixFmtsOrder[i].fmt \in accepted
        /\ crop => PixFmtsOrder[i].allowscrop}

FirstUsable(crop, accepted) ==
    LET usable == Usable(crop, accepted)
    IN  PixFmtsOrder[CHOOSE i \in usable : \A j \in usable : i <= j]

\* The crop of size out of mode m: its margins, the size delivered ("avoid
\* crashing if the mode found is smaller") and the offset of its first byte.
Cropped(m, size, p) ==
    LET x == EvenHalf(m.w - size.w)
        y == EvenHalf(m.h - size.h)
        startX == Larger(x, 0)
        startY == Larger(y, 0)
    IN  [mode |-> m, size |-> size, fmt |-> p.fmt, startX |-> startX, startY |-> startY,
         out |-> [w |-> size.w + x - startX, h |-> size.h + y - startY],
         bytesperline |-> BytesPerLine(m, p),
         capCropOffset |-> startX * p.bpp + BytesPerLine(m, p) * startY]

\* CameraHardware calls it once after each Open().
SetUp(size, fps) ==
    LET m    == Closest(m_AllFmts, size, fps)
        crop == SizeOf(m) # size
    IN  /\ phase = "open" /\ capture = NoCapture
        /\ m # NoMode
        /\ \E accepted \in Drivers :
              /\ Usable(crop, accepted) # {}
              /\ capture' = Cropped(m, size, FirstUsable(crop, accepted))
        /\ UNCHANGED <<phase, m_AllFmts, found, best>>

Next ==
    \/ Open \/ OpenFails \/ EnumFormat \/ EnumFrameSize \/ EndOfSizes
    \/ TryDefaultMode \/ EndOfDefaults \/ EndOfFormats
    \/ \E size \in Sizes \union ToSet(Extra), fps \in Rates : SetUp(size, fps)

Spec == Init /\ [][Next]_vars

-----------------------------------------------------------------------------
(***************************************************************************)
(* Properties.                                                             *)
(***************************************************************************)
Modes == [w : {s.w : s \in Sizes}, h : {s.h : s \in Sizes}, fps : Rates \union {1, 25}]

\* The types of the members of V4L2Camera; a device that is not open has no
\* format, and a crop has no negative margin.
TypeOK ==
    /\ phase \in {"closed", "formats", "sizes", "defaults", "open"}
    /\ ToSet(m_AllFmts) \subseteq Modes
    /\ found \in BOOLEAN
    /\ best \in [picture : Modes \union {NoMode}, preview : Modes \union {NoMode}]
    /\ capture # NoCapture =>
          /\ phase = "open"
          /\ capture.mode \in Modes /\ capture.fmt \in UNION Drivers
          /\ {capture.startX, capture.startY, capture.capCropOffset} \subseteq Nat

\* "Prioritize size over everything else when taking pictures", "prioritize
\* fps, then size when doing preview": after every Open() both defaults are
\* modes of the device as it is now, and no mode beats them.
DefaultsAreBest == phase = "open" =>
    IF m_AllFmts = <<>> THEN best = NoBest
    ELSE /\ {best.picture, best.preview} \subseteq ToSet(m_AllFmts)
         /\ \A m \in ToSet(m_AllFmts) :
              /\ Area(m) <= Area(best.picture)
              /\ Area(m) = Area(best.picture) => m.fps >= best.picture.fps
              /\ m.fps <= best.preview.fps
              /\ m.fps = best.preview.fps => Area(m) <= Area(best.preview)

\* What Init() takes is the mode with the least area of those that are as wide
\* and as high as the request, and it never delivers another size than that.
CaptureIsClosest == capture # NoCapture =>
    /\ Covers(capture.mode, capture.size)
    /\ capture.out = capture.size
    /\ \A m \in ToSet(m_AllFmts) : Covers(m, capture.size) => Area(m) >= Area(capture.mode)
=============================================================================
