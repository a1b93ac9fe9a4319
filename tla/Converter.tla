------------------------------ MODULE Converter ------------------------------
(***************************************************************************)
(* The pixel converters of libcamera/Converter.cpp, by the bytes they move *)
(* and not by their arithmetic: a conversion is the set of its writes,     *)
(* each the destination byte (counted from dst) and the source bytes       *)
(* (from src) its value is computed from, in the order of the computation. *)
(* A constant has no source bytes.                                         *)
(*                                                                         *)
(* f is a call: its width w, height h, the stride dst of the destination   *)
(* and src of the source, if the function has one.                         *)
(***************************************************************************)
EXTENDS Integers, Sequences

\* The inner loops run over pairs of pixels: w = 0, 2, ... < width.
Pairs(f) == (f.w + 1) \div 2
Rows(f)  == 0 .. f.h - 1
RowPairs(f) == 0 .. ((f.h + 1) \div 2) - 1

Quad == 0 .. 3

\* Where dst is in row y: every row adds what its loop has written and
\* dw = dstStride - (width << 1), and two more bytes if the width is odd.
DstRow(f, y) == y * (4 * Pairs(f) + f.dst - 2 * f.w)

-----------------------------------------------------------------------------
(***************************************************************************)
(* From the device's formats to YUYV.                                      *)
(***************************************************************************)
\* The loops of packed formats of four bytes for a pair; pick says which of
\* them is Y0, U, Y1 and V.
Packed(f, pick) ==
    {<<DstRow(f, y) + 4 * k + b,
       <<y * (4 * Pairs(f) + f.src - 2 * f.w) + 4 * k + pick[b + 1]>>>> :
        y \in Rows(f), k \in 0 .. Pairs(f) - 1, b \in Quad}

yyuv_to_yuyv(f) == Packed(f, <<0, 2, 1, 3>>)
uyvy_to_yuyv(f) == Packed(f, <<1, 0, 3, 2>>)
yvyu_to_yuyv(f) == Packed(f, <<0, 3, 2, 1>>)

\* The loops of formats with a Y plane: u and v are where the U and the V of
\* the first pair are, step and line lead to the next pair and the next row.
\* The chroma is for one row.
Planar422(f, u, v, step, line) ==
    {<<DstRow(f, y) + 4 * k + b,
       <<CASE b = 0 -> y * f.w + 2 * k
           [] b = 1 -> u + y * line + step * k
           [] b = 2 -> y * f.w + 2 * k + 1
           [] b = 3 -> v + y * line + step * k>>>> :
        y \in Rows(f), k \in 0 .. Pairs(f) - 1, b \in Quad}

nv16_to_yuyv(f) == Planar422(f, f.w * f.h, f.w * f.h + 1, 2, f.w)
nv61_to_yuyv(f) == Planar422(f, f.w * f.h + 1, f.w * f.h, 2, f.w)

\* The chroma is for two rows, which are written together: row r of the two
\* is at dst[r * dstStride].
Planar420(f, u, v, step, line) ==
    {<<y * (4 * Pairs(f) + 2 * f.dst - 2 * f.w) + r * f.dst + 4 * k + b,
       <<CASE b = 0 -> (2 * y + r) * f.w + 2 * k
           [] b = 1 -> u + y * line + step * k
           [] b = 2 -> (2 * y + r) * f.w + 2 * k + 1
           [] b = 3 -> v + y * line + step * k>>>> :
        y \in RowPairs(f), r \in {0, 1}, k \in 0 .. Pairs(f) - 1, b \in Quad}

yuv420_to_yuyv(f) ==
    Planar420(f, f.w * f.h, f.w * f.h + (f.w * f.h) \div 4, 1, f.w \div 2)
yvu420_to_yuyv(f) ==
    Planar420(f, f.w * f.h + (f.w * f.h) \div 4, f.w * f.h, 1, f.w \div 2)
nv12_to_yuyv(f) == Planar420(f, f.w * f.h, f.w * f.h + 1, 2, f.w)

nv21_to_yuyv(f) == Planar420(f, f.w * f.h + 1, f.w * f.h, 2, f.w)

\* Twelve bytes for eight pixels.
y41p_to_yuyv(f) ==
    LET linesize == (3 * f.w) \div 2
        groups   == (linesize + 11) \div 12
        pick     == <<1, 0, 3, 2, 5, 0, 7, 2, 8, 4, 9, 6, 10, 4, 11, 6>>
    IN  {<<y * (16 * groups + f.dst - 2 * f.w) + 16 * g + b,
           <<linesize * y + 12 * g + pick[b + 1]>>>> :
            y \in Rows(f), g \in 0 .. groups - 1, b \in 0 .. 15}

\* One byte for a pixel, and no chroma.
grey_to_yuyv(f) ==
    LET at(x, y) == y * f.dst + 2 * x
    IN  {<<at(x, y), <<y * f.src + x>>>> : x \in 0 .. f.w - 1, y \in Rows(f)}
            \union {<<at(x, y) + 1, <<>>>> : x \in 0 .. f.w - 1, y \in Rows(f)}

\* (uint8_t) (p & 0xFF00) >> 8 is 0: the cast is done first and takes the byte
\* that has just been masked.  No byte of the source has an effect.
y16_to_yuyv(f) ==
    {<<DstRow(f, y) + 4 * k + b, <<>>>> :
        y \in Rows(f), k \in 0 .. Pairs(f) - 1, b \in Quad}

\* Blocks of two rows: their luminance and chrominance are one after the
\* other; Y0 begins the block, and u, y1 and v are where the others begin.
Spca(f, u, y1, v) ==
    {<<y * (2 * f.dst + 4 * (f.w \div 2) - 2 * f.w) + r * f.dst + 4 * k + b,
       <<y * (2 * f.w + 2 * (f.w \div 2)) +
           (CASE b = 0 -> r * y1 + 2 * k
              [] b = 1 -> u + k
              [] b = 2 -> r * y1 + 2 * k + 1
              [] b = 3 -> v + k)>>>> :
        y \in 0 .. (f.h \div 2) - 1, r \in {0, 1}, k \in 0 .. (f.w \div 2) - 1, b \in Quad}

s501_to_yuyv(f) == Spca(f, f.w, f.w + f.w \div 2, 2 * f.w + f.w \div 2)
s505_to_yuyv(f) == Spca(f, 2 * f.w, f.w, 2 * f.w + f.w \div 2)
s508_to_yuyv(f) == Spca(f, f.w, 2 * (f.w \div 2) + f.w, f.w + f.w \div 2)

\* Three bytes for a pixel, which first leads to R, G and B: the luminance is
\* computed from those of its pixel, the chrominance is the mean of both.
Rgb(f, first) ==
    {<<DstRow(f, y) + 4 * k + b,
       LET at(i) == [c \in 1 .. 3 |-> y * f.src + 6 * k + 3 * i + first[c]]
       IN  CASE b = 0 -> at(0) [] b = 2 -> at(1) [] OTHER -> at(0) \o at(1)>> :
        y \in Rows(f), k \in 0 .. Pairs(f) - 1, b \in Quad}

rgb_to_yuyv(f) == Rgb(f, <<0, 1, 2>>)
bgr_to_yuyv(f) == Rgb(f, <<2, 1, 0>>)

\* pix_order as start_with_green and blue_line, which say what the first line
\* is for bayer_to_rgbbgr24().
BayerOrder == [SGBRG8 |-> [green |-> TRUE,  blue |-> FALSE],
               SGRBG8 |-> [green |-> TRUE,  blue |-> TRUE],
               SBGGR8 |-> [green |-> FALSE, blue |-> FALSE],
               SRGGB8 |-> [green |-> FALSE, blue |-> TRUE]]

\* The samples [x, y] that each of the three bytes of a pixel is the mean of, if
\* the frame is at least 3 x 2: the lines take turns in starting with green and
\* in the order of the bytes, and at the border there are fewer samples.
bayer_to_rgb24(f, order) ==
    [p \in (0 .. f.w - 1) \X Rows(f) |->
        LET x      == p[1]
            y      == p[2]
            near   == {x - 1, x + 1} \intersect 0 .. f.w - 1
            lines  == {y - 1, y + 1} \intersect Rows(f)
            green  == (x % 2 = y % 2) = order.green
            blue   == (y % 2 = 0) = order.blue
            self   == {<<x, y>>}
            beside == near \X {y}
            above  == {x} \X lines
            bytes  == IF green THEN <<beside, self, above>>
                      ELSE <<self, beside \union above, near \X lines>>
        IN  IF blue THEN bytes ELSE <<bytes[3], bytes[2], bytes[1]>>]

-----------------------------------------------------------------------------
(***************************************************************************)
(* From YUYV to the client's formats.                                      *)
(***************************************************************************)
\* Where src is in row y: its loop has read four bytes for a pair.
SrcRow(f, y) == y * (4 * Pairs(f) + f.src - 2 * f.w)

\* Where a plane of bytes, one for a pixel or for a pair, is in row y:
\* corrected by stride - width.
PlaneRow(f, y, stride) == y * (2 * Pairs(f) + stride - f.w)
HalfRow(f, y, stride)  == y * (Pairs(f) + stride - f.w \div 2)

\* The Y plane: the first loop writes even rows, the second one odd ones.
LumaPlane(f) ==
    {<<PlaneRow(f, y, f.dst) + x, <<SrcRow(f, y) + 2 * x>>>> :
        y \in 0 .. 2 * ((f.h + 1) \div 2) - 1, x \in 0 .. 2 * Pairs(f) - 1}

\* A chroma byte is the mean of two rows: those of src[0] and src[srcStride].
MeanOfRows(f, y, k, b) == LET a == SrcRow(f, 2 * y) + 4 * k + b IN <<a, a + f.src>>

\* Mutated yuyv_to_yvu420sp: the chroma is not corrected for the stride.
yuyv_to_yvu420sp_without_stride(f) ==
    LumaPlane(f) \union
    {<<f.dst * f.dstHeight + y * 2 * Pairs(f) + 2 * k + i,
       MeanOfRows(f, y, k, 3 - 2 * i)>> :
        y \in RowPairs(f), k \in 0 .. Pairs(f) - 1, i \in {0, 1}}

\* V and U take turns in one plane, which follows that of dstHeight rows.
yuyv_to_yvu420sp(f) ==
    LumaPlane(f) \union
    {<<f.dst * f.dstHeight + PlaneRow(f, y, f.dst) + 2 * k + i,
       MeanOfRows(f, y, k, 3 - 2 * i)>> :
        y \in RowPairs(f), k \in 0 .. Pairs(f) - 1, i \in {0, 1}}

\* ((dstStride >> 1) + 15) & (-16)
ChromaStride(f) == 16 * ((f.dst \div 2 + 15) \div 16)

\* Two planes follow; first and second are the places of their components in
\* a pair of YUYV.
TwoPlanes(f, first, second) ==
    LET start(i) == f.dst * f.dstHeight + i * ((ChromaStride(f) * f.dstHeight) \div 2)
    IN  LumaPlane(f) \union
        {<<start(i) + HalfRow(f, y, ChromaStride(f)) + k,
           MeanOfRows(f, y, k, IF i = 0 THEN first ELSE second)>> :
            y \in RowPairs(f), k \in 0 .. Pairs(f) - 1, i \in {0, 1}}

yuyv_to_yvu420p(f) == TwoPlanes(f, 3, 1)
yuyv_to_yuv420p(f) == TwoPlanes(f, 1, 3)

\* Red, green, blue and a byte that is not written, for each of w \div 2 pairs.
yuyv_to_rgb32(f) ==
    {<<f.dst * y + 8 * k + 4 * i + c,
       LET at == f.src * y + 4 * k
       IN  CASE c = 0 -> <<at + 2 * i, at + 3>>
             [] c = 1 -> <<at + 2 * i, at + 1, at + 3>>
             [] c = 2 -> <<at + 2 * i, at + 1>>>> :
        y \in Rows(f), k \in 0 .. f.w \div 2 - 1, i \in {0, 1}, c \in 0 .. 2}
=============================================================================
