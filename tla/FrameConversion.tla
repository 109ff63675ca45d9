-------------------------- MODULE FrameConversion --------------------------
(***************************************************************************)
(* The encoder's colour conversion and its checks, of                      *)
(* rust/virtual-display-driver/src/encoder.rs: a frame of four bytes per   *)
(* pixel becomes a plane of lumas and two planes of chromas, of which one  *)
(* pixel in four has one, and each frame of a file gets a time stamp.      *)
(*                                                                         *)
(* A frame's width and height are those of the monitor's mode, which may   *)
(* be odd; the doc of YuvConverter::new says that both must be even.       *)
(***************************************************************************)
EXTENDS Integers

Byte == 0 .. 255
Size == Nat \ {0}

\* YuvConverter::new, encode_frame: the lengths of the buffers, in u32.
PlaneSize(w, h)  == w * h
ChromaSize(w, h) == PlaneSize(w, h) \div 4
FrameSize(w, h)  == PlaneSize(w, h) * 4

\* convert: where a pixel's bytes are, and where its luma and its chromas go.
PixelIndex(w, x, y)  == (y * w + x) * 4
LumaIndex(w, x, y)   == y * w + x
ChromaIndex(w, x, y) == (y \div 2) * (w \div 2) + (x \div 2)
HasChroma(x, y)      == y % 2 = 0 /\ x % 2 = 0

\* The matrix; >> 8 of a negative number rounds down, as \div does.
Luma(r, g, b) == (66 * r + 129 * g + 25 * b + 128) \div 256 + 16
Cb(r, g, b)   == (-38 * r - 74 * g + 112 * b + 128) \div 256 + 128
Cr(r, g, b)   == (112 * r - 94 * g - 18 * b + 128) \div 256 + 128

Clamp(v) == IF v < 0 THEN 0 ELSE IF v > 255 THEN 255 ELSE v

\* encode_frame: a frame of another length is refused.
Accepts(w, h, length) == length = FrameSize(w, h)

\* The time stamp of a frame, in milliseconds; every frame counts, also one the
\* encoder skips.
TimeStamp(count, fps) == (count * 1000) \div fps

\* try_send_frame (recording.rs): a frame passes if fewer were sent than the time allows.
Passes(sent, elapsed, fps) == sent < (elapsed * fps) \div 1000
=============================================================================
