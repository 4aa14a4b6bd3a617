----------------------------- MODULE VideoFrame -----------------------------
(***************************************************************************)
(* The frame buffer player (linux_emb/tp4/TP_FRAMEBUFFER/videodisplay.c):  *)
(* readVideo walks through the frames of a file in format YUV 4:2:0,       *)
(* YUVtoRGB through the pixels of a frame with four running indices.       *)
(* Which byte goes to which pixel is modelled, the colours are not.        *)
(***************************************************************************)
EXTENDS Integers

CONSTANTS VIDEO_WIDTH, VIDEO_HEIGHT,
          frame_buffer_line,    \* pixels of a screen line
          FRAME_NUMBER

\* The videos of the program are 1280 by 720 and 352 by 288.
ASSUME VideoAssumption ==
    /\ VIDEO_WIDTH \in Nat \ {0} /\ VIDEO_WIDTH % 2 = 0
    /\ VIDEO_HEIGHT \in Nat \ {0} /\ VIDEO_HEIGHT % 2 = 0
    /\ frame_buffer_line \in Nat /\ frame_buffer_line >= VIDEO_WIDTH
    /\ FRAME_NUMBER \in Nat

VARIABLES frame_num,
          inc_Y, inc_UV, pos_fb, line_number

frameVars == <<frame_num, inc_Y, inc_UV, pos_fb, line_number>>

Size == VIDEO_WIDTH * VIDEO_HEIGHT

\* Mutant: frames in format 4:2:2.
Y_422(n) == n * (Size * 2)

\* The start of the planes of a frame in the file
Y(n) == n * ((Size * 6) \div 4)
U(n) == Y(n) + Size
V(n) == Y(n) + (Size * 5) \div 4

VideoInit == /\ frame_num = 0
             /\ inc_Y = 0 /\ inc_UV = 0 /\ pos_fb = 0 /\ line_number = 0

Drawing == frame_num < FRAME_NUMBER /\ inc_Y < Size

\* Mutant: the chrominance line is not repeated.
NewLine_no_repeat ==
    /\ inc_UV' = inc_UV + 1
    /\ pos_fb' = pos_fb + frame_buffer_line - VIDEO_WIDTH + 1
    /\ line_number' = line_number + 1

\* The last pixel of a line: an even line's chrominance serves again.
NewLine ==
    /\ inc_UV' = IF line_number % 2 = 0 THEN inc_UV - VIDEO_WIDTH \div 2 + 1 ELSE inc_UV + 1
    /\ pos_fb' = pos_fb + frame_buffer_line - VIDEO_WIDTH + 1
    /\ line_number' = line_number + 1

\* Every other pixel goes on in the chrominance planes.
SameLine ==
    /\ inc_UV' = IF inc_Y % 2 = 1 THEN inc_UV + 1 ELSE inc_UV
    /\ pos_fb' = pos_fb + 1
    /\ UNCHANGED line_number

\* YUVtoRGB: one pixel.
Pixel == /\ Drawing
         /\ inc_Y' = inc_Y + 1
         /\ IF inc_Y % VIDEO_WIDTH = VIDEO_WIDTH - 1 THEN NewLine ELSE SameLine
         /\ UNCHANGED frame_num

\* readVideo calls YUVtoRGB for the next frame.
NextFrame == /\ frame_num < FRAME_NUMBER /\ inc_Y = Size
             /\ frame_num' = frame_num + 1
             /\ inc_Y' = 0 /\ inc_UV' = 0 /\ pos_fb' = 0 /\ line_number' = 0

VideoNext == Pixel \/ NextFrame

VideoSpec == VideoInit /\ [][VideoNext]_frameVars
-----------------------------------------------------------------------------
(***************************************************************************)
(* Safety: the pixel in column c of line l is drawn at its place on the    *)
(* screen, with its own luminance and with the chrominance of its block of *)
(* two by two pixels.                                                      *)
(***************************************************************************)
PixelInPlace ==
    Drawing =>
      \E l \in 0 .. VIDEO_HEIGHT - 1, c \in 0 .. VIDEO_WIDTH - 1 :
         /\ inc_Y  = l * VIDEO_WIDTH + c
         /\ pos_fb = l * frame_buffer_line + c
         /\ inc_UV = (l \div 2) * (VIDEO_WIDTH \div 2) + c \div 2
         /\ line_number = l

(***************************************************************************)
(* Safety: the frames follow each other without gap or overlap.  When      *)
(* YUVtoRGB is done with a frame its indices have gone through each plane, *)
(* to where the next one begins, and through the last to the next frame.   *)
(***************************************************************************)
FramesFollow ==
    frame_num < FRAME_NUMBER /\ inc_Y = Size =>
      /\ Y(frame_num) + inc_Y  = U(frame_num)
      /\ U(frame_num) + inc_UV = V(frame_num)
      /\ V(frame_num) + inc_UV = Y(frame_num + 1)
=============================================================================
