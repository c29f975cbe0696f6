------------------------------ MODULE Blitter ------------------------------
(***************************************************************************)
(* The blitter and the renderer of graphics.c.  The CPU thread executes a  *)
(* blitter command whole, inside the store to BLIT_CMD (memory.c 98);      *)
(* main renders frame after frame from the same VRAM without a lock, so a  *)
(* command may fall between any two rows of a frame.                       *)
(*                                                                         *)
(* The four pixel formats differ only in how many pixels share a byte,     *)
(* 2^mode, so one definition stands for each chain of ifs over the mode.   *)
(* VramSize stands for 2^16; the width of the screen keeps the code's      *)
(* granularity of eight pixels (whole bytes in every mode).  A command is  *)
(* a record of the blitter's registers; a clip rectangle is used only with *)
(* flag 8.  The memory a command may copy from is a constant: the loads    *)
(* are BankedMemory's.  SDL is left out, and rendering unpacks row by row  *)
(* where the code goes byte by byte.                                       *)
(***************************************************************************)
EXTENDS Integers, Sequences, FiniteSets, ByteLogic

CONSTANTS VramSize,     \* bytes of VRAM; the last 16 hold the palette
          ResW, ResH,   \* resolution in pixels
          Memory,       \* what a copy from memory reads, from address 0
          Behind,       \* what a read behind the end of VRAM finds: undefined in C
          Jobs,         \* sequences of commands, one of which the guest gives
          Modes,        \* values of GFX_CTRL & 3
          Patterns      \* contents of VRAM to begin with

Byte == 0..255
Word == 0..65535
Short == -32768..32767
Clips == {<<>>} \cup [1..4 -> Word]
\* The blitter's registers, as execute_blit takes them from the MMIO block.
Commands ==
    [cmd : Byte, sx : Word, sy : Word, dx : Short, dy : Short, w : Word, h : Word,
     sstride : Word, dstride : Word, color : Byte, alpha : Byte,
     flipx : BOOLEAN, flipy : BOOLEAN, blend : BOOLEAN, clip : Clips]

ASSUME BlitterAssumption == /\ VramSize \in Nat /\ ResW \in Nat \ {0} /\ ResH \in Nat \ {0}
                            /\ ResW % 8 = 0
                            /\ ResW * ResH + 16 <= VramSize
ASSUME GuestAssumption == /\ Jobs \subseteq Seq(Commands)
                          /\ Modes \subseteq 0..3
                          /\ Memory \in Seq(Byte) \ {<<>>} /\ Behind \in Byte
                          /\ Patterns \subseteq [0..VramSize - 1 -> Byte]

VARIABLES vram, mode,
          job,          \* commands still to be given
          row,          \* rows of the current frame unpacked; -1 between frames
          colors,       \* the palette read for the current frame
          processed,    \* processed_vram
          frame         \* what is on the screen: a colour for each pixel

vars == <<vram, mode, job, row, colors, processed, frame>>

Fill == 1
MemCopy == 2
MemKeyed == 3
VramCopy == 4
VramKeyed == 5
XorFill == 6
Line == 7

PaletteStart == VramSize - 16
Smaller(a, b) == IF a < b THEN a ELSE b
Greater(a, b) == IF a > b THEN a ELSE b
Abs(n) == IF n < 0 THEN -n ELSE n

-----------------------------------------------------------------------------
(* Pixels *)

PerByte(m) == <<1, 2, 4, 8>>[m + 1]
Depth(m) == <<256, 16, 4, 2>>[m + 1]      \* number of values of a pixel
\* Weight of the pixel in column x in its byte: the first one is the highest.
Weights(m) == <<<<1>>, <<16, 1>>, <<64, 16, 4, 1>>, <<128, 64, 32, 16, 8, 4, 2, 1>>>>[m + 1]
Weight(m, x) == Weights(m)[1 + (x % PerByte(m))]
\* The pixel of column x in its byte.
Part(byte, m, x) == (byte \div Weight(m, x)) % Depth(m)
AddressOf(m, x, y, stride) == y * (stride \div PerByte(m)) + (x \div PerByte(m))

\* Unlike a write's, the address of a read is not cut to 16 bits.
read_pixel_vram(v, m, x, y, stride) ==
    LET a == AddressOf(m, x, y, stride)
    IN  Part(IF a \in DOMAIN v THEN v[a] ELSE Behind, m, x)

\* Channels of an RGB332 byte, mixed one by one and truncated.
Channels(c) == <<c \div 32, (c \div 4) % 8, c % 4>>
Mix(s, d, alpha) == (s * alpha + d * (255 - alpha)) \div 255

\* Seeded bug: the weights of source and destination exchanged.
BlendSwapped(src, dst, alpha) ==
    LET s == Channels(src)  d == Channels(dst)
    IN  32 * Mix(d[1], s[1], alpha) + 4 * Mix(d[2], s[2], alpha) + Mix(d[3], s[3], alpha)

Blend(src, dst, alpha) ==
    LET s == Channels(src)  d == Channels(dst)
    IN  32 * Mix(s[1], d[1], alpha) + 4 * Mix(s[2], d[2], alpha) + Mix(s[3], d[3], alpha)

\* The value a pixel gets, from its old one and the one to write.
Combined(m, b, old, color) ==
    IF b.cmd = XorFill THEN old ^^ (color % Depth(m))
    ELSE IF m = 0 /\ b.blend THEN Blend(color, old, b.alpha)
    ELSE color % Depth(m)

\* Seeded bug: the rest of the byte is not kept.
WriteAlone(v, m, b, x, y, stride, color) ==
    LET a == AddressOf(m, x, y, stride) % VramSize
        old == Part(v[a], m, x)
    IN  [v EXCEPT ![a] = Combined(m, b, old, color) * Weight(m, x)]

\* Seeded bug: XOR combines with the pixel at the low end of the byte.
WriteLowXor(v, m, b, x, y, stride, color) ==
    LET a == AddressOf(m, x, y, stride) % VramSize
        old == Part(v[a], m, x)
    IN  [v EXCEPT ![a] = @ + (Combined(m, b, IF b.cmd = XorFill THEN v[a] % Depth(m) ELSE old, color)
                               - old) * Weight(m, x)]

write_pixel_vram(v, m, b, x, y, stride, color) ==
    LET a == AddressOf(m, x, y, stride) % VramSize
        old == Part(v[a], m, x)
    IN  [v EXCEPT ![a] = @ + (Combined(m, b, old, color) - old) * Weight(m, x)]

-----------------------------------------------------------------------------
(* Commands *)

SrcStride(b) == IF b.sstride # 0 THEN b.sstride ELSE IF b.cmd <= MemKeyed THEN b.w ELSE ResW
DstStride(b) == IF b.dstride # 0 THEN b.dstride ELSE ResW
Clip(b) == IF b.clip = <<>> THEN [x |-> 0..ResW - 1, y |-> 0..ResH - 1]
                            ELSE [x |-> b.clip[1]..b.clip[2], y |-> b.clip[3]..b.clip[4]]

get_source_pixel(v, m, b, cx, cy) ==
    IF b.cmd <= MemKeyed
    THEN Memory[1 + ((b.sx + cy * SrcStride(b) + cx) % Len(Memory))]
    ELSE IF b.sx + cx >= ResW \/ b.sy + cy >= ResH THEN 0
    ELSE read_pixel_vram(v, m, b.sx + cx, b.sy + cy, SrcStride(b))

\* Where the cell (cx, cy) of a rectangle goes.
OutX(b, cx) == b.dx + (IF b.flipx THEN b.w - 1 - cx ELSE cx)
OutY(b, cy) == b.dy + (IF b.flipy THEN b.h - 1 - cy ELSE cy)

\* One turn of a drawing loop, at the dot d: a place, and the cell it shows.
Dot(v, m, b, d) ==
    LET src == IF b.cmd \in MemCopy..VramKeyed THEN get_source_pixel(v, m, b, d.cx, d.cy) ELSE b.color
    IN  IF \/ d.x \notin Clip(b).x \/ d.y \notin Clip(b).y
           \/ b.cmd \in {MemKeyed, VramKeyed} /\ src = b.color
        THEN v
        ELSE write_pixel_vram(v, m, b, d.x, d.y, DstStride(b), src)

\* VRAM after each number of the dots of a path, one after the other.
After(v, m, b, path) ==
    LET after[n \in 0..Len(path)] == IF n = 0 THEN v ELSE Dot(after[n - 1], m, b, path[n])
    IN  after
Drawn(v, m, b, path) == After(v, m, b, path)[Len(path)]

\* The general path: cell by cell, row by row.
RectanglePath(b) ==
    [n \in 1..b.w * b.h |->
        LET cx == (n - 1) % b.w  cy == (n - 1) \div b.w
        IN  [x |-> OutX(b, cx), y |-> OutY(b, cy), cx |-> cx, cy |-> cy]]
General(v, m, b) == Drawn(v, m, b, RectanglePath(b))

\* The fast path: a row at a time with memset.  What memset writes past the
\* end of VRAM does not come back at its beginning.
FastX(b) == [from |-> Greater(b.dx, IF b.clip = <<>> THEN 0 ELSE b.clip[1]),
             to |-> Smaller(b.dx + b.w - 1, IF b.clip = <<>> THEN ResW - 1 ELSE b.clip[2])]

\* Seeded bug: a span one pixel short.
FastFillShort(v, b) ==
    LET span == FastX(b).to - FastX(b).from - 1
        starts == {(y * DstStride(b) + FastX(b).from) % VramSize :
                     y \in {y \in Clip(b).y : y \in b.dy..b.dy + b.h - 1}}
    IN  [a \in DOMAIN v |-> IF \E s \in starts : a \in s..s + span THEN b.color ELSE v[a]]

FastFill(v, b) ==
    LET span == FastX(b).to - FastX(b).from
        starts == {(y * DstStride(b) + FastX(b).from) % VramSize :
                     y \in {y \in Clip(b).y : y \in b.dy..b.dy + b.h - 1}}
    IN  [a \in DOMAIN v |-> IF \E s \in starts : a \in s..s + span THEN b.color ELSE v[a]]

FastApplies(m, b) ==
    /\ m = 0 /\ b.cmd = Fill /\ ~b.flipx /\ ~b.flipy /\ ~b.blend
    /\ FastX(b).from <= FastX(b).to

blit_rectangle(v, m, b) == IF FastApplies(m, b) THEN FastFill(v, b) ELSE General(v, m, b)

\* A line from (sx, sy) to (dx, dy), place after place with the error term,
\* up to the first that is the end.
DeltaX(b) == Abs(b.dx - b.sx)
DeltaY(b) == -Abs(b.dy - b.sy)
StepX(b) == IF b.sx < b.dx THEN 1 ELSE -1
StepY(b) == IF b.sy < b.dy THEN 1 ELSE -1
NextPlace(b, p) ==
    LET goX == 2 * p.err >= DeltaY(b)
        goY == 2 * p.err <= DeltaX(b)
    IN  [x |-> IF goX THEN p.x + StepX(b) ELSE p.x,
         y |-> IF goY THEN p.y + StepY(b) ELSE p.y,
         err |-> p.err + (IF goX THEN DeltaY(b) ELSE 0) + (IF goY THEN DeltaX(b) ELSE 0)]
Track(b) ==
    LET track[n \in 0..(DeltaX(b) - DeltaY(b))] ==
            IF n = 0 THEN [x |-> b.sx, y |-> b.sy, err |-> DeltaX(b) + DeltaY(b)]
            ELSE NextPlace(b, track[n - 1])
    IN  track
Ends(b, n) == Track(b)[n].x = b.dx /\ Track(b)[n].y = b.dy
Last(b) == CHOOSE n \in DOMAIN Track(b) : Ends(b, n) /\ \A k \in 0..n - 1 : ~Ends(b, k)
\* Seeded bug: the loop ends before the last dot is drawn.
OpenPath(b) == [n \in 1..Last(b) |-> [x |-> Track(b)[n - 1].x, y |-> Track(b)[n - 1].y, cx |-> 0, cy |-> 0]]
LinePath(b) == [n \in 1..Last(b) + 1 |-> [x |-> Track(b)[n - 1].x, y |-> Track(b)[n - 1].y, cx |-> 0, cy |-> 0]]
blit_line(v, m, b) == Drawn(v, m, b, LinePath(b))

execute_blit(v, m, b) == IF b.cmd = 0 THEN v
                         ELSE IF b.cmd = Line THEN blit_line(v, m, b) ELSE blit_rectangle(v, m, b)

-----------------------------------------------------------------------------
(* The two threads *)

\* update_colors: the 332 colours in mode 0, else the palette in VRAM.
update_colors == [c \in 0..Depth(mode) - 1 |-> IF mode = 0 THEN c ELSE vram[PaletteStart + c]]

Init ==
    /\ vram \in Patterns /\ mode \in Modes /\ job \in Jobs
    /\ row = -1 /\ colors = update_colors
    /\ processed = [p \in (0..ResW - 1) \X (0..ResH - 1) |-> 0]
    /\ frame = processed

\* The CPU thread gives the next command of its job.
Command ==
    /\ job # <<>>
    /\ vram' = execute_blit(vram, mode, Head(job))
    /\ job' = Tail(job)
    /\ UNCHANGED <<mode, row, colors, processed, frame>>

\* Main begins a frame: the colours come first.
BeginFrame ==
    /\ row = -1
    /\ row' = 0 /\ colors' = update_colors
    /\ UNCHANGED <<vram, mode, job, processed, frame>>

\* Seeded bug: the low end of the byte comes first.
UnpackedLow(v, i) ==
    (v[i \div PerByte(mode)] \div Weights(mode)[PerByte(mode) - (i % PerByte(mode))]) % Depth(mode)

\* Pixel i of the frame, as the loops of lines 232-258 take it out of its byte
\* (they do not use read_pixel_vram).
Unpacked(v, i) == (v[i \div PerByte(mode)] \div Weight(mode, i)) % Depth(mode)

UnpackRow ==
    /\ row \in 0..ResH - 1
    /\ processed' = [p \in DOMAIN processed |->
                       IF p[2] = row THEN Unpacked(vram, p[2] * ResW + p[1]) ELSE processed[p]]
    /\ row' = row + 1
    /\ UNCHANGED <<vram, mode, job, colors, frame>>

Present ==
    /\ row = ResH
    /\ frame' = [p \in DOMAIN processed |-> colors[processed[p]]]
    /\ row' = -1
    /\ UNCHANGED <<vram, mode, job, colors, processed>>

Render == BeginFrame \/ UnpackRow \/ Present
Next == Command \/ Render

Spec == Init /\ [][Next]_vars
\* Main renders on every turn of its loop (main.c 199-206).
FairSpec == Spec /\ WF_vars(Render)

-----------------------------------------------------------------------------
(* Properties.  Those of a command relate the two states of its step. *)

Given(cmds) == job' # job /\ Head(job).cmd \in cmds

Pixel(v, p) == read_pixel_vram(v, mode, p[1], p[2], ResW)
Screen == (0..ResW - 1) \X (0..ResH - 1)
ClipOnScreen(b) == Clip(b).x \subseteq 0..ResW - 1 /\ Clip(b).y \subseteq 0..ResH - 1
Plain(b) == DstStride(b) = ResW /\ SrcStride(b) = (IF b.cmd <= MemKeyed THEN b.w ELSE ResW)

\* The fast path of blit_rectangle (lines 333-353) leaves VRAM as the general
\* path below it would, for every rectangle, clip and stride, unless a row of
\* it runs over the end of VRAM (where the general path wraps pixel by pixel).
RowsWithin(b) ==
    \A y \in Clip(b).y \cap (b.dy..b.dy + b.h - 1) :
        ((y * DstStride(b) + FastX(b).from) % VramSize) + (FastX(b).to - FastX(b).from) < VramSize
FillsAgree ==
    [][Given({Fill}) /\ FastApplies(mode, Head(job)) /\ RowsWithin(Head(job))
         => vram' = General(vram, mode, Head(job))]_vars

\* Giving an XOR rectangle twice brings VRAM back, in every pixel format and
\* even where rows overlap because the stride is short: a cursor drawn by
\* command 6 can be taken away again.
XorTwiceRestores ==
    [][Given({XorFill}) => execute_blit(vram', mode, Head(job)) = vram]_vars

\* A command changes no pixel outside its rectangle (a line, outside the box
\* of its ends) or outside the clip rectangle, and nothing behind the screen:
\* neighbours in the same byte and the palette survive.
Asked(b, p) ==
    /\ p[1] \in Clip(b).x /\ p[2] \in Clip(b).y
    /\ IF b.cmd = Line
       THEN /\ p[1] \in Smaller(b.sx, b.dx)..Greater(b.sx, b.dx)
            /\ p[2] \in Smaller(b.sy, b.dy)..Greater(b.sy, b.dy)
       ELSE p[1] \in b.dx..b.dx + b.w - 1 /\ p[2] \in b.dy..b.dy + b.h - 1
OnlyAskedPixels ==
    [][Given(Fill..Line) /\ Plain(Head(job)) /\ ClipOnScreen(Head(job)) =>
        /\ \A p \in Screen : Pixel(vram', p) # Pixel(vram, p) => Asked(Head(job), p)
        /\ \A a \in (ResW * ResH) \div PerByte(mode)..VramSize - 1 : vram'[a] = vram[a]]_vars

\* Copies and fills do what they say: a pixel of the target rectangle inside
\* the clip gets the source pixel its cell names (mirrored by the flip
\* flags), keeps its value under the key colour, and under the alpha flag
\* each channel ends between the old and the new one, equal to the old at 0
\* and to the new at 255.  A copy within VRAM goes forward, so the property
\* asks that source and target do not overlap or that, without flips, the
\* target comes first.
Apart(b) == \/ b.sx + b.w <= b.dx \/ b.dx + b.w <= b.sx
            \/ b.sy + b.h <= b.dy \/ b.dy + b.h <= b.sy
TargetFirst(b) == ~b.flipx /\ ~b.flipy /\ (b.dy < b.sy \/ (b.dy = b.sy /\ b.dx <= b.sx))
Between(a, x, y) == x \in Smaller(a, y)..Greater(a, y)
CellDone(before, after, b, cx, cy) ==
    LET p == <<OutX(b, cx), OutY(b, cy)>>
        src == IF b.cmd = Fill THEN b.color ELSE get_source_pixel(before, mode, b, cx, cy)
        old == Pixel(before, p)  new == Pixel(after, p)
    IN  p[1] \in Clip(b).x /\ p[2] \in Clip(b).y =>
          IF b.cmd \in {MemKeyed, VramKeyed} /\ src = b.color THEN new = old
          ELSE IF mode = 0 /\ b.blend
          THEN /\ \A i \in 1..3 : Between(Channels(old)[i], Channels(new)[i], Channels(src)[i])
               /\ b.alpha = 0 => new = old
               /\ b.alpha = 255 => new = src
          ELSE new = src % Depth(mode)
TargetGetsSource ==
    [][LET b == Head(job)
       IN  /\ Given(Fill..VramKeyed) /\ Plain(b) /\ ClipOnScreen(b)
           /\ b.cmd \in {VramCopy, VramKeyed} => Apart(b) \/ TargetFirst(b)
           => \A cx \in 0..b.w - 1, cy \in 0..b.h - 1 : CellDone(vram, vram', b, cx, cy)]_vars

\* An opaque line inside the clip rectangle in a fresh colour marks both ends,
\* exactly one pixel per step along its longer axis, each within half a
\* pixel of the true line: the error term never drifts.
Thin(b, drawn) ==
    LET n == Greater(Abs(b.dx - b.sx), Abs(b.dy - b.sy))
    IN  /\ {<<b.sx, b.sy>>, <<b.dx, b.dy>>} \subseteq drawn
        /\ Cardinality(drawn) = n + 1
        /\ \A p \in drawn :
             2 * Abs((p[1] - b.sx) * (b.dy - b.sy) - (p[2] - b.sy) * (b.dx - b.sx)) <= n
LineIsThin ==
    [][LET b == Head(job)
       IN  /\ Given({Line}) /\ ~b.blend /\ Plain(b) /\ ClipOnScreen(b)
           /\ {b.sx, b.dx} \subseteq Clip(b).x /\ {b.sy, b.dy} \subseteq Clip(b).y
           /\ \A p \in Screen : Pixel(vram, p) # b.color % Depth(mode)
           => Thin(b, {p \in Screen : Pixel(vram', p) # Pixel(vram, p)})]_vars

\* Frames may be torn while the guest draws, but once it has stopped the
\* screen comes to show, for every pixel, the colour that the blitter's own
\* reading of VRAM gives it.
FrameCatchesUp ==
    job = <<>> ~> frame = [p \in Screen |-> update_colors[Pixel(vram, p)]]

=============================================================================
