-------------------------------- MODULE Panel --------------------------------
(***************************************************************************)
(* How a Display gets onto the two kinds of panel: onRenderPass() of       *)
(* src/src/web_proxy/display.cpp, the frame of the renderer around it, and *)
(* the pixel buffers behind BufferedLED (apa102.cpp with spotiled.cpp, and *)
(* ikea.cpp). Both are driven at once here; the program has one of them.   *)
(*                                                                         *)
(* A colour is <<r, g, b>>. Floating point numbers are taken as rationals; *)
(* a channel that leaves 0..255, which C++ leaves undefined, keeps its low *)
(* byte, as the ARM and the x86 builds do. The cosine of the wave is any   *)
(* fraction k / MaxWave, the same for all columns of a frame.              *)
(***************************************************************************)
EXTENDS Integers, Sequences, SequencesExt

CONSTANTS
    Pictures,   \* [logo, cells, width, height, xscroll, wave] of a Display
    MaxWave,
    FrameTime,  \* milliseconds between two frames
    MaxElapsed

Channel == 0..255

Colors == [1..3 -> Channel]

ASSUME PanelAssumption ==
    /\ \A p \in Pictures :
          /\ p.logo \in Colors /\ p.cells \in Seq([color : Colors, alpha : Channel])
          /\ p.width \in Nat /\ p.height \in Nat
          /\ p.xscroll \in Int /\ p.wave \in BOOLEAN
    /\ MaxWave \in Nat \ {0}
    /\ FrameTime \in Nat \ {0} /\ MaxElapsed \in Nat

VARIABLES
    picture,    \* the Display on the panel
    elapsed,    \* since the program began: there is one render callback for all
    fraction,   \* of the wave in this frame
    leds,       \* BufferImpl::_buf, the colour of each LED
    bits        \* IkeaLED::_data, the set of its bits that are 1

panelVars == <<picture, elapsed, fraction, leds, bits>>

-----------------------------------------------------------------------------
Leds == 0..(19 + 16 * 23 - 1)

Logo == 0..18

Black == <<0, 0, 0>>

Dark == [i \in Leds |-> Black]

(* Mutant: without the floor of 1.                                         *)
Luminance_NoFloor(c) == ((299 * c[1] + 587 * c[2] + 114 * c[3]) \div 1000) % 256

(* The luminance, cut to eight bits.                                       *)
Luminance(c) ==
    LET p == 299 * c[1] + 587 * c[2] + 114 * c[3]
    IN  (IF p = 0 THEN 0 ELSE Max({p \div 1000, 1})) % 256

(* BufferImpl::set() of one LED with {.src = alpha / 255}: both colours    *)
(* are added and scaled to the luminance of the brighter one.              *)
Blend(led, c, alpha) ==
    LET sum == [k \in 1..3 |-> 255 * led[k] + alpha * c[k]]    \* times 255
        most == Max({Luminance(led), Luminance(c)})
        all == Luminance([k \in 1..3 |-> sum[k] \div 255])
    IN  IF all = 0 THEN led ELSE [k \in 1..3 |-> ((sum[k] * most) \div (255 * all)) % 256]

None == -1

(* The LED, and the bit, that SpotiLED::set() and IkeaLED::set() write to. *)
SpotiOffset(at) ==
    IF at \in (0..22) \X (0..15) THEN 19 + 16 * at[1] + 15 - at[2] ELSE None

Offset(x, y) ==
    LET half == x \div 8
        lower == IF y % 4 >= 2 THEN 1 ELSE 0
        index == 2 + lower * 2 + (lower * 4 * half - half * 2) + (y % 2)
    IN  64 * (y \div 4) + 8 * index + (IF index % 2 = 1 THEN x % 8 ELSE 7 - (x % 8))

IkeaOffset(at) == IF at \in (0..15) \X (0..15) THEN Offset(at[1], at[2]) ELSE None

-----------------------------------------------------------------------------
(* Division and remainder of C++.                                          *)
Quotient(n, d) == IF n >= 0 THEN n \div d ELSE -((-n) \div d)

(* Mutant: the remainder is never negative.                                *)
Remainder_Floored(n, d) == n % d

Remainder(n, d) == n - d * Quotient(n, d)

Wide(p) == Max({p.width, 23})

High(p) == IF p.height = 0 THEN 16 ELSE p.height

Shift(p, ms) == Quotient(p.xscroll * ms, 1000)

Column(p, ms, sx) == IF p.xscroll = 0 THEN sx ELSE 23 + Remainder(sx - Shift(p, ms), Wide(p))

Row(y, k) == y + Quotient((15 - 2 * y) * k, 2 * MaxWave)

(* Where the i-th pixel goes.                                              *)
At(p, ms, k, i) ==
    LET y == (i - 1) % High(p)
    IN  <<Column(p, ms, (i - 1) \div High(p)), IF p.wave THEN Row(y, k) ELSE y>>

(* The pixels that a frame puts in one place.                              *)
Put(targets, place) == {n \in DOMAIN targets : targets[n] = place}

(* An LED, which was dark, once these pixels were put on it in their order. *)
Painted(p, pixels) ==
    LET led[first \in SUBSET pixels] ==
            IF first = {} THEN Black
            ELSE LET n == Max(first) IN Blend(led[first \ {n}], p.cells[n].color, p.cells[n].alpha)
    IN  led[pixels]

(* renderFrame() with onRenderPass() as its callback: all dark, then the   *)
(* logo, then the pixels one after the other; places do not interact.      *)
SpotiFrame(p, ms, k) ==
    LET targets == [n \in DOMAIN p.cells |-> SpotiOffset(At(p, ms, k, n))]
        used == ToSet(targets)
    IN  [i \in Leds |->
            IF i \in Logo THEN Blend(Black, p.logo, 255)
            ELSE IF i \notin used THEN Black
            ELSE Painted(p, Put(targets, i))]

(* The last pixel counts: black clears the bit, any other colour sets it.  *)
IkeaFrame(p, ms, k) ==
    LET targets == [n \in DOMAIN p.cells |-> IkeaOffset(At(p, ms, k, n))]
    IN  {i \in ToSet(targets) \ {None} : p.cells[Max(Put(targets, i))].color # Black}

-----------------------------------------------------------------------------
PanelInit ==
    /\ picture \in Pictures
    /\ elapsed = 0 /\ fraction = 0
    /\ leds = SpotiFrame(picture, 0, 0)
    /\ bits = IkeaFrame(picture, 0, 0)

Frame ==
    /\ elapsed + FrameTime <= MaxElapsed
    /\ elapsed' = elapsed + FrameTime
    /\ fraction' \in IF picture.wave THEN 0..MaxWave ELSE {0}
    /\ leds' = SpotiFrame(picture, elapsed', fraction')
    /\ bits' = IkeaFrame(picture, elapsed', fraction')
    /\ UNCHANGED picture

PanelSpec == PanelInit /\ [][Frame]_panelVars

-----------------------------------------------------------------------------
Where == [n \in DOMAIN picture.cells |-> At(picture, elapsed, fraction, n)]

Cells(where, place) == {n \in DOMAIN where : where[n] = place}

(* Nothing of a frame is lost or lit twice on the Ikea panel: it shows the *)
(* last pixel put at each place, on the shift register that the table in   *)
(* ikea.cpp:105-108 tells, and nothing else.                               *)
Wiring == <<<<2, 0>>, <<3, 1>>, <<4, 6>>, <<5, 7>>>>

Wire(at) ==
    LET byte == Wiring[(at[2] % 4) + 1][at[1] \div 8 + 1]
    IN  64 * (at[2] \div 4) + 8 * byte + (IF byte % 2 = 1 THEN at[1] % 8 ELSE 7 - (at[1] % 8))

IkeaShowsLast ==
    LET where == Where
        seen == ToSet(where) \intersect ((0..15) \X (0..15))
    IN  bits = {Wire(at) : at \in {q \in seen : picture.cells[Max(Cells(where, q))].color # Black}}

(* The arithmetic of set() (apa102.cpp:68-81) is exact where nothing is    *)
(* blended: an LED that one opaque pixel was put on has its colour, one    *)
(* without a pixel is dark, and the logo has its own. What is left is      *)
(* blending, where channels do overflow (two white pixels in one place).   *)
ExactUnlessBlended ==
    LET where == Where
        seen == ToSet(where) \intersect ((0..22) \X (0..15))
        led(at) == 19 + 16 * at[1] + (15 - at[2])
    IN  /\ \A i \in Logo : leds[i] = picture.logo
        /\ {i \in Leds : leds[i] # Black} \ Logo \subseteq {led(at) : at \in seen}
        /\ \A at \in seen :
               LET cells == Cells(where, at)
                   cell == picture.cells[Max(cells)]
               IN  cells = {Max(cells)} /\ cell.alpha = 255 => leds[led(at)] = cell.color

(* A picture that scrolls left is a tape of max(width, 23) columns which   *)
(* goes round, and comes in from the right if the program just began; the  *)
(* panel shows the column that the tape has there. One that scrolls right  *)
(* is never seen (display.cpp:21). The one exception: a tape as wide as    *)
(* the panel is never seen in the leftmost column.                         *)
ScrollsAsTape ==
    picture.xscroll # 0 =>
        LET t == Shift(picture, elapsed)
            columns == 0..((Len(picture.cells) \div High(picture)) - 1)
        IN  \A x \in 0..22 :
                {sx \in columns : Column(picture, elapsed, sx) = x} =
                    IF x = 0 /\ Wide(picture) = 23 THEN {}
                    ELSE {sx \in columns : sx < t /\ (sx - (x + t - 23)) % Wide(picture) = 0}

(* The wave folds a picture towards its middle line without mixing it up:  *)
(* rows of the upper half stay there, as do those of the lower half, and   *)
(* no row passes another (display.cpp:24-28).                              *)
WaveKeepsOrder ==
    \A y \in 0..15 :
        /\ y < 8 => Row(y, fraction) \in y..7
        /\ y >= 8 => Row(y, fraction) \in 8..y
        /\ y > 0 => Row(y - 1, fraction) <= Row(y, fraction)

(* A picture is shown as its pixels say, on either kind of panel.          *)
ShownAsDrawn == IkeaShowsLast /\ ExactUnlessBlended

(* A picture that moves keeps its columns and rows in order.               *)
MotionKeepsOrder == ScrollsAsTape /\ WaveKeepsOrder
=============================================================================
