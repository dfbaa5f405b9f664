------------------------------- MODULE Display -------------------------------
(***************************************************************************)
(* The picture in the window and the touches on it: the idle branch of     *)
(* application_run, application_resize_window_for_video and on_resize,     *)
(* d3d_context_resize, video_renderer_render with the textures it keeps,   *)
(* and input_transform_coords.  Three places remember the two sizes a touch*)
(* depends on, the controller, the renderer and the window itself; the     *)
(* device changes one of them at any frame, the user the other at any time.*)
(*                                                                         *)
(* A size is <<width, height>>.  All of this runs on the main thread;      *)
(* Direct3D may refuse anything it is asked for, Map and Present included. *)
(***************************************************************************)
EXTENDS Integers, FiniteSetsExt

CONSTANTS
    Videos,         \* the sizes of frames
    MaxSide,        \* bound: the side the user gives the window
    Screen,         \* the size of the screen
    FirstWindow     \* the size the window is created with, 800 x 600

ASSUME DisplayAssumption ==
    /\ MaxSide \in Nat \ {0}
    /\ Videos \cup {Screen, FirstWindow} \subseteq (Nat \ {0}) \X (Nat \ {0})

Empty == <<0, 0>>     \* a minimized window, a size not set yet
None  == << >>        \* no texture, no render target, no picture

NotCopied == [frame |-> None, into |-> None]

VARIABLES
    main,       \* "start", "loop" or "crashed"
    win,        \* the window's client area
    ctrl,       \* the controller's device and window size
    rend,       \* the renderer's video and window size
    tex,        \* the size of the renderer's textures and how many of the four
                \* (NV12, staging, the views of Y and UV) there are
    target,     \* the size of the render target view
    picture,    \* the frame shown since the window was last resized, and the
                \* sizes its scale was made from
    failed,     \* could the textures not be created when last asked for?
    missed,     \* did the last frame lack its scale or not reach the screen?
    copied      \* the size of the last frame and of the texture it was copied to

displayVars == <<main, win, ctrl, rend, tex, target, picture, failed, missed, copied>>

DisplayInit ==
    /\ main = "start" /\ win = FirstWindow
    /\ ctrl = [device |-> Empty, window |-> Empty]
    /\ rend = [video |-> Empty, window |-> FirstWindow]
    /\ tex = [size |-> None, made |-> 0]
    /\ target = FirstWindow /\ picture = None
    /\ failed = FALSE /\ missed = FALSE /\ copied = NotCopied

----------------------------------------------------------------------------
(* The window *)

(* (int)(sqrt(a/b) + 0.5), which is 0 for a root below a half, and         *)
(* (int)(a/b + 0.5).                                                       *)
RoundedRoot(a, b) ==
    CHOOSE n \in 0 .. a :
        /\ n > 0 => (2*n - 1) * (2*n - 1) * b <= 4*a
        /\ 4*a < (2*n + 1) * (2*n + 1) * b
Rounded(a, b) == (2*a + b) \div (2*b)

(* The same area in the video's proportions, at most as large as the screen*)
Fitted(w, video) ==
    LET area == w[1] * w[2]
        same == <<RoundedRoot(area * video[1], video[2]),
                  RoundedRoot(area * video[2], video[1])>>
        narrow == IF same[1] <= Screen[1] THEN same
                  ELSE <<Screen[1], Rounded(Screen[1] * video[2], video[1])>>
    IN  IF narrow[2] <= Screen[2] THEN narrow
        ELSE <<Rounded(Screen[2] * video[1], video[2]), Screen[2]>>

Visible(w) == w[1] > 0 /\ w[2] > 0

(* A window that is minimized is left as it is. *)
ResizedForVideo(video) == IF Visible(win) THEN Fitted(win, video) ELSE win

Heard(old, w) == IF Visible(w) THEN w ELSE old

OnlyRendererHears(w, device, video) ==   \* Seeded fault: the controller does not.
    /\ ctrl' = [ctrl EXCEPT !.device = device]
    /\ rend' = [video |-> video, window |-> Heard(rend.window, w)]
    /\ IF Visible(w) /\ (w # win \/ main = "start") THEN target' \in {w, None}
       ELSE UNCHANGED target

(* WM_SIZE, if the size is new, reaches the swap chain, the renderer and   *)
(* the controller.  The render target view is made again, if it can be.    *)
OnResize(w, device, video) ==
    /\ ctrl' = [device |-> device, window |-> Heard(ctrl.window, w)]
    /\ rend' = [video |-> video, window |-> Heard(rend.window, w)]
    /\ IF Visible(w) /\ (w # win \/ main = "start") THEN target' \in {w, None}
       ELSE UNCHANGED target

(* The metadata of the stream gives the first size; window_show makes the  *)
(* window system send its size for the first time.                         *)
Start ==
    /\ main = "start" /\ main' = "loop"
    /\ \E v \in Videos : win' = ResizedForVideo(v) /\ OnResize(win', v, rend.video)
    /\ UNCHANGED <<tex, picture, failed, missed, copied>>

UserResizes ==
    /\ main = "loop"
    /\ win' \in {Empty} \cup ((1 .. MaxSide) \X (1 .. MaxSide))
    /\ OnResize(win', ctrl.device, rend.video)
    /\ picture' = None
    /\ UNCHANGED <<main, tex, failed, missed, copied>>

----------------------------------------------------------------------------
(* A frame *)

NeedsTexturesIfWider(f) ==   \* Seeded fault: only the width is compared.
    rend.video[1] # f[1]

NeedsTextures(f) == rend.video # f

(* ensure_nv12_texture releases the old textures and creates four objects, *)
(* giving up at the first failure.                                         *)
EnsureTextures(f, made) ==
    IF NeedsTextures(f)
    THEN tex' = [size |-> f, made |-> made] /\ failed' = (made < 4)
    ELSE UNCHANGED <<tex, failed>>

(* update_nv12_texture: Map must find the staging texture there, and may   *)
(* fail; then the frame is copied.                                         *)
UpdateTexture(f) ==
    \/ tex'.made < 2 /\ main' = "crashed" /\ copied' = NotCopied
    \/ /\ tex'.made >= 2 /\ main' = main
       /\ copied' \in {NotCopied, [frame |-> f, into |-> tex'.size]}

(* update_aspect_ratio_transform makes the scale of the renderer's sizes.  *)
(* When the constant buffer cannot be mapped the one before stays, of other*)
(* sizes for all that is known, and the frame is drawn with it.            *)
Scale(mapped) ==
    IF mapped THEN [video |-> rend'.video, window |-> rend'.window] ELSE None

(* Black remains where the frame was not copied, and where a view is       *)
(* missing or of other textures nothing is known.                          *)
Drawn(f, mapped) ==
    IF copied' # NotCopied /\ target' # None /\ tex' = [size |-> f, made |-> 4]
    THEN [video |-> f, scale |-> Scale(mapped)] ELSE None

(* The frame is drawn and presented; when Present fails the window shows   *)
(* what it did, unless it was resized.                                     *)
Draw(f) ==
    \E mapped, presented \in BOOLEAN :
        /\ picture' = IF presented THEN Drawn(f, mapped)
                      ELSE IF win' = win THEN picture ELSE None
        /\ missed' = ~(mapped /\ presented)

(* The idle branch: the frame's size is made known before it is rendered.  *)
RenderFrame ==
    /\ main = "loop"
    /\ \E f \in Videos, made \in 0 .. 4 :
          LET gaveUp == NeedsTextures(f) /\ made < 4
          IN  /\ win' = IF f = ctrl.device THEN win ELSE ResizedForVideo(f)
              /\ OnResize(win', f, IF gaveUp THEN rend.video ELSE f)
              /\ EnsureTextures(f, made)
              /\ IF gaveUp THEN copied' = NotCopied /\ UNCHANGED main
                 ELSE UpdateTexture(f)
              /\ Draw(f)

Crashed == main = "crashed" /\ UNCHANGED displayVars

DisplayNext == Start \/ UserResizes \/ RenderFrame \/ Crashed

DisplaySpec == DisplayInit /\ [][DisplayNext]_displayVars

----------------------------------------------------------------------------
(* A touch *)

(* num / den in floating point, truncated: exactly num \div den unless the *)
(* quotient is a whole number and something was rounded on the way.        *)
Truncated(num, den, exact) ==
    LET v == num \div den
    IN  IF num % den = 0 /\ v > 0 /\ ~exact THEN {v - 1, v} ELSE {v}

Wider(w, v) == w[1] * v[2] > v[1] * w[2]

(* render_w and render_h *)
RenderSizes(w, v) ==
    IF Wider(w, v)
    THEN {<<n, w[2]>> : n \in Truncated(w[2] * v[1], v[2], v[1] % v[2] = 0)}
    ELSE {<<w[1], n>> : n \in Truncated(w[1] * v[2], v[1], v[1] % v[2] = 0)}

(* One coordinate, for a render size other than 0: the picture is centred, *)
(* what lies beside it is moved to its edge.                               *)
Touched(x, side, render, n) ==
    LET rel == Max({0, Min({render, x - (side - render) \div 2})})
    IN  Truncated(rel * n, render, rel \in {0, render})

(* Nothing to touch is at 0; a render size of 0 is divided by 0 and gives  *)
(* no position that could be named.                                        *)
Positions(i, x, w, v) ==
    IF ~Visible(w) \/ ~Visible(v) THEN {0}
    ELSE UNION {Touched(x, w[i], r[i], v[i]) : r \in {q \in RenderSizes(w, v) : q[i] > 0}}

(* update_aspect_ratio_transform: the width and height of the picture in   *)
(* the window, as fractions.                                               *)
ShownSides(w, v) ==
    IF Wider(w, v) THEN << <<w[2] * v[1], v[2]>>, <<w[2], 1>> >>
    ELSE << <<w[1], 1>>, <<w[1] * v[2], v[1]>> >>

----------------------------------------------------------------------------

(* With a picture in a visible window, wherever the pointer is on it, the  *)
(* device is touched where the picture shows it, up to a pixel of the      *)
(* window and one of the device; beside the picture, at its edge.  So the  *)
(* controller, the renderer and the picture agree on both sizes after      *)
(* every rotation, resize and failure but two: a frame whose scale could   *)
(* not be written, or that could not be presented, is touched wrongly      *)
(* until the next one gets through (input_transform_coords,                *)
(* update_aspect_ratio_transform, d3d_context_end_frame).                  *)
TouchesWhatIsShown ==
    picture # None /\ Visible(win) /\ ~missed =>
        \A i \in 1 .. 2 :
            LET s == ShownSides(picture.scale.window, picture.scale.video)[i]
                n == picture.video[i]
                Shown(x) ==     \* times 2 * s[1]
                    Max({0, Min({2 * s[1] * n, (2*x*s[2] - win[i]*s[2] + s[1]) * n})})
            IN  \A x \in 0 .. win[i] - 1 :
                   \A t \in Positions(i, x, ctrl.window, ctrl.device) :
                      /\ t * 2 * s[1] - Shown(x) <= 2 * s[1] + 2 * s[2] * n
                      /\ Shown(x) - t * 2 * s[1] <= 2 * s[1] + 2 * s[2] * n

(* As long as the textures for the last new size could be created, frames  *)
(* are copied into textures of their own size, never into a missing one,   *)
(* however the sizes alternate (ensure_nv12_texture, update_nv12_texture). *)
FramesFitUnlessFailed ==
    ~failed => main # "crashed" /\ copied.frame = copied.into
=============================================================================
