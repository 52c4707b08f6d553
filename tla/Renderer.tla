------------------------------- MODULE Renderer -------------------------------
(***************************************************************************)
(* The renderer of the Linux client (renderer.cpp): one window that is     *)
(* drawn in up to three ways.  OpenGL keeps the picture in a texture,      *)
(* brings a rectangle up to date in it and draws the whole texture;        *)
(* without it, or when it fails, a rectangle goes through a shared memory  *)
(* image, and only a whole frame may go through a plain X image.  NV12 and *)
(* I420 frames (H.264) have OpenGL only, and a texture for each plane.     *)
(*                                                                         *)
(* OpenGL is asked for errors once, at the end of a frame that was drawn:  *)
(* an upload that fails is noticed after the window has been drawn with    *)
(* what the texture held before, and an error may be an older frame's.     *)
(*                                                                         *)
(* The picture is divided into tiles and every frame has the size of the   *)
(* window; a tile holds the number of the frame it was last painted from.  *)
(* The mutex makes an operation one step.  A local cursor is never shown:  *)
(* both callers of updateLocalCursor are given no renderer.                *)
(***************************************************************************)
EXTENDS Integers

CONSTANTS
    Tiles,      \* the parts of the picture that dirty rectangles are made of
    MaxFrames,  \* bound: frames submitted
    Blank       \* contents nobody painted

ASSUME RendererAssumption ==
    /\ Tiles # {}
    /\ MaxFrames \in Nat
    /\ Blank \notin Nat

VARIABLES
    fullscreen_,       \* openFullscreen has succeeded, close has not run
    format,            \* what is submitted: "BGRx", or "YUV" for NV12 and I420
    glAvailable_, xShmAvailable_,
    glTextureSized,    \* glTextureWidth_ and glTextureHeight_ (with planes:
                       \* glYuvWidth_ and glYuvHeight_) are the window's
    glStorage,         \* OpenGL has given the texture, or every plane, its memory
    glTexture_,        \* contents of the texture, or of the planes together
    xShmImage_,        \* contents of the shared image, or Blank: there is none
    screen,            \* contents of the window
    frames,            \* frames submitted so far
    latest,            \* history: the last frame submitted for each tile
    missed,            \* history: tiles whose last frame the texture has not got
    hidden,            \* history: tiles whose last frame nothing showed at the time
    covered            \* history: tiles OpenGL has drawn since their last frame

pathVars == <<fullscreen_, format, glAvailable_, xShmAvailable_>>
textureVars == <<glTextureSized, glStorage, glTexture_>>
pictureVars == <<textureVars, xShmImage_, screen>>
historyVars == <<frames, latest, missed, hidden, covered>>
windowVars == <<pathVars, pictureVars, historyVars>>

Contents == [Tiles -> Nat \cup {Blank}]
Empty == [t \in Tiles |-> Blank]

\* A picture painted with frame n on the tiles of a rectangle.
Painted(picture, rect, n) ==
    [t \in Tiles |-> IF t \in rect THEN n ELSE picture[t]]

(***************************************************************************)
(* openFullscreen and close.                                               *)
(***************************************************************************)
WindowInit ==
    /\ fullscreen_ = FALSE /\ format \in {"BGRx", "YUV"}
    /\ glAvailable_ = FALSE /\ xShmAvailable_ = FALSE
    /\ glTextureSized = FALSE /\ glStorage = FALSE /\ glTexture_ = Empty
    /\ xShmImage_ = Blank /\ screen = Empty
    /\ frames = 0 /\ latest = Empty /\ missed = {} /\ hidden = {} /\ covered = {}

\* The X server has a visual for OpenGL or not, and shared memory or not.
OpenFullscreen(gl, shm) ==
    /\ ~fullscreen_ /\ frames = 0
    /\ fullscreen_' = TRUE /\ glAvailable_' = gl /\ xShmAvailable_' = shm
    /\ UNCHANGED <<format, pictureVars, historyVars>>

\* The client closes after its last frame.  The texture is deleted, but not its
\* size.
Close ==
    /\ fullscreen_
    /\ fullscreen_' = FALSE /\ glAvailable_' = FALSE
    /\ frames' = MaxFrames
    /\ glStorage' = FALSE /\ glTexture_' = Empty
    /\ xShmImage_' = Blank /\ screen' = Empty
    /\ latest' = Empty /\ missed' = {} /\ hidden' = {} /\ covered' = {}
    /\ UNCHANGED <<format, xShmAvailable_, glTextureSized>>

(***************************************************************************)
(* How far OpenGL gets with a frame.  Upload: "none" (not available, the   *)
(* context cannot be made current, or a shader does not compile), "failed" *)
(* or "ok".  Draw: "none" (the context is lost after the upload), "error"  *)
(* (drawn, but an error is reported), or "done".                           *)
(***************************************************************************)
Outcomes == [upload : {"none", "failed", "ok"}, draw : {"none", "error", "done"}]

\* A failed upload is reported, if the window is drawn at all.
Possible(gl) ==
    /\ gl.upload = "none" => gl.draw = "none"
    /\ gl.upload = "failed" => gl.draw # "done"
    /\ gl.upload # "none" => glAvailable_

\* The texture is made anew when it has not the window's size.  (The slip: when it
\* has not the rectangle's.)
TextureUnlessRect(rect) ==
    IF glTextureSized /\ rect = Tiles THEN glTexture_ ELSE Empty
Texture(rect) == IF glTextureSized THEN glTexture_ ELSE Empty

\* What an upload that fails may leave: of the planes, some may be new.
Leaves(rect) == {Texture(rect)} \cup (IF format = "YUV" THEN {Empty} ELSE {})

\* renderGlFrame, renderGlFrameRegion and the uploads of planes.  The size counts as
\* the texture's even when there was no memory for it; nothing can be uploaded then.
Upload(rect, gl) ==
    /\ glTextureSized' = (glTextureSized \/ gl.upload # "none")
    /\ glStorage' \in IF glTextureSized \/ gl.upload = "none" THEN {glStorage} ELSE BOOLEAN
    /\ gl.upload = "ok" => glStorage'
    /\ CASE gl.upload = "none" -> glTexture_' = glTexture_
         [] gl.upload = "failed" -> glTexture_' \in Leaves(rect)
         [] gl.upload = "ok" -> glTexture_' = Painted(Texture(rect), rect, frames + 1)

\* The scene is the texture, over the whole window.
Drawn(gl) == IF gl.draw # "none" THEN glTexture_' ELSE screen

(***************************************************************************)
(* The ways without OpenGL: "shared" memory, a "plain" image, or "none".   *)
(***************************************************************************)
Ways == {"shared", "plain", "none"}

\* ensureSharedImage finds memory, or not; a plain image can take a whole picture
\* only, and a rectangle is then accepted and not shown.  A shared image is kept.
Usable(x, rect) ==
    /\ x = "shared" => xShmAvailable_
    /\ x = "plain" => rect = Tiles
    /\ xShmImage_ # Blank => x = "shared"

SharedImage == IF xShmImage_ = Blank THEN Empty ELSE xShmImage_

\* The image is put on the window for the rectangle alone.
DrawBesideGl(x, rect, gl) ==
    /\ xShmImage_' = IF x = "shared" THEN Painted(SharedImage, rect, frames + 1)
                     ELSE xShmImage_
    /\ screen' = IF x = "none" THEN Drawn(gl)
                 ELSE Painted(Drawn(gl), rect, frames + 1)

(***************************************************************************)
(* submitRawFrameData (the whole picture) and submitRawFrameRegion.        *)
(***************************************************************************)
Shown(gl, x) == (gl.upload = "ok" /\ gl.draw # "none") \/ x # "none"

Submitted(rect, gl, x) ==
    /\ frames' = frames + 1
    /\ latest' = Painted(latest, rect, frames + 1)
    /\ missed' = IF gl.upload = "ok" THEN missed \ rect ELSE missed \cup rect
    /\ hidden' = IF Shown(gl, x) THEN hidden \ rect ELSE hidden \cup rect
    /\ covered' = (IF gl.draw # "none" THEN Tiles ELSE covered) \ rect

SubmitBgrx(rect, gl, x) ==
    /\ fullscreen_ /\ frames < MaxFrames /\ format = "BGRx"
    /\ Possible(gl) /\ Usable(x, rect)
    /\ Upload(rect, gl)
    /\ IF gl.draw = "done" THEN screen' = Drawn(gl) /\ UNCHANGED xShmImage_
       ELSE DrawBesideGl(x, rect, gl)
    /\ Submitted(rect, gl, x)
    /\ UNCHANGED pathVars

\* renderGlNv12Frame and renderGlI420Frame.  Where OpenGL fails there is no other way.
SubmitYuv(gl) ==
    /\ fullscreen_ /\ frames < MaxFrames /\ format = "YUV"
    /\ Possible(gl) /\ (gl.upload # "none" => gl.draw # "none")
    /\ Upload(Tiles, gl)
    /\ screen' = Drawn(gl)
    /\ Submitted(Tiles, gl, "none")
    /\ UNCHANGED <<pathVars, xShmImage_>>

WindowNext == \/ \E gl, shm \in BOOLEAN : OpenFullscreen(gl, shm)
        \/ Close
        \/ \E gl \in Outcomes :
              \/ \E rect \in SUBSET Tiles \ {{}}, x \in Ways :
                    SubmitBgrx(rect, gl, x)
              \/ SubmitYuv(gl)

WindowSpec == WindowInit /\ [][WindowNext]_windowVars
-----------------------------------------------------------------------------
(***************************************************************************)
(* Properties.                                                             *)
(***************************************************************************)
\* Type invariant of the window, its images and the history.
WindowTypeOK ==
    /\ fullscreen_ \in BOOLEAN /\ format \in {"BGRx", "YUV"}
    /\ glAvailable_ \in BOOLEAN /\ xShmAvailable_ \in BOOLEAN
    /\ glTextureSized \in BOOLEAN /\ glStorage \in BOOLEAN /\ glTexture_ \in Contents
    /\ glTextureSized \/ glTexture_ = Empty
    /\ xShmImage_ \in Contents \cup {Blank} /\ screen \in Contents
    /\ frames \in Nat /\ latest \in Contents
    /\ missed \subseteq Tiles /\ hidden \subseteq Tiles /\ covered \subseteq Tiles

\* Whatever ways the X server offers, and whichever fail for a frame: every tile of
\* the window shows the last frame submitted for it, with two exceptions.  As long
\* as OpenGL has not drawn since, it must have been possible to show that frame at
\* all; the rectangles and failures of other tiles, and a change of the way, take
\* nothing away.  Once OpenGL has drawn since, it must have taken that frame into
\* its texture: a frame it refused, or failed to upload, and that shared memory
\* showed in its place, is covered by the older texture.
NewestShown ==
    \A t \in Tiles :
        (IF t \in covered THEN t \notin missed ELSE t \notin hidden)
            => screen[t] = latest[t]
=============================================================================
