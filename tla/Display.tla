------------------------------ MODULE Display ------------------------------
(***************************************************************************)
(* The two displays, which write the picture to a file from time to time:  *)
(* the frame buffer (peripheral/fb.c) and the VGA controller               *)
(* (peripheral/vga.c).  A dump is abstracted to the addresses it reads,    *)
(* the length its header announces and the bytes it writes.  A write that  *)
(* fails ends the dump; a file that cannot be opened ends the simulator.   *)
(***************************************************************************)
EXTENDS Device

CONSTANTS
  FB_SIZEX, FB_SIZEY,    \* the screen
  CAM_SIZEX, CAM_SIZEY,  \* the camera's picture
  FB_WRAP,               \* size and alignment of the frame memory
  FbAddrs,               \* values software writes to BUFADDR
  FbCamPos,              \* values software writes to CAMPOSADDR
  VgaLens,               \* values [h, v] of HVLEN
  MAX_PICS               \* bound: pictures, failed ones included

ASSUME DisplayAssumption ==
  /\ FB_SIZEX \in Nat /\ FB_SIZEY \in Nat /\ FB_WRAP \in Nat \ {0}
  /\ FB_SIZEX % 4 = 0 /\ FB_SIZEX * FB_SIZEY <= FB_WRAP /\ CAM_SIZEX % 2 = 0
  /\ FbAddrs \subseteq Nat

NoDump == [size |-> 0, bytes |-> 0, reads |-> {}]

FbFresh == [kind |-> "fb", on |-> FALSE, deep |-> FALSE, addr |-> 0,
            cam |-> [x |-> 0, y |-> 0], refresh |-> FALSE, pic |-> 0,
            dead |-> FALSE, dump |-> NoDump]
VgaFresh == [kind |-> "vga", hlen |-> 0, vlen |-> 0, pics |-> 0,
             dead |-> FALSE, dump |-> NoDump]
DisplayInit == dev = FbFresh \/ dev = VgaFresh
-----------------------------------------------------------------------------
(* The byte of frame memory that pixel x, y is read from.                  *)
PixelNoWrap(addr, x, y) == addr + y * FB_SIZEX + x
PixelAddr(addr, x, y) ==
  (addr - (addr % FB_WRAP)) + ((addr + y * FB_SIZEX + x) % FB_WRAP)

Screen == (0 .. FB_SIZEX - 1) \X (0 .. FB_SIZEY - 1)

InCamera(cam, p) ==
  /\ p[1] >= cam.x /\ p[1] < cam.x + CAM_SIZEX
  /\ p[2] >= cam.y /\ p[2] < cam.y + CAM_SIZEY

FramePixels(s) == {p \in Screen : ~s.deep \/ ~InCamera(s.cam, p)}

(* A header of 14 + 40 bytes, 1024 bytes of palette and one byte a pixel   *)
(* at a depth of 8, three at a depth of 24.                                *)
fb_dump_image8(s) ==
  [size |-> 14 + 40 + FB_SIZEX * FB_SIZEY + 1024,
   bytes |-> 14 + 40 + 1024 + FB_SIZEY * (FB_SIZEX + ((4 - FB_SIZEX) % 4)),
   reads |-> {<<p, PixelAddr(s.addr, p[1], p[2])>> : p \in FramePixels(s)}]

fb_dump_image24(s) ==
  [size |-> 14 + 40 + FB_SIZEX * FB_SIZEY * 3,
   bytes |-> 14 + 40 + Cardinality(Screen) * 3,
   reads |-> {<<p, PixelAddr(s.addr, p[1], p[2])>> : p \in FramePixels(s)}]

(* The file is written, a write fails half way, or fopen() returns NULL.   *)
FbDump(s, how) ==
  CASE how = "ok"    -> [s EXCEPT !.pic = @ + 1, !.dump =
                           IF s.deep THEN fb_dump_image24(s) ELSE fb_dump_image8(s)]
    [] how = "short" -> [s EXCEPT !.pic = @ + 1]
    [] how = "null"  -> [s EXCEPT !.dead = TRUE]

fb_job(s, how) ==
  IF ~s.refresh THEN [s EXCEPT !.refresh = TRUE]
  ELSE [(IF s.on THEN FbDump(s, how) ELSE s) EXCEPT !.refresh = FALSE]

(* At a depth of 8 bits without palette.  The lengths differ, but vlen is  *)
(* never anything but 0.                                                   *)
vga_dump_image(s, how) ==
  IF s.hlen = 0 \/ s.vlen = 0 \/ how = "short" THEN s
  ELSE IF how = "null" THEN [s EXCEPT !.dead = TRUE]
  ELSE [s EXCEPT !.dump =
         [size |-> 16 + 40 + s.hlen * s.vlen * 4, reads |-> {},
          bytes |-> 16 + 40 + s.vlen * (s.hlen * 8 + (4 - (s.hlen % 4)))]]

vga_job(s, how) == vga_dump_image([s EXCEPT !.pics = @ + 1], how)
-----------------------------------------------------------------------------
Outcomes == {"ok", "short", "null"}

fb_write32 ==
  /\ Is("fb") /\ ~dev.dead
  /\ \/ \E on, deep \in BOOLEAN : dev' = [dev EXCEPT !.on = on, !.deep = deep]
     \/ \E a \in FbAddrs : dev' = [dev EXCEPT !.addr = a]
     \/ \E v \in FbCamPos :
          dev' = [dev EXCEPT !.cam = [x |-> v % FB_SIZEX, y |-> v \div FB_SIZEX]]

FbJob == /\ Is("fb") /\ ~dev.dead /\ dev.pic < MAX_PICS
         /\ \E how \in Outcomes : dev' = fb_job(dev, how)

(* fb_reset() leaves the camera alone.                                     *)
fb_reset == /\ Is("fb")
            /\ dev' = [FbFresh EXCEPT !.cam = dev.cam, !.dead = dev.dead]

(* HVLEN: both halves of the value are assigned to hlen.                   *)
vga_write32 ==
  /\ Is("vga") /\ ~dev.dead
  /\ \E v \in VgaLens : dev' = [dev EXCEPT !.hlen = v.v + 2]

VgaJob == /\ Is("vga") /\ ~dev.dead /\ dev.pics < MAX_PICS
          /\ \E how \in Outcomes : dev' = vga_job(dev, how)

vga_reset == Is("vga") /\ dev' = VgaFresh

DisplayNext ==
  fb_write32 \/ FbJob \/ fb_reset \/ vga_write32 \/ VgaJob \/ vga_reset

DisplaySpec == DisplayInit /\ [][DisplayNext]_dev
-----------------------------------------------------------------------------
(* A picture that has been written is as long as its header says, at both  *)
(* depths and wherever the camera's window is, even beyond the screen.     *)
PictureComplete ==
  Is("fb") \/ Is("vga") => dev.dump.size = dev.dump.bytes

(* The pixels of a picture are read from different bytes, all in the       *)
(* aligned block of FB_WRAP bytes that the buffer address was in: the      *)
(* memory wraps around at its end and not at the end of the block.         *)
PixelsInBlock ==
  Is("fb") =>
    \A r, q \in dev.dump.reads :
      /\ r[1] # q[1] => r[2] # q[2]
      /\ r[2] \div FB_WRAP = q[2] \div FB_WRAP

(* The dumps of the two displays (fb_dump_image8, fb_dump_image24,         *)
(* vga_dump_image) are complete pictures of the memory they show.          *)
DisplaySound == PictureComplete /\ PixelsInBlock
=============================================================================
