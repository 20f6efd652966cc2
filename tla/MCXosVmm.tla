------------------------------- MODULE MCXosVmm -------------------------------
(* Instances of XosVmm: every kernel image of up to nine pages in one, two *)
(* or three megapages of memory, the framebuffer outside memory or right   *)
(* above the image.                                                        *)
EXTENDS XosVmm

MCLayouts ==
  {l \in [text : {1}, rodata : 2..7, data : 2..9, imageEnd : 3..10,
          memTop : {8, 16, 24}, fb : 3..10 \cup {24}, user : 1..3] :
     /\ l.rodata <= l.data /\ l.data <= l.imageEnd
     /\ l.imageEnd <= l.memTop - 2
     /\ \/ l.fb = 24
        \/ l.fb = l.imageEnd /\ l.fb + FbPages <= l.memTop - 2 - Needed(l)}
===============================================================================
