----------------------------- MODULE MCBlitter -----------------------------
(* An 8 x 4 screen; one command of each family at a time. *)
EXTENDS Blitter

\* A command with the registers that matter for all of them.
Base == [cmd |-> Fill, sx |-> 0, sy |-> 0, dx |-> 0, dy |-> 0, w |-> 3, h |-> 2,
         sstride |-> 0, dstride |-> 0, color |-> 171, alpha |-> 0,
         flipx |-> FALSE, flipy |-> FALSE, blend |-> FALSE, clip |-> <<>>]
SomeClips == {<<>>, <<1, 5, 1, 2>>}

FillJobs == {[Base EXCEPT !.dx = dx, !.dy = dy, !.w = w, !.h = h, !.dstride = st, !.clip = c] :
               dx \in {-2, 3, 7}, dy \in {-1, 2}, w \in {0, 3, 9}, h \in {1, 3},
               st \in {0, 20}, c \in SomeClips \cup {<<0, 15, 0, 9>>}}
XorJobs == {[Base EXCEPT !.cmd = XorFill, !.dx = dx, !.w = w, !.dstride = st, !.color = c] :
               dx \in {-1, 0, 3}, w \in {1, 5}, st \in {0, 2}, c \in {171, 255}}
CopyJobs == {[Base EXCEPT !.cmd = cmd, !.sx = sx, !.sy = sy, !.dx = dx, !.dy = dy,
                          !.flipx = fx, !.flipy = fy, !.color = 1, !.clip = c] :
               cmd \in MemCopy..VramKeyed, sx \in {0, 2}, sy \in {0, 1}, dx \in {1, 3},
               dy \in {0, 1}, fx \in BOOLEAN, fy \in BOOLEAN, c \in SomeClips}
\* A source stride that leads behind the end of VRAM.
WideJobs == {[Base EXCEPT !.cmd = VramCopy, !.dx = dx, !.sstride = 100] : dx \in {0, 2}}
BlendJobs == {[Base EXCEPT !.cmd = cmd, !.blend = TRUE, !.alpha = a, !.color = c] :
               cmd \in {Fill, MemCopy}, a \in {0, 100, 255}, c \in {0, 171, 255}}
LineJobs == {[Base EXCEPT !.cmd = Line, !.sx = sx, !.sy = sy, !.dx = dx, !.dy = dy, !.clip = c] :
               sx \in {0, 7}, sy \in {0, 3}, dx \in {-1, 0, 1, 6, 7}, dy \in {0, 1, 2, 3, 5},
               c \in SomeClips}

MCJobs == {<<b>> : b \in FillJobs \cup XorJobs \cup CopyJobs \cup WideJobs \cup BlendJobs \cup LineJobs}
\* Lines are judged on a blank screen, all else on one where neighbours differ.
Blank == [a \in 0..VramSize - 1 |-> 0]
Ramp == [a \in 0..VramSize - 1 |-> (a * 37 + 11) % 256]
MCPatterns == {Blank, Ramp}
MCMemory == <<1, 200, 37, 171, 1, 90, 255, 2>>
MCInit == Init /\ (vram = Blank <=> job[1].cmd = Line)
MCSpec == MCInit /\ [][Next]_vars /\ WF_vars(Render)
=============================================================================
