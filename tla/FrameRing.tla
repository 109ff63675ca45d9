----------------------------- MODULE FrameRing -----------------------------
(***************************************************************************)
(* The named section of shared memory in which a captured monitor's frames *)
(* are left for other programs (rust/virtual-display-driver/src/           *)
(* shared_memory.rs): a header and a ring of Slots frames.                 *)
(*                                                                         *)
(* A section lives as long as some program has it open and keeps the size  *)
(* it was created with; opening it by name again does not enlarge it.      *)
(* Frames are numbered from 1; Torn stands for bytes of no single frame.   *)
(***************************************************************************)
EXTENDS Integers

CONSTANT Slots    \* frame_count

ASSUME SlotsAssumption == Slots \in Nat \ {0}

Torn  == 0
Blank == [i \in 0 .. Slots - 1 |-> Torn]

\* cap: the frame size it was created for; the rest is the header.
NoSection == [cap |-> 0, size |-> 0, seq |-> 0, slot |-> Blank]
Exists(s) == s.cap > 0

\* CreateFileMappingW gives the existing section; MapViewOfFile fails beyond its end.
CanMap(s, size) == Exists(s) => size <= s.cap

\* SharedMemoryWriter::new writes the whole header anew, the sequence included.
Opened(s, size) ==
  [cap  |-> IF Exists(s) THEN s.cap ELSE size,
   size |-> size,
   seq  |-> 0,
   slot |-> IF s.size = size THEN s.slot ELSE Blank]

\* Faulty variant: the newest frame is overwritten.
TargetNewest(s) == (s.seq + Slots - 1) % Slots

\* write_frame: the slot after the newest is overwritten, then the sequence grows.
Target(s) == s.seq % Slots

WriteBegun(s)    == [s EXCEPT !.slot[Target(s)] = Torn]
WriteEnded(s, f) == [s EXCEPT !.slot[Target(s)] = f, !.seq = @ + 1]

\* The same when others write too: the sequence is the one loaded before the copy.
WriteStored(s, seq, f) == WriteEnded([s EXCEPT !.seq = seq], f)

\* What a reader takes: the slot written last.
Newest(s) == s.slot[(s.seq + Slots - 1) % Slots]

SectionType(Sizes, MaxFrames) ==
  [cap : Sizes \cup {0}, size : Sizes \cup {0}, seq : 0 .. MaxFrames,
   slot : [0 .. Slots - 1 -> 0 .. MaxFrames]]
=============================================================================
