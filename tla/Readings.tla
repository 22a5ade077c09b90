------------------------------ MODULE Readings ------------------------------
(***************************************************************************)
(* What the panel makes of the game server's reply to a tick rate command  *)
(* and of the line the sidecar publishes.  A reply is a sequence of lines, *)
(* and a line is what the parsers look for in it: whether it says "tps",   *)
(* the values after its first "=", after its last ":" and in the whole of  *)
(* it, the windows it names, and its memory figures.  Values are numbers,  *)
(* or Junk for text that is none.  Heap sizes are in KiB, container sizes  *)
(* in bytes, shares whole percents.                                        *)
(***************************************************************************)
EXTENDS Naturals, Sequences

CONSTANTS None, Junk, MaxPlausibleTps

ReportedWindows == <<"1m", "5m", "15m">>

Prose == [tps |-> FALSE, equals |-> None, windows |-> << >>, colon |-> None,
          whole |-> <<Junk>>, memory |-> None]

First(set) == CHOOSE i \in set : \A j \in set : i <= j

-----------------------------------------------------------------------------
(* Tick rates.                                                             *)

TpsValues(raw) ==
  IF raw = None \/ raw = << >> THEN None
  ELSE IF \A i \in DOMAIN raw : raw[i] # Junk /\ raw[i] <= MaxPlausibleTps THEN raw ELSE None

(* Mutant: the first three readings, whatever their windows.               *)
SelectByPosition(windows, values) ==
  IF Len(values) <= Len(ReportedWindows) THEN values ELSE SubSeq(values, 1, 3)

SelectReportedWindows(windows, values) ==
  LET At(w) == {i \in DOMAIN windows : windows[i] = w}
  IN IF Len(windows) = Len(values) /\ \A i \in DOMAIN ReportedWindows : At(ReportedWindows[i]) # {}
       THEN [i \in DOMAIN ReportedWindows |-> values[First(At(ReportedWindows[i]))]]
     ELSE IF Len(values) <= Len(ReportedWindows) THEN values
     ELSE None

(* Only the first line that says "tps" counts, and the readings it has no  *)
(* room for are on the next.                                               *)
ParseTps(lines) ==
  LET mentions == {i \in DOMAIN lines : lines[i].tps}
      at       == First(mentions)
      single   == TpsValues(lines[at].equals)
      own      == TpsValues(lines[at].colon)
      below    == IF at < Len(lines) THEN TpsValues(lines[at + 1].whole) ELSE None
      values   == IF own # None THEN own ELSE below
  IN IF mentions = {} THEN None
     ELSE IF single # None /\ Len(single) = 1 THEN single
     ELSE IF values = None THEN None
     ELSE SelectReportedWindows(lines[at].windows, values)

-----------------------------------------------------------------------------
(* Heap.                                                                   *)

HeapScale(unit) ==
  CASE unit \in {"kb", "kib"} -> 1 [] unit \in {"gb", "gib"} -> 1024 * 1024 [] OTHER -> 1024

Heap(used, allocated, max) ==
  IF max = 0 THEN None
  ELSE [used |-> used, allocated |-> allocated, max |-> max, percent |-> (used * 100) \div max]

(* Mutant: what is free is taken from the ceiling.                         *)
ParseGcHeapOfMax(lines) ==
  LET Says(label) == {i \in DOMAIN lines : lines[i].memory # None /\ lines[i].memory.label = label
                                             /\ lines[i].memory.figure # Junk}
      Last(label) == LET i == CHOOSE i \in Says(label) : \A j \in Says(label) : j <= i
                     IN lines[i].memory.figure * HeapScale(lines[i].memory.unit)
      max == IF Says("maximum") = {} THEN 0 ELSE Last("maximum")
  IN IF Says("allocated") = {} \/ Says("free") = {} THEN None
     ELSE Heap(IF Last("free") > max THEN 0 ELSE max - Last("free"), Last("allocated"), max)

(* parse_gc_heap: what is free is measured against what is committed.      *)
ParseGcHeap(lines) ==
  LET Says(label) == {i \in DOMAIN lines : lines[i].memory # None /\ lines[i].memory.label = label
                                             /\ lines[i].memory.figure # Junk}
      Last(label) == LET i == CHOOSE i \in Says(label) : \A j \in Says(label) : j <= i
                     IN lines[i].memory.figure * HeapScale(lines[i].memory.unit)
      max == IF Says("maximum") = {} THEN 0 ELSE Last("maximum")
  IN IF Says("allocated") = {} \/ Says("free") = {} THEN None
     ELSE Heap(IF Last("free") > Last("allocated") THEN 0 ELSE Last("allocated") - Last("free"),
               Last("allocated"),
               IF max > 0 THEN max ELSE Last("allocated"))

(* parse_heap: one line has it all, in one unit.                           *)
ParseHeap(lines) ==
  LET usages == {i \in DOMAIN lines : lines[i].memory # None /\ lines[i].memory.label = "usage"}
      usage  == lines[First(usages)].memory
      scale  == HeapScale(usage.unit)
  IN IF usages = {} THEN ParseGcHeap(lines)
     ELSE IF usage.used = Junk \/ usage.allocated = Junk THEN None
     ELSE Heap(usage.used * scale, usage.allocated * scale,
               IF usage.max \in {None, Junk, 0} THEN usage.allocated * scale
               ELSE usage.max * scale)

-----------------------------------------------------------------------------
(* The sidecar's line.                                                     *)

Magnitude(unit) ==
  CASE unit \in {"", "b"} -> 0 [] unit \in {"kib", "kb"} -> 1 [] unit \in {"mib", "mb"} -> 2
    [] unit \in {"gib", "gb"} -> 3 [] unit \in {"tib", "tb"} -> 4 [] OTHER -> None

(* Mutant: a decimal unit is read as the binary one.                       *)
ParseSizeBinary(size) ==
  IF size.number = Junk \/ Magnitude(size.unit) = None THEN None
  ELSE size.number * 1024 ^ Magnitude(size.unit)

ParseSize(size) ==
  IF size.number = Junk \/ Magnitude(size.unit) = None THEN None
  ELSE size.number * (IF size.unit \in {"kib", "mib", "gib", "tib"} THEN 1024 ELSE 1000)
                       ^ Magnitude(size.unit)

ParseCores(cores) == IF cores \in {None, Junk, 0} THEN None ELSE cores

(* A stopped container is one with no memory limit.                        *)
ParseContainerStats(line) ==
  LET used  == ParseSize(line.used)
      limit == ParseSize(line.limit)
      cores == ParseCores(line.cores)
  IN IF line.cpu = Junk \/ used = None \/ limit \in {None, 0} THEN None
     ELSE [cpu |-> line.cpu, used |-> used, limit |-> limit,
           ofHost |-> IF cores = None THEN None ELSE line.cpu \div cores]

-----------------------------------------------------------------------------
(* External: how servers word the reply.  figures holds the tick rate of   *)
(* every window and the heap in MiB.                                       *)

Rates(figures, windows) == [i \in DOMAIN windows |-> figures.tps[windows[i]]]
OnOneLine(figures, windows) ==
  [Prose EXCEPT !.tps = TRUE, !.windows = windows, !.colon = Rates(figures, windows)]

Unknown == <<Prose>>

Essentials(figures) ==
  <<OnOneLine(figures, ReportedWindows),
    [Prose EXCEPT !.colon = <<Junk>>,
                  !.memory = [label |-> "usage", used |-> figures.heap.used,
                              allocated |-> figures.heap.allocated,
                              max |-> figures.heap.max, unit |-> "mb"]]>>

Gc(figures) ==
  LET Says(label, figure) ==
        [Prose EXCEPT !.colon = <<Junk>>,
                      !.memory = [label |-> label, figure |-> figure, unit |-> "mb"]]
  IN <<Prose,
       [Prose EXCEPT !.tps = TRUE, !.equals = <<figures.tps["1m"]>>],
       Says("maximum", figures.heap.max),
       Says("allocated", figures.heap.allocated),
       Says("free", figures.heap.allocated - figures.heap.used)>>

Spark(figures) ==
  LET windows == <<"5s", "10s", "1m", "5m", "15m">>
  IN <<[Prose EXCEPT !.tps = TRUE, !.windows = windows, !.colon = << >>],
       [Prose EXCEPT !.whole = Rates(figures, windows)]>>

Paper(figures) == <<OnOneLine(figures, ReportedWindows)>>

Backwards(figures) == <<OnOneLine(figures, <<"15m", "5m", "1m">>)>>

(* The reply of a server of each kind to the two commands.                 *)
Reply(kind, command, figures) ==
  LET namespaced == command = "essentials:tps"
  IN CASE kind = "essentials" -> Essentials(figures)
       [] kind = "gc"         -> Gc(figures)
       [] kind = "spark"      -> IF namespaced THEN Gc(figures) ELSE Spark(figures)
       [] kind = "topped up"  -> IF namespaced THEN Spark(figures) ELSE Gc(figures)
       [] kind = "paper"      -> IF namespaced THEN Unknown ELSE Paper(figures)
       [] kind = "backwards"  -> IF namespaced THEN Unknown ELSE Backwards(figures)
       [] kind = "vanilla"    -> Unknown

=============================================================================
